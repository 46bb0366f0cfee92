----------------------------- MODULE AccountBook -----------------------------
(***************************************************************************)
(* What the payout service promises the owner of an account, without its   *)
(* passes, tables, failures and restarts: earnings are credited at any     *)
(* time; coins are sent for what the account is owed, the whole of it and  *)
(* nothing else; a payment is recorded only for coins that were sent; and  *)
(* the account is settled, in full, only for payments that are recorded.   *)
(* A payment may be sent or recorded more than once (the service cannot    *)
(* know that it was), it is never settled without having been made.        *)
(***************************************************************************)
EXTENDS Integers

CONSTANT Owners       \* the accounts

VARIABLES
  credited,     \* what each account has earned so far
  sent,         \* the coins sent to the account's wallet
  recorded,     \* the payments on record for it
  settled       \* what was taken off its balance for payments

book == <<credited, sent, recorded, settled>>

Owed(a) == credited[a] - settled[a]

Earn ==
  /\ \E a \in Owners : credited' = [credited EXCEPT ![a] = credited'[a]]
  /\ UNCHANGED <<sent, recorded, settled>>

(* One transaction may pay many accounts.                                   *)
Send ==
  /\ sent' = [a \in Owners |-> sent'[a]]
  /\ \A a \in Owners : \/ sent'[a] = sent[a]
                       \/ Owed(a) > 0 /\ sent'[a] = sent[a] + Owed(a)
  /\ UNCHANGED <<credited, recorded, settled>>

Record ==
  /\ \E a \in Owners : /\ Owed(a) > 0
                       /\ recorded[a] + Owed(a) <= sent[a]
                       /\ recorded' = [recorded EXCEPT ![a] = @ + Owed(a)]
  /\ UNCHANGED <<credited, sent, settled>>

Settle ==
  /\ \E a \in Owners : /\ credited[a] <= recorded[a]
                       /\ settled' = [settled EXCEPT ![a] = credited[a]]
  /\ UNCHANGED <<credited, sent, recorded>>

Init ==
  /\ credited = [a \in Owners |-> 0]
  /\ sent = [a \in Owners |-> 0]
  /\ recorded = [a \in Owners |-> 0]
  /\ settled = [a \in Owners |-> 0]

Next == Earn \/ Send \/ Record \/ Settle

Spec == Init /\ [][Next]_book
=============================================================================
