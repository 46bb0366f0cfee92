------------------------------- MODULE Payer --------------------------------
(***************************************************************************)
(* payoutBalances and bitcoinTryManyPayments (payouts/payer.go): the rows  *)
(* of balances over their threshold are read, one sendmany per chain pays  *)
(* them, and then each row is recorded in payments and reset.  Every one   *)
(* of these calls can fail, and a sendmany can be executed by the node     *)
(* although the caller only sees a timeout.                                *)
(***************************************************************************)
EXTENDS Ledger

CONSTANTS
  BlockChainOrder,      \* sequence of the chains, the primary first
  Wallets,              \* the addresses coins are sent to
  Parts,                \* [Accounts -> Seq(Wallets)]: balances.address split at "-"
  MinerMinimumPayment,  \* [Chains -> Nat \ {0}]
  MinerSettings         \* accounts with a miner_settings row -> paymentthreshold

ASSUME PayerAssumption ==
  /\ BlockChainOrder \in Seq(Chains)
  /\ \A c \in Chains : \E i \in DOMAIN BlockChainOrder : BlockChainOrder[i] = c
  /\ Parts \in [Accounts -> Seq(Wallets)]
  /\ \A a \in Accounts : Len(Parts[a]) \in {1, Len(BlockChainOrder)}
  /\ MinerMinimumPayment \in [Chains -> Nat \ {0}]
  /\ \A a \in DOMAIN MinerSettings : MinerSettings[a] \in Nat \ {0}

VARIABLES
  due,          \* balances: the rows of this payout with the amounts read
  toSend,       \* chains of transactionsGroupedByChain still to be sent
  toRecord,     \* rows still to be recorded
  row,          \* the row recorded last, to be reset next
  sentTo,       \* external: coins the chains' nodes have sent to a wallet
  recorded      \* table payments: sum of the amounts per chain and wallet

payoutVars == <<due, toSend, toRecord, row>>
payerVars == <<payoutVars, sentTo, recorded>>

Purses == Chains \X Wallets
NoRow == <<>>
NoDue == [r \in {} |-> 0]

chainIndex(c) == CHOOSE i \in DOMAIN BlockChainOrder : BlockChainOrder[i] = c

(* A pool reward address has one part; a login has one per chain.           *)
findBalanceAddress(r) ==
  IF Len(BlockChainOrder) > 1 /\ Len(Parts[r[2]]) > 1
  THEN Parts[r[2]][chainIndex(r[1])]
  ELSE Parts[r[2]][1]

Purse(r) == <<r[1], findBalanceAddress(r)>>

(* COALESCE(ms.paymentthreshold, minimum).                                  *)
Threshold(r) == IF r[2] \in DOMAIN MinerSettings
                THEN MinerSettings[r[2]]
                ELSE MinerMinimumPayment[r[1]]

OverThreshold_Strict == {r \in Rows : balances[r] > Threshold(r)}
OverThreshold == {r \in Rows : balances[r] >= Threshold(r)}

ClearPayout ==
  /\ due' = NoDue
  /\ toSend' = {}
  /\ toRecord' = {}
  /\ row' = NoRow

(* payoutBalances returns.                                                  *)
PayoutEnds == ClearPayout /\ pc' = "sleep"

(* GetPoolBalancesOverThreshold for every chain.  An error ends the pass; a *)
(* list cut short while it is read does not.                                *)
SelectDue ==
  /\ pc = "payouts"
  /\ \/ \E rows \in SUBSET OverThreshold :
          /\ Charge(rows # OverThreshold)
          /\ due' = [r \in rows |-> balances[r]]
          /\ toSend' = {r[1] : r \in rows}
          /\ toRecord' = rows
          /\ row' = NoRow
          /\ pc' = IF rows = {} THEN "sleep" ELSE "send"
     \/ Charge(TRUE) /\ PayoutEnds
  /\ UNCHANGED <<ledgerVars, sentTo, recorded>>

(* transactionsGroupedByChain[c]: a Go map from wallet to amount, so of the *)
(* rows with the same wallet only the last one read stays.                  *)
Transactions(c) ==
  LET rows    == {r \in DOMAIN due : r[1] = c}
      wallets == {findBalanceAddress(r) : r \in rows}
  IN  {tx \in [wallets -> {due[r] : r \in rows}] :
         \A w \in wallets : \E r \in rows : findBalanceAddress(r) = w /\ tx[w] = due[r]}

sendSucceeded_ErrorIgnored(o) == o \in Outcome
sendSucceeded(o) == o = "ok"

(* One sendmany; the chains come in the order a Go map is ranged over.  An  *)
(* error ends the payout, whatever was sent on the chains before it.        *)
SendMany ==
  /\ pc = "send"
  /\ \E c \in toSend, o \in Outcome :
       /\ Charge(o # "ok")
       /\ IF Applied(o)
          THEN \E tx \in Transactions(c) :
                 sentTo' = [p \in Purses |->
                              IF p[1] = c /\ p[2] \in DOMAIN tx
                              THEN sentTo[p] + tx[p[2]] ELSE sentTo[p]]
          ELSE sentTo' = sentTo
       /\ IF sendSucceeded(o)
          THEN /\ toSend' = toSend \ {c}
               /\ pc' = IF toSend' = {} THEN "record" ELSE pc
               /\ UNCHANGED <<due, toRecord, row>>
          ELSE PayoutEnds
  /\ UNCHANGED <<ledgerVars, recorded>>

(* Payments.Insert for the next row, chain after chain.                     *)
RecordPayment ==
  /\ pc = "record"
  /\ \E r \in toRecord, o \in Outcome :
       /\ \A q \in toRecord : chainIndex(r[1]) <= chainIndex(q[1])
       /\ Charge(o # "ok")
       /\ recorded' = IF Applied(o)
                      THEN [recorded EXCEPT ![Purse(r)] = @ + due[r]]
                      ELSE recorded
       /\ IF o = "ok"
          THEN /\ row' = r
               /\ toRecord' = toRecord \ {r}
               /\ pc' = "reset"
               /\ UNCHANGED <<due, toSend>>
          ELSE PayoutEnds
  /\ UNCHANGED <<ledgerVars, sentTo>>

(* Balances.AddAmount(-amount) for the row just recorded; an error leaves   *)
(* the rows after it paid and not recorded.                                 *)
NextRow ==
  IF toRecord = {}
  THEN PayoutEnds
  ELSE /\ row' = NoRow
       /\ pc' = "record"
       /\ UNCHANGED <<due, toSend, toRecord>>

AfterReset_Retries(o) ==
  IF AddFailed(o) THEN UNCHANGED <<pc, payoutVars>> ELSE NextRow
AfterReset_RecordsAgain(o) ==
  IF AddFailed(o)
  THEN /\ toRecord' = toRecord \cup {row}
       /\ row' = NoRow
       /\ pc' = "record"
       /\ UNCHANGED <<due, toSend>>
  ELSE NextRow
AfterReset_StopsAtFirst(o) == PayoutEnds
AfterReset(o) == IF AddFailed(o) THEN PayoutEnds ELSE NextRow

ResetBalance ==
  /\ pc = "reset"
  /\ \E o \in AddOutcome :
       /\ AddAmount(row[1], row[2], -due[row], o)
       /\ AfterReset(o)
  /\ UNCHANGED <<sentTo, recorded>>

PayerInit ==
  /\ due = NoDue
  /\ toSend = {}
  /\ toRecord = {}
  /\ row = NoRow
  /\ sentTo = [p \in Purses |-> 0]
  /\ recorded = [p \in Purses |-> 0]
=============================================================================
