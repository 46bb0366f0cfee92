------------------------------- MODULE Ledger -------------------------------
(***************************************************************************)
(* The two balance tables of the pool's database and the one operation the *)
(* payout service performs on them, BalanceRepository.AddAmount            *)
(* (persistence/balance.go).  The database is reached over the network, so *)
(* every statement can fail, and can fail after it was applied (its reply  *)
(* is lost).  Only the payout goroutine writes these tables.               *)
(*                                                                         *)
(* Amounts are integers (a fixed-point unit of the decimal(28,8) columns). *)
(***************************************************************************)
EXTENDS Integers, FiniteSets, Sequences

CONSTANTS
  Chains,       \* the configured blockchains, by name
  Accounts,     \* balances.address: miner logins ("A-B") and pool addresses
  MaxFaults     \* bound: failed statements, failed calls and crashes

ASSUME LedgerAssumption == IsFiniteSet(Accounts) /\ MaxFaults \in Nat

VARIABLES
  pc,           \* where the goroutine of payouts.RunManager stands
  balances,     \* table balances: amount of each row, 0 where there is no row
  changes,      \* table balance_changes: sum of the amounts logged for a row
  faults        \* failures and crashes so far

ledgerVars == <<balances, changes>>

Rows == Chains \X Accounts

(* How one remote operation ends: applied and acknowledged, not applied, or *)
(* applied without the caller learning of it.                               *)
Outcome == {"ok", "failed", "lost"}

Applied(o) == o # "failed"

(* A failure is charged to the fault budget.                                *)
Charge(failed) ==
  IF failed THEN faults < MaxFaults /\ faults' = faults + 1
            ELSE faults' = faults

(* AddAmount logs the change first; unless that succeeds the balance row is *)
(* not touched.  A failed GetBalance leaves the same state as a failed      *)
(* write of the balance row.                                                *)
AddOutcome_LogErrorIgnored == Outcome \X Outcome
AddOutcome == {o \in Outcome \X Outcome : o[1] # "ok" => o[2] = "failed"}

AddFailed(o) == o[2] # "ok"

AddAmount(chain, address, amount, o) ==
  /\ Charge(AddFailed(o))
  /\ changes'  = IF Applied(o[1])
                 THEN [changes EXCEPT ![<<chain, address>>] = @ + amount]
                 ELSE changes
  /\ balances' = IF Applied(o[2])
                 THEN [balances EXCEPT ![<<chain, address>>] = @ + amount]
                 ELSE balances

LedgerInit ==
  /\ balances = [r \in Rows |-> 0]
  /\ changes  = [r \in Rows |-> 0]
  /\ faults = 0
=============================================================================
