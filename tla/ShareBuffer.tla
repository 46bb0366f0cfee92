----------------------------- MODULE ShareBuffer -----------------------------
(***************************************************************************)
(* The share buffer of the pool server (pool/buffer.go) and the batch      *)
(* insert it calls (ShareRepository.InsertBatch, persistence/share.go).    *)
(* Shares are collected in memory under the server's lock; a goroutine     *)
(* takes the whole buffer at every interval and writes it in one           *)
(* transaction while new shares come in.  What could not be written goes   *)
(* back to the buffer.                                                     *)
(*                                                                         *)
(* Nothing in the repository fills the buffer at this commit: Submit is    *)
(* what the server's lock makes of an append.                              *)
(***************************************************************************)
EXTENDS Integers, FiniteSets

CONSTANTS
  Submissions,  \* the shares miners will submit
  MaxFaults     \* bound: failed statements and crashes

ASSUME ShareBufferAssumption == MaxFaults \in Nat

VARIABLES
  faults,       \* failures and crashes so far
  buffer,       \* pool.shareBuffer
  batch,        \* sharesToWrite
  fpc,          \* where the goroutine of flushShareBufferAtInterval stands
  open,         \* transactions begun and neither committed nor rolled back
  submitted,    \* external: the shares submitted so far
  table,        \* table shares: copies of each share
  gone          \* history: shares the process lost by a crash or payouts deleted

vars == <<faults, buffer, batch, fpc, open, submitted, table, gone>>

Stored == {s \in Submissions : table[s] > 0}

Outcome == {"ok", "failed", "lost"}
Applied(o) == o # "failed"

Charge(failed) ==
  IF failed THEN faults < MaxFaults /\ faults' = faults + 1
            ELSE faults' = faults

(* External: a share is accepted and appended under the lock.               *)
Submit ==
  /\ \E s \in Submissions :
       /\ s \notin submitted
       /\ submitted' = submitted \cup {s}
       /\ buffer' = buffer \cup {s}
  /\ UNCHANGED <<faults, batch, fpc, open, table, gone>>

(* After the sleep the buffer is taken and emptied under one lock.          *)
leftInBuffer_Kept == buffer
leftInBuffer == {}

TakeBuffer ==
  /\ fpc = "sleep"
  /\ batch' = buffer
  /\ buffer' = leftInBuffer
  /\ fpc' = "begin"
  /\ UNCHANGED <<faults, open, submitted, table, gone>>

(* DB.Begin.                                                                *)
Begin ==
  /\ fpc = "begin"
  /\ \E ok \in BOOLEAN :
       /\ Charge(~ok)
       /\ open' = IF ok THEN open + 1 ELSE open
       /\ fpc' = IF ok THEN "copy" ELSE "failed"
  /\ UNCHANGED <<buffer, batch, submitted, table, gone>>

(* Prepare, one Exec per share, the closing Exec and Close: nobody sees     *)
(* their effect before the commit.  Every error path returns without a      *)
(* Rollback: the transaction keeps its connection.                          *)
CopyIn ==
  /\ fpc = "copy"
  /\ \E ok \in BOOLEAN :
       /\ Charge(~ok)
       /\ fpc' = IF ok THEN "commit" ELSE "failed"
  /\ UNCHANGED <<buffer, batch, open, submitted, table, gone>>

(* Commit ends the transaction for the caller, whatever becomes of it.      *)
stillOpen_NotReleased == open
stillOpen == open - 1

copies(s) == IF s \in batch THEN table[s] + 1 ELSE table[s]

Commit ==
  /\ fpc = "commit"
  /\ \E o \in Outcome :
       /\ Charge(o # "ok")
       /\ table' = IF Applied(o) THEN [s \in Submissions |-> copies(s)] ELSE table
       /\ fpc' = IF o = "ok" THEN "sleep" ELSE "failed"
       /\ batch' = IF o = "ok" THEN {} ELSE batch
  /\ open' = stillOpen
  /\ UNCHANGED <<buffer, submitted, gone>>

(* The batch that failed is appended to what came in meanwhile.             *)
refilled_Assigned == batch
refilled == buffer \cup batch

PutBack ==
  /\ fpc = "failed"
  /\ buffer' = refilled
  /\ batch' = {}
  /\ fpc' = "sleep"
  /\ UNCHANGED <<faults, open, submitted, table, gone>>

Flusher == TakeBuffer \/ Begin \/ CopyIn \/ Commit \/ PutBack

(* External: the payout service deletes shares.                             *)
DeleteShares ==
  /\ \E old \in SUBSET Stored :
       /\ old # {}
       /\ table' = [s \in Submissions |-> IF s \in old THEN 0 ELSE table[s]]
       /\ gone' = gone \cup old
  /\ UNCHANGED <<faults, buffer, batch, fpc, open, submitted>>

(* The process dies: what is only in memory is lost, and the database rolls *)
(* the open transactions back.                                              *)
Crash ==
  /\ Charge(TRUE)
  /\ gone' = gone \cup buffer \cup batch
  /\ buffer' = {}
  /\ batch' = {}
  /\ fpc' = "sleep"
  /\ open' = 0
  /\ UNCHANGED <<submitted, table>>

Init ==
  /\ faults = 0
  /\ buffer = {}
  /\ batch = {}
  /\ fpc = "sleep"
  /\ open = 0
  /\ submitted = {}
  /\ table = [s \in Submissions |-> 0]
  /\ gone = {}

Next == Submit \/ Flusher \/ DeleteShares \/ Crash

(* The goroutine is never blocked for good: its calls end, and the server's *)
(* lock is held for a few assignments only.                                 *)
Spec == Init /\ [][Next]_vars /\ WF_vars(Flusher)

(* The flusher's state and the table have their types.                      *)
TypeOK ==
  /\ faults \in 0..MaxFaults
  /\ submitted \subseteq Submissions
  /\ buffer \subseteq submitted
  /\ batch \subseteq submitted
  /\ gone \subseteq submitted
  /\ fpc \in {"sleep", "begin", "copy", "commit", "failed"}
  /\ open \in Nat
  /\ table \in [Submissions -> Nat]

(* No share is lost between the buffer and the table, whatever comes in     *)
(* while a batch is written or fails: it is in memory or stored, unless the *)
(* process died with it or payouts deleted it (buffer.go:22-33).            *)
NoShareLost == submitted \subseteq buffer \cup batch \cup Stored \cup gone

(* A share is stored again only for a commit whose answer was lost, and a   *)
(* share stored twice is paid twice (buffer.go:31, share.go:59).            *)
StoredOncePerFault == \A s \in Submissions : table[s] <= 1 + faults

(* Why: the copies of a share, in memory and stored.                        *)
InMemory(s) == IF s \in buffer \cup batch THEN 1 ELSE 0

CopyBound ==
  /\ buffer \cap batch = {}
  /\ \A s \in Submissions :
       /\ table[s] + InMemory(s) <= 1 + faults
       /\ s \notin submitted => table[s] = 0

(* A failed batch leaves its transaction open, with its connection, since   *)
(* no path rolls back (share.go:36-57): the connections the flusher holds   *)
(* grow with every failure and with nothing else.                           *)
OpenPerFault ==
  open <= faults + (IF fpc \in {"copy", "commit"} THEN 1 ELSE 0)

(* A share that was submitted is stored at last, through any number of      *)
(* failed batches, unless the process dies with it.                         *)
FlushedEventually == \A s \in Submissions : s \in submitted ~> s \in Stored \cup gone
=============================================================================
