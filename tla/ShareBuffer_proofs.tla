------------------------- MODULE ShareBuffer_proofs --------------------------
(***************************************************************************)
(* The share buffer's promises for every set of shares and any number of   *)
(* failures.  The inductive invariant adds to the three properties that    *)
(* buffer and batch are disjoint and that a share in memory is counted     *)
(* among its copies (CopyBound), and when a transaction is open.           *)
(***************************************************************************)
EXTENDS ShareBuffer, TLAPS

(* A transaction is under way between Begin and Commit only.                *)
OpenInFlight == fpc \in {"copy", "commit"} => open > 0

(* Between two flushes the goroutine holds no shares.                       *)
IdleHoldsNone == fpc = "sleep" => batch = {}

IInv ==
  TypeOK /\ NoShareLost /\ CopyBound /\ OpenPerFault /\ OpenInFlight /\ IdleHoldsNone

(* The invariant holds of an empty buffer and an empty table.               *)
LEMMA InitIInv == Init => IInv
  BY ShareBufferAssumption
  DEF Init, IInv, TypeOK, NoShareLost, CopyBound, InMemory, OpenPerFault, OpenInFlight,
      IdleHoldsNone, Stored

(* An accepted share is in the buffer, and nowhere else.                    *)
LEMMA SubmitKeeps == IInv /\ Submit => IInv'
<1> SUFFICES ASSUME IInv, Submit PROVE IInv'
  OBVIOUS
<1>1. PICK s \in Submissions : /\ s \notin submitted
                               /\ submitted' = submitted \cup {s}
                               /\ buffer' = buffer \cup {s}
  BY DEF Submit
<1>2. UNCHANGED <<faults, batch, fpc, open, table, gone>>
  BY DEF Submit
<1>3. TypeOK'
  BY <1>1, <1>2 DEF IInv, TypeOK
<1>4. NoShareLost'
  BY <1>1, <1>2 DEF IInv, NoShareLost, Stored
<1>5. CopyBound'
  BY <1>1, <1>2 DEF IInv, TypeOK, CopyBound, InMemory
<1>6. QED
  BY <1>2, <1>3, <1>4, <1>5 DEF IInv, OpenPerFault, OpenInFlight, IdleHoldsNone

(* The whole buffer becomes the batch under one lock.                       *)
LEMMA TakeBufferKeeps == IInv /\ TakeBuffer => IInv'
<1> SUFFICES ASSUME IInv, TakeBuffer PROVE IInv'
  OBVIOUS
<1> USE DEF TakeBuffer, leftInBuffer
<1>1. TypeOK'
  BY DEF IInv, TypeOK
<1>2. NoShareLost'
  BY DEF IInv, NoShareLost, Stored, IdleHoldsNone
<1>3. CopyBound'
  BY DEF IInv, TypeOK, CopyBound, InMemory, IdleHoldsNone
<1>4. QED
  BY <1>1, <1>2, <1>3 DEF IInv, TypeOK, OpenPerFault, OpenInFlight, IdleHoldsNone

(* Begin and the copy change no share; a failure of the copy leaves the     *)
(* transaction it was in open.                                              *)
LEMMA BeginCopyKeeps == IInv /\ (Begin \/ CopyIn) => IInv'
<1> SUFFICES ASSUME IInv, Begin \/ CopyIn PROVE IInv'
  OBVIOUS
<1>1. /\ UNCHANGED <<buffer, batch, submitted, table, gone>>
      /\ faults' \in {faults, faults + 1}
      /\ faults' <= MaxFaults
      /\ fpc' \in {"copy", "commit", "failed"}
  BY ShareBufferAssumption DEF IInv, TypeOK, Begin, CopyIn, Charge
<1>2. OpenPerFault' /\ OpenInFlight' /\ open' \in Nat
  BY DEF IInv, TypeOK, Begin, CopyIn, Charge, OpenPerFault, OpenInFlight
<1>3. TypeOK'
  BY <1>1, <1>2, ShareBufferAssumption DEF IInv, TypeOK
<1>4. NoShareLost' /\ IdleHoldsNone'
  BY <1>1 DEF IInv, NoShareLost, Stored, IdleHoldsNone
<1>5. CopyBound'
  BY <1>1 DEF IInv, TypeOK, CopyBound, InMemory
<1>6. QED
  BY <1>2, <1>3, <1>4, <1>5 DEF IInv

(* A commit adds a copy of each share of the batch; the batch stays in      *)
(* memory only when the commit cost a fault.                                *)
LEMMA CommitKeeps == IInv /\ Commit => IInv'
<1> SUFFICES ASSUME IInv, Commit PROVE IInv'
  OBVIOUS
<1>1. PICK o \in Outcome :
        /\ Charge(o # "ok")
        /\ table' = IF Applied(o) THEN [s \in Submissions |-> copies(s)] ELSE table
        /\ fpc' = IF o = "ok" THEN "sleep" ELSE "failed"
        /\ batch' = IF o = "ok" THEN {} ELSE batch
  BY DEF Commit
<1>2. UNCHANGED <<buffer, submitted, gone>> /\ open' = open - 1 /\ fpc = "commit"
  BY DEF Commit, stillOpen
<1>3. /\ o = "ok" => faults' = faults
      /\ o # "ok" => faults' = faults + 1
      /\ faults' \in 0..MaxFaults
  BY <1>1, ShareBufferAssumption DEF IInv, TypeOK, Charge
<1>4. \A s \in Submissions : /\ table'[s] \in Nat
                             /\ table[s] <= table'[s]
                             /\ s \notin batch => table'[s] = table[s]
                             /\ table'[s] <= table[s] + 1
                             /\ o = "ok" /\ s \in batch => table'[s] = table[s] + 1
  BY <1>1 DEF IInv, TypeOK, copies, Applied
<1>5. table' \in [Submissions -> Nat]
  BY <1>1 DEF IInv, TypeOK, copies
<1>6. TypeOK'
  BY <1>1, <1>2, <1>3, <1>5 DEF IInv, TypeOK, OpenInFlight
<1>7. NoShareLost'
  BY <1>1, <1>2, <1>4 DEF IInv, TypeOK, NoShareLost, Stored
<1>8. CopyBound'
  <2>1. buffer' \cap batch' = {}
    BY <1>1, <1>2 DEF IInv, CopyBound
  <2>2. ASSUME NEW s \in Submissions
        PROVE  /\ table'[s] + InMemory(s)' <= 1 + faults'
               /\ s \notin submitted' => table'[s] = 0
    <3>1. /\ table[s] + InMemory(s) <= 1 + faults
          /\ s \notin submitted => table[s] = 0
          /\ s \in batch => s \in submitted /\ s \notin buffer
          /\ table[s] \in Nat /\ faults \in Nat
      BY DEF IInv, TypeOK, CopyBound
    <3>2. CASE o = "ok"
      BY <1>1, <1>2, <1>3, <1>4, <3>1, <3>2 DEF InMemory
    <3>3. CASE o # "ok"
      BY <1>1, <1>2, <1>3, <1>4, <3>1, <3>3 DEF InMemory
    <3>4. QED
      BY <3>2, <3>3
  <2>3. QED
    BY <2>1, <2>2 DEF CopyBound
<1>9. OpenPerFault' /\ OpenInFlight' /\ IdleHoldsNone'
  <2>1. open <= faults + 1 /\ open \in Nat /\ faults \in Nat
    BY <1>2 DEF IInv, TypeOK, OpenPerFault
  <2>2. open' <= faults'
    BY <1>2, <1>3, <2>1
  <2>3. fpc' \notin {"copy", "commit"} /\ (fpc' = "sleep" => batch' = {})
    BY <1>1
  <2>4. QED
    BY <1>3, <2>1, <2>2, <2>3 DEF OpenPerFault, OpenInFlight, IdleHoldsNone
<1>10. QED
  BY <1>6, <1>7, <1>8, <1>9 DEF IInv

(* A failed batch goes back beside what came in meanwhile.                  *)
LEMMA PutBackKeeps == IInv /\ PutBack => IInv'
<1> SUFFICES ASSUME IInv, PutBack PROVE IInv'
  OBVIOUS
<1> USE DEF PutBack, refilled
<1>1. TypeOK' /\ NoShareLost'
  BY DEF IInv, TypeOK, NoShareLost, Stored
<1>2. CopyBound'
  BY DEF IInv, TypeOK, CopyBound, InMemory
<1>3. QED
  BY <1>1, <1>2 DEF IInv, TypeOK, OpenPerFault, OpenInFlight, IdleHoldsNone

(* A deleted share is gone, with all its copies.                            *)
LEMMA DeleteSharesKeeps == IInv /\ DeleteShares => IInv'
<1> SUFFICES ASSUME IInv, DeleteShares PROVE IInv'
  OBVIOUS
<1>1. PICK old \in SUBSET Stored :
        /\ table' = [s \in Submissions |-> IF s \in old THEN 0 ELSE table[s]]
        /\ gone' = gone \cup old
  BY DEF DeleteShares
<1>2. UNCHANGED <<faults, buffer, batch, fpc, open, submitted>>
  BY DEF DeleteShares
<1>3. old \subseteq submitted
  BY DEF IInv, TypeOK, CopyBound, Stored
<1>4. TypeOK'
  BY <1>1, <1>2, <1>3 DEF IInv, TypeOK
<1>5. NoShareLost'
  BY <1>1, <1>2 DEF IInv, TypeOK, NoShareLost, Stored
<1>6. CopyBound'
  BY <1>1, <1>2 DEF IInv, TypeOK, CopyBound, InMemory
<1>7. QED
  BY <1>2, <1>4, <1>5, <1>6 DEF IInv, OpenPerFault, OpenInFlight, IdleHoldsNone

(* A crash moves what was in memory to what is gone and ends every          *)
(* transaction.                                                             *)
LEMMA CrashKeeps == IInv /\ Crash => IInv'
<1> SUFFICES ASSUME IInv, Crash PROVE IInv'
  OBVIOUS
<1>1. faults' = faults + 1 /\ faults' \in 0..MaxFaults
  BY ShareBufferAssumption DEF Crash, Charge, IInv, TypeOK
<1>2. TypeOK' /\ NoShareLost'
  BY <1>1 DEF Crash, IInv, TypeOK, NoShareLost, Stored
<1>3. CopyBound'
  BY <1>1 DEF Crash, IInv, TypeOK, CopyBound, InMemory
<1>4. QED
  BY <1>1, <1>2, <1>3 DEF Crash, IInv, TypeOK, OpenPerFault, OpenInFlight, IdleHoldsNone

(* Every step of the flusher, the miners, the payout service and the        *)
(* environment keeps the invariant.                                         *)
LEMMA Invariance == Spec => []IInv
<1>1. Init => IInv
  BY InitIInv
<1>2. IInv /\ [Next]_vars => IInv'
  <2>1. IInv /\ UNCHANGED vars => IInv'
    BY DEF vars, IInv, TypeOK, NoShareLost, CopyBound, InMemory, Stored, OpenPerFault,
           OpenInFlight, IdleHoldsNone
  <2>2. QED
    BY <2>1, SubmitKeeps, TakeBufferKeeps, BeginCopyKeeps, CommitKeeps, PutBackKeeps,
       DeleteSharesKeeps, CrashKeeps
    DEF Next, Flusher
<1>3. QED
  BY <1>1, <1>2, PTL DEF Spec

(* The types of the flusher's state (pool/buffer.go), for every set of      *)
(* shares.                                                                  *)
THEOREM Typing == Spec => []TypeOK
<1>1. IInv => TypeOK
  BY DEF IInv
<1>2. QED
  BY <1>1, Invariance, PTL

(* However many batches fail, and whatever comes in while one is written, a *)
(* share is in memory or stored until the process dies or payouts delete it *)
(* (buffer.go:22-33).                                                       *)
THEOREM NoShareLostHolds == Spec => []NoShareLost
<1>1. IInv => NoShareLost
  BY DEF IInv
<1>2. QED
  BY <1>1, Invariance, PTL

(* A share is stored once, and once more at most for every failure: the     *)
(* retry of buffer.go:31 cannot know that a commit was carried out.         *)
THEOREM StoredOncePerFaultHolds == Spec => []StoredOncePerFault
<1>1. IInv => StoredOncePerFault
  BY DEF IInv, TypeOK, CopyBound, InMemory, StoredOncePerFault
<1>2. QED
  BY <1>1, Invariance, PTL

(* The transactions InsertBatch leaves open on its error paths              *)
(* (share.go:36-57) are no more than the failures.                          *)
THEOREM OpenPerFaultHolds == Spec => []OpenPerFault
<1>1. IInv => OpenPerFault
  BY DEF IInv
<1>2. QED
  BY <1>1, Invariance, PTL
=============================================================================
