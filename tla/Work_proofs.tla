---------------------------- MODULE Work_proofs -----------------------------
(***************************************************************************)
(* Jobs and shares, for any number of miners, blocks and jobs.             *)
(***************************************************************************)
EXTENDS Work, TLAPS

(* Neither invariant is inductive alone: job IDs are told apart because,    *)
(* as long as no increment is lost, all issued ones are below the counter;  *)
(* templates because no issued work is newer than the chain.                *)
IDsBelowCounter == ~torn => \A w \in issued : w.job < jobCounter

CacheIssued == workCache \in issued

NoneFromFuture ==
  /\ \A w \in issued : w.tip <= tip
  /\ generating.tip <= tip
  /\ \A m \in Miners : mined[m].tip <= tip

(* The placeholder and first job is a work of height 0 with job ID 0.       *)
LEMMA FirstWorkType == firstWork \in WorkRecord /\ firstWork.job = 0 /\ firstWork.tip = 0
BY WorkAssumption DEF firstWork, WorkRecord

(* PoolServer.Start leaves a state of the right type.                       *)
LEMMA InitTyped == Init => TypeOK
<1> SUFFICES ASSUME Init PROVE TypeOK
  OBVIOUS
<1>1. tip \in 0..MaxTip /\ jobCounter \in 0..MaxJobs /\ reading \in 0..MaxJobs
  BY WorkAssumption DEF Init
<1>2. workCache \in WorkRecord /\ generating \in WorkRecord /\ issued \subseteq WorkRecord
  BY FirstWorkType DEF Init
<1>3. mined \in [Miners -> WorkRecord]
  BY FirstWorkType DEF Init
<1>4. /\ template \in [Miners -> 0..MaxTip]
      /\ counterRead \in [Miners -> 0..MaxJobs]
  BY WorkAssumption DEF Init
<1>5. /\ notifier \in {"idle", "fetched", "numbered", "counting", "counted"}
      /\ caller \in {"fetch", "force"}
      /\ submission \in [Miners -> {"idle", "checked", "fetched", "counting", "judging",
                                   "submitting"}]
  BY DEF Init
<1>6. torn \in BOOLEAN
  BY DEF Init
<1> QED
  BY <1>1, <1>2, <1>3, <1>4, <1>5, <1>6 DEF TypeOK

(* The guard jobCounter < MaxJobs is what bounds a read of the counter, and *)
(* with it the increment.                                                   *)
ReadsBounded ==
  /\ notifier = "counting" => reading < MaxJobs
  /\ \A m \in Miners : submission[m] = "counting" => counterRead[m] < MaxJobs

(* Every action keeps the types and the bound.                              *)
LEMMA NextTyped == TypeOK /\ ReadsBounded /\ [Next]_vars => TypeOK' /\ ReadsBounded'
<1> SUFFICES ASSUME TypeOK, ReadsBounded, [Next]_vars PROVE TypeOK' /\ ReadsBounded'
  OBVIOUS
<1> USE FirstWorkType, WorkAssumption
    DEF Turn, countVars, cacheVars, notifierVars, minerVars, nextCaller
<1>1. CASE NewBlock
  BY <1>1 DEF NewBlock, TypeOK, ReadsBounded
<1>2. CASE FetchTemplate
  <2>1. generating' \in WorkRecord
    <3>1. (caller = "fetch") \in BOOLEAN
      OBVIOUS
    <3>2. tip \in 0..MaxTip /\ 0 \in 0..MaxJobs
      BY DEF TypeOK
    <3> QED
      BY <1>2, <3>1, <3>2 DEF FetchTemplate, WorkRecord
  <2> QED
    BY <1>2, <2>1 DEF FetchTemplate, TypeOK, ReadsBounded
<1>3. CASE NumberJob
  <2>1. generating' \in WorkRecord
    BY <1>3 DEF NumberJob, TypeOK, WorkRecord
  <2> QED
    BY <1>3, <2>1 DEF NumberJob, TypeOK, ReadsBounded
<1>4. CASE CountRead
  BY <1>4 DEF CountRead, TypeOK, ReadsBounded
<1>5. CASE CountWrite
  <2>1. jobCounter' \in 0..MaxJobs
    BY <1>5 DEF CountWrite, TypeOK, ReadsBounded, incremented
  <2>2. torn' \in BOOLEAN
    BY <1>5 DEF CountWrite, TypeOK
  <2> QED
    BY <1>5, <2>1, <2>2 DEF CountWrite, TypeOK, ReadsBounded
<1>6. CASE Cache
  BY <1>6 DEF Cache, TypeOK, ReadsBounded
<1>7. CASE NotCached
  BY <1>7 DEF NotCached, TypeOK, ReadsBounded
<1>8. ASSUME NEW m \in Miners, Submit(m) PROVE TypeOK' /\ ReadsBounded'
  BY <1>8 DEF Submit, TypeOK, ReadsBounded
<1>9. ASSUME NEW m \in Miners, Fetch(m) PROVE TypeOK' /\ ReadsBounded'
  BY <1>9 DEF Fetch, TypeOK, ReadsBounded, judgedBy
<1>10. ASSUME NEW m \in Miners, Generate(m) PROVE TypeOK' /\ ReadsBounded'
  BY <1>10 DEF Generate, TypeOK, ReadsBounded
<1>11. ASSUME NEW m \in Miners, Increment(m) PROVE TypeOK' /\ ReadsBounded'
  <2>1. jobCounter' \in 0..MaxJobs
    BY <1>11 DEF Increment, TypeOK, ReadsBounded, incremented
  <2>2. torn' \in BOOLEAN
    BY <1>11 DEF Increment, TypeOK
  <2> QED
    BY <1>11, <2>1, <2>2 DEF Increment, TypeOK, ReadsBounded, afterIncrement
<1>12. ASSUME NEW m \in Miners, Judge(m) \/ Refuse(m) \/ SubmitBlocks(m)
       PROVE TypeOK' /\ ReadsBounded'
  BY <1>12 DEF Judge, Refuse, SubmitBlocks, answered, TypeOK, ReadsBounded
<1>13. CASE UNCHANGED vars
  BY <1>13 DEF vars, TypeOK, ReadsBounded
<1> QED
  BY <1>1, <1>2, <1>3, <1>4, <1>5, <1>6, <1>7, <1>8, <1>9, <1>10, <1>11, <1>12, <1>13
  DEF Next, Notifier, Miner, Respond

(* The type invariant: job IDs, templates and the counter stay in range.    *)
THEOREM Typing == Spec => []TypeOK
<1>1. Init => TypeOK /\ ReadsBounded
  <2>1. Init => ReadsBounded
    BY DEF Init, ReadsBounded
  <2> QED
    BY <2>1, InitTyped
<1>2. TypeOK /\ ReadsBounded /\ [Next]_vars => (TypeOK /\ ReadsBounded)'
  BY NextTyped
<1> QED
  BY <1>1, <1>2, PTL DEF Spec

(* The work in the making has an ID no issued one has: above them all, and  *)
(* below the counter once it is incremented.                                *)
JobIsNew ==
  ~torn => /\ notifier \in {"numbered", "counting", "counted"} =>
                \A w \in issued : w.job < generating.job
           /\ notifier \in {"numbered", "counting"} => generating.job <= jobCounter
           /\ notifier = "counted" => generating.job < jobCounter

JobsApart == CacheIssued /\ IDsBelowCounter /\ JobIsNew /\ JobIDsTellUnlessTorn

(* The steps of all actors that touch neither the counter, the cache nor    *)
(* the work in the making.                                                  *)
LEMMA JobsUntouched ==
  ASSUME JobsApart, UNCHANGED <<countVars, cacheVars>>,
         \/ UNCHANGED notifierVars
         \/ notifier' \in {"idle", "fetched"}
         \/ UNCHANGED generating /\ notifier = "numbered" /\ notifier' = "counting"
  PROVE  JobsApart'
<1>1. CacheIssued' /\ IDsBelowCounter' /\ JobIDsTellUnlessTorn'
  BY DEF JobsApart, CacheIssued, IDsBelowCounter, JobIDsTellUnlessTorn, countVars, cacheVars
<1>2. JobIsNew'
  BY DEF JobsApart, JobIsNew, countVars, cacheVars, notifierVars
<1> QED
  BY <1>1, <1>2 DEF JobsApart

(* Numbering and caching a job, and everybody's increments, keep the IDs    *)
(* apart: an increment counts from what it read, which is the counter       *)
(* unless one is lost.                                                      *)
LEMMA JobsStep == TypeOK /\ JobsApart /\ [Next]_vars => JobsApart'
<1> SUFFICES ASSUME TypeOK, JobsApart, [Next]_vars PROVE JobsApart'
  OBVIOUS
<1>t. /\ jobCounter \in Int /\ generating.job \in Int /\ \A w \in issued : w.job \in Int
      /\ workCache.job \in Int
  BY DEF TypeOK, WorkRecord
<1>i. CacheIssued /\ IDsBelowCounter /\ JobIsNew /\ JobIDsTellUnlessTorn
  BY DEF JobsApart
<1>1. CASE NumberJob
  <2>1. /\ UNCHANGED <<jobCounter, torn, workCache, issued>> /\ notifier' = "numbered"
        /\ generating'.job = jobCounter
    BY <1>1 DEF NumberJob, Turn, countVars, cacheVars, TypeOK, WorkRecord
  <2>2. JobIsNew'
    BY <2>1, <1>i, <1>t DEF JobIsNew, IDsBelowCounter
  <2> QED
    BY <2>1, <2>2, <1>i DEF JobsApart, CacheIssued, IDsBelowCounter, JobIDsTellUnlessTorn
<1>2. CASE CountWrite
  <2>1. ASSUME ~torn' PROVE ~torn /\ reading = jobCounter
    BY <1>2, <2>1 DEF CountWrite, TypeOK
  <2>2. ASSUME ~torn' PROVE jobCounter' = jobCounter + 1
    BY <1>2, <2>1, <2>2 DEF CountWrite, incremented
  <2>3. UNCHANGED <<workCache, issued, generating>> /\ notifier = "counting" /\ notifier' = "counted"
    BY <1>2 DEF CountWrite, cacheVars, Turn
  <2>4. IDsBelowCounter'
    BY <2>1, <2>2, <2>3, <1>i, <1>t DEF IDsBelowCounter
  <2>5. JobIsNew'
    BY <2>1, <2>2, <2>3, <1>i, <1>t DEF JobIsNew
  <2> QED
    BY <2>1, <2>3, <2>4, <2>5, <1>i DEF JobsApart, CacheIssued, JobIDsTellUnlessTorn
<1>3. CASE Cache
  <2>1. /\ workCache' = generating /\ issued' = issued \cup {generating}
        /\ UNCHANGED <<jobCounter, torn>> /\ notifier = "counted" /\ notifier' = "idle"
    BY <1>3 DEF Cache, countVars, Turn
  <2>2. IDsBelowCounter'
    BY <2>1, <1>i, <1>t DEF IDsBelowCounter, JobIsNew
  <2>3. JobIDsTellUnlessTorn'
    BY <2>1, <1>i, <1>t DEF JobIDsTellUnlessTorn, JobIsNew
  <2>4. CacheIssued' /\ JobIsNew'
    BY <2>1 DEF CacheIssued, JobIsNew
  <2> QED
    BY <2>2, <2>3, <2>4 DEF JobsApart
<1>4. ASSUME NEW m \in Miners, Increment(m) PROVE JobsApart'
  <2>1. ASSUME ~torn' PROVE ~torn /\ counterRead[m] = jobCounter
    BY <1>4, <2>1 DEF Increment, TypeOK
  <2>2. ASSUME ~torn' PROVE jobCounter' = jobCounter + 1
    BY <1>4, <2>1, <2>2 DEF Increment, incremented
  <2>3. UNCHANGED <<workCache, issued, generating, notifier>>
    BY <1>4 DEF Increment, cacheVars, notifierVars
  <2>4. IDsBelowCounter'
    BY <2>1, <2>2, <2>3, <1>i, <1>t DEF IDsBelowCounter
  <2>5. JobIsNew'
    BY <2>1, <2>2, <2>3, <1>i, <1>t DEF JobIsNew
  <2> QED
    BY <2>1, <2>3, <2>4, <2>5, <1>i DEF JobsApart, CacheIssued, JobIDsTellUnlessTorn
<1>5. CASE NewBlock \/ FetchTemplate \/ CountRead \/ NotCached
  BY <1>5, JobsUntouched DEF NewBlock, FetchTemplate, CountRead, NotCached, Turn
<1>6. ASSUME NEW m \in Miners,
             \/ Submit(m) \/ Fetch(m) \/ Generate(m)
             \/ Judge(m) \/ Refuse(m) \/ SubmitBlocks(m)
      PROVE  JobsApart'
  BY <1>6, JobsUntouched
  DEF Submit, Fetch, Generate, Judge, Refuse, SubmitBlocks, answered
<1>7. CASE UNCHANGED vars
  BY <1>7, JobsUntouched DEF vars
<1> QED
  BY <1>1, <1>2, <1>3, <1>4, <1>5, <1>6, <1>7 DEF Next, Notifier, Miner, Respond

(* A share that passes the stale-job check was mined on the cached work as  *)
(* long as no increment of jobCounter was lost.                             *)
THEOREM JobIDsTell == Spec => []JobIDsTellUnlessTorn
<1>1. Init => JobsApart
  BY FirstWorkType
  DEF Init, JobsApart, CacheIssued, IDsBelowCounter, JobIsNew, JobIDsTellUnlessTorn
<1>2. TypeOK /\ JobsApart /\ [Next]_vars => JobsApart'
  BY JobsStep
<1>3. JobsApart => JobIDsTellUnlessTorn
  BY DEF JobsApart
<1> QED
  BY <1>1, <1>2, <1>3, Typing, PTL DEF Spec

(* The chain only grows, and a template is fetched after the job was made.  *)
LEMMA SharesStep ==
  TypeOK /\ NoneFromFuture /\ JudgedByNewerTemplate /\ [Next]_vars
    => NoneFromFuture' /\ JudgedByNewerTemplate'
<1> SUFFICES ASSUME TypeOK, NoneFromFuture, JudgedByNewerTemplate, [Next]_vars
             PROVE  NoneFromFuture' /\ JudgedByNewerTemplate'
  OBVIOUS
<1> USE FirstWorkType, WorkAssumption
    DEF Turn, countVars, cacheVars, notifierVars, minerVars
<1>0. /\ tip \in Nat
      /\ \A w \in WorkRecord : w.tip \in Nat
      /\ \A m \in Miners : mined[m].tip \in Nat /\ template[m] \in Nat
      /\ \A w \in issued : w.tip \in Nat
      /\ generating.tip \in Nat
  BY DEF TypeOK, WorkRecord
<1>1. CASE NewBlock
  BY <1>0, <1>1 DEF NewBlock, NoneFromFuture, JudgedByNewerTemplate
<1>2. CASE FetchTemplate
  BY <1>0, <1>2 DEF FetchTemplate, NoneFromFuture, JudgedByNewerTemplate
<1>3. CASE NumberJob
  <2>1. generating'.tip = generating.tip
    BY <1>3 DEF NumberJob, TypeOK, WorkRecord
  <2> QED
    BY <1>3, <2>1 DEF NumberJob, NoneFromFuture, JudgedByNewerTemplate
<1>4. CASE CountRead \/ CountWrite
  BY <1>4 DEF CountRead, CountWrite, NoneFromFuture, JudgedByNewerTemplate
<1>5. CASE Cache \/ NotCached
  BY <1>0, <1>5 DEF Cache, NotCached, NoneFromFuture, JudgedByNewerTemplate
<1>6. ASSUME NEW m \in Miners, Submit(m) PROVE NoneFromFuture' /\ JudgedByNewerTemplate'
  BY <1>0, <1>6 DEF Submit, NoneFromFuture, JudgedByNewerTemplate, TypeOK
<1>7. ASSUME NEW m \in Miners, Fetch(m) PROVE NoneFromFuture' /\ JudgedByNewerTemplate'
  BY <1>0, <1>7 DEF Fetch, NoneFromFuture, JudgedByNewerTemplate, TypeOK, judgedBy
<1>8. ASSUME NEW m \in Miners, Generate(m) \/ Increment(m) \/ Judge(m)
      PROVE NoneFromFuture' /\ JudgedByNewerTemplate'
  BY <1>8 DEF Generate, Increment, Judge, NoneFromFuture, JudgedByNewerTemplate, TypeOK, afterIncrement
<1>9. ASSUME NEW m \in Miners, Refuse(m) \/ SubmitBlocks(m)
      PROVE  NoneFromFuture' /\ JudgedByNewerTemplate'
  BY <1>0, <1>9
  DEF Refuse, SubmitBlocks, answered, NoneFromFuture, JudgedByNewerTemplate, TypeOK
<1>10. CASE UNCHANGED vars
  BY <1>10 DEF vars, NoneFromFuture, JudgedByNewerTemplate
<1> QED
  BY <1>1, <1>2, <1>3, <1>4, <1>5, <1>6, <1>7, <1>8, <1>9, <1>10
  DEF Next, Notifier, Miner, Respond

(* A share is never judged by a template older than its job's, whatever the *)
(* race on jobCounter does.                                                 *)
THEOREM JudgedByNewer == Spec => []JudgedByNewerTemplate
<1>1. Init => NoneFromFuture /\ JudgedByNewerTemplate
  BY FirstWorkType DEF Init, NoneFromFuture, JudgedByNewerTemplate
<1>2. TypeOK /\ NoneFromFuture /\ JudgedByNewerTemplate /\ [Next]_vars
        => (NoneFromFuture /\ JudgedByNewerTemplate)'
  BY SharesStep
<1> QED
  BY <1>1, <1>2, Typing, PTL DEF Spec
=============================================================================
