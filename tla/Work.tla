-------------------------------- MODULE Work --------------------------------
(***************************************************************************)
(* Jobs and shares: the work cache (pool/work.go), bitcoin.GenerateWork    *)
(* with its package variable jobCounter (bitcoin/generator.go) and         *)
(* mining.submit (pool/responses.go).  The notification goroutine and the  *)
(* goroutine of every miner call GenerateWork at once: the job ID is read  *)
(* and jobCounter incremented without a lock, a read and a write.          *)
(***************************************************************************)
EXTENDS Integers, FiniteSets

CONSTANTS
  Miners,       \* authorized clients
  MaxTip,       \* bound: blocks the primary chain adds
  MaxJobs       \* bound: job IDs

ASSUME WorkAssumption == MaxTip \in Nat /\ MaxJobs \in Nat \ {0}

VARIABLES
  tip,          \* external: height the nodes make templates for
  jobCounter,
  workCache,    \* [job, tip, pays]: job ID, its template, whether the
                \* coinbase pays to the pool's reward script
  notifier,     \* where the notification goroutine stands in a call of
                \* GenerateWork
  caller,       \* who makes that call: "fetch" or "force"
  generating,   \* the work it makes
  reading,      \* what its ++ has read of jobCounter
  submission,   \* [Miners -> where the miner's goroutine stands]
  mined,        \* [Miners -> the work the submitted share was mined on]
  template,     \* [Miners -> template the share is judged by]
  counterRead,  \* [Miners -> what the miner's ++ has read of jobCounter]
  issued,       \* history: all works the cache has held
  torn          \* history: an increment of jobCounter was lost

notifierVars == <<notifier, caller, generating, reading>>
minerVars == <<submission, mined, template, counterRead>>
cacheVars == <<workCache, issued>>
countVars == <<jobCounter, torn>>
vars == <<tip, countVars, cacheVars, notifierVars, minerVars>>

WorkRecord == [job : 0..MaxJobs, tip : 0..MaxTip, pays : BOOLEAN]

(* PoolServer.Start made the first job, with the pool's reward script.      *)
firstWork == [job |-> 0, tip |-> 0, pays |-> TRUE]

Init ==
  /\ tip = 0
  /\ jobCounter = 1
  /\ workCache = firstWork
  /\ notifier = "idle"
  /\ caller = "fetch"
  /\ generating = firstWork
  /\ reading = 0
  /\ submission = [m \in Miners |-> "idle"]
  /\ mined = [m \in Miners |-> firstWork]
  /\ template = [m \in Miners |-> 0]
  /\ counterRead = [m \in Miners |-> 0]
  /\ issued = {firstWork}
  /\ torn = FALSE

(* External: a block is found somewhere.                                    *)
NewBlock ==
  /\ tip < MaxTip
  /\ tip' = tip + 1
  /\ UNCHANGED <<countVars, cacheVars, notifierVars, minerVars>>

incremented_Forgotten(n) == n
incremented(n) == n + 1

(***************************************************************************)
(* listenForBlockNotifications: fetchRpcBlockTemplatesAndCacheWork, then   *)
(* generateWorkFromCache(true).                                            *)
(***************************************************************************)
Turn(from, to) == notifier = from /\ notifier' = to
nextCaller == IF caller = "fetch" THEN "force" ELSE "fetch"

(* The forced work is made with an empty reward script.                     *)
FetchTemplate ==
  /\ Turn("idle", "fetched")
  /\ generating' = [job |-> 0, tip |-> tip, pays |-> caller = "fetch"]
  /\ UNCHANGED <<tip, countVars, cacheVars, caller, reading, minerVars>>

(* GenerateWork formats the job ID from jobCounter ...                      *)
NumberJob ==
  /\ Turn("fetched", "numbered")
  /\ generating' = [generating EXCEPT !.job = jobCounter]
  /\ UNCHANGED <<tip, countVars, cacheVars, caller, reading, minerVars>>

(* ... and increments it at the end.                                        *)
CountRead ==
  /\ jobCounter < MaxJobs
  /\ Turn("numbered", "counting")
  /\ reading' = jobCounter
  /\ UNCHANGED <<tip, countVars, cacheVars, caller, generating, minerVars>>

CountWrite ==
  /\ Turn("counting", "counted")
  /\ jobCounter' = incremented(reading)
  /\ torn' = (torn \/ reading # jobCounter)
  /\ reading' = 0
  /\ UNCHANGED <<tip, cacheVars, caller, generating, minerVars>>

Cache ==
  /\ Turn("counted", "idle")
  /\ workCache' = generating
  /\ issued' = issued \cup {generating}
  /\ generating' = firstWork
  /\ caller' = nextCaller
  /\ UNCHANGED <<tip, countVars, reading, minerVars>>

(* An error of the RPC or of GenerateWork is logged; the cache keeps what   *)
(* it has.                                                                  *)
NotCached ==
  /\ notifier \in {"idle", "fetched"}
  /\ notifier' = "idle"
  /\ generating' = firstWork
  /\ caller' = nextCaller
  /\ UNCHANGED <<tip, countVars, cacheVars, reading, minerVars>>

Notifier == FetchTemplate \/ NumberJob \/ CountRead \/ CountWrite \/ Cache \/ NotCached

(***************************************************************************)
(* miningSubmit and receiveWorkFromClient                                  *)
(***************************************************************************)
staleJob(w) == w.job # workCache.job

(* A share of any job the miner was ever given; a stale one is answered     *)
(* with false.                                                              *)
Submit(m) ==
  /\ submission[m] = "idle"
  /\ \E w \in issued :
       /\ ~staleJob(w)
       /\ mined' = [mined EXCEPT ![m] = w]
  /\ submission' = [submission EXCEPT ![m] = "checked"]
  /\ UNCHANGED <<tip, countVars, cacheVars, notifierVars, template, counterRead>>

(* fetchAllBlockTemplatesFromRPC once more.                                 *)
judgedBy_Cached(m) == 0
judgedBy(m) == tip

Fetch(m) ==
  /\ submission[m] = "checked"
  /\ submission' = [submission EXCEPT ![m] = "fetched"]
  /\ template' = [template EXCEPT ![m] = judgedBy(m)]
  /\ UNCHANGED <<tip, countVars, cacheVars, notifierVars, mined, counterRead>>

(* GenerateWork for the share: the job ID is thrown away, the increment is  *)
(* not.                                                                     *)
Generate(m) ==
  /\ submission[m] = "fetched"
  /\ jobCounter < MaxJobs
  /\ submission' = [submission EXCEPT ![m] = "counting"]
  /\ counterRead' = [counterRead EXCEPT ![m] = jobCounter]
  /\ UNCHANGED <<tip, countVars, cacheVars, notifierVars, mined, template>>

afterIncrement_Repeats == "counting"
afterIncrement == "judging"

Increment(m) ==
  /\ submission[m] = "counting"
  /\ submission' = [submission EXCEPT ![m] = afterIncrement]
  /\ jobCounter' = incremented(counterRead[m])
  /\ torn' = (torn \/ counterRead[m] # jobCounter)
  /\ counterRead' = [counterRead EXCEPT ![m] = 0]
  /\ UNCHANGED <<tip, cacheVars, notifierVars, mined, template>>

(* MakeHeader, Sum and the comparison with the target let the share pass.   *)
Judge(m) ==
  /\ submission[m] = "judging"
  /\ submission' = [submission EXCEPT ![m] = "submitting"]
  /\ UNCHANGED <<tip, countVars, cacheVars, notifierVars, mined, template, counterRead>>

answered(m) ==
  /\ submission' = [submission EXCEPT ![m] = "idle"]
  /\ mined' = [mined EXCEPT ![m] = firstWork]
  /\ template' = [template EXCEPT ![m] = 0]
  /\ UNCHANGED <<tip, countVars, cacheVars, notifierVars, counterRead>>

(* Above the target the answer is false; an error of the RPC, of            *)
(* GenerateWork or of the header ends the connection.                       *)
Refuse(m) == submission[m] \in {"checked", "fetched", "judging"} /\ answered(m)

(* SubmitBlock on the primary chain and SubmitAuxBlock on the others; their *)
(* errors are logged and the answer is true.                                *)
SubmitBlocks(m) == submission[m] = "submitting" /\ answered(m)

Respond(m) ==
  Fetch(m) \/ Generate(m) \/ Increment(m) \/ Judge(m) \/ Refuse(m) \/ SubmitBlocks(m)
Miner(m) == Submit(m) \/ Respond(m)

Next == NewBlock \/ Notifier \/ \E m \in Miners : Miner(m)

(* An accepted request is worked off: RPC calls time out.                   *)
Spec ==
  /\ Init /\ [][Next]_vars
  /\ \A m \in Miners : WF_vars(Respond(m))

(***************************************************************************)
(* Properties                                                              *)
(***************************************************************************)
TypeOK ==
  /\ tip \in 0..MaxTip
  /\ jobCounter \in 0..MaxJobs
  /\ workCache \in WorkRecord
  /\ notifier \in {"idle", "fetched", "numbered", "counting", "counted"}
  /\ caller \in {"fetch", "force"}
  /\ generating \in WorkRecord
  /\ reading \in 0..MaxJobs
  /\ submission \in [Miners -> {"idle", "checked", "fetched", "counting", "judging",
                             "submitting"}]
  /\ mined \in [Miners -> WorkRecord]
  /\ template \in [Miners -> 0..MaxTip]
  /\ counterRead \in [Miners -> 0..MaxJobs]
  /\ issued \subseteq WorkRecord
  /\ torn \in BOOLEAN

(* The job ID tells the current work from all earlier ones, so a share the  *)
(* stale-job check lets pass was mined on the work in the cache, unless an  *)
(* increment of jobCounter was lost.                                        *)
JobIDsTellUnlessTorn ==
  ~torn => \A w \in issued : w.job = workCache.job => w = workCache

(* The template a share is judged by is never older than its job's, even    *)
(* when a job ID came twice; it may be newer, and then the header rebuilt   *)
(* from it is not the one the miner hashed.                                 *)
JudgedByNewerTemplate ==
  \A m \in Miners :
    submission[m] \in {"fetched", "counting", "judging", "submitting"} =>
      mined[m].tip <= template[m]

(* Every submission that passed the check is answered or dropped.           *)
SubmissionEnds == \A m \in Miners : submission[m] # "idle" ~> submission[m] = "idle"
=============================================================================
