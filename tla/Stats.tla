-------------------------------- MODULE Stats --------------------------------
(***************************************************************************)
(* The statistics goroutine, UpdateStatsOnInterval (persistence/stats.go): *)
(* at every interval the shares of the last hashrate window are summed per *)
(* worker, one row of poolstats and one row of minerstats per worker are   *)
(* written.  The rows of a pass are separate statements, and an error of   *)
(* one is only logged.                                                     *)
(*                                                                         *)
(* Time is counted in ticks, Second of which make a second: the code knows *)
(* parts of a second and rounds a window to whole ones.  Rates are integers *)
(* in the end: difficulty units times HashesPerUnit per second.            *)
(***************************************************************************)
EXTENDS Integers, FiniteSets, FiniteSetsExt, Functions

CONSTANTS
  Submissions,      \* the shares that can be stored
  Second,           \* ticks of a second
  Instants,         \* the moments of the clock, in ticks
  MaxFaults,        \* bound: failed statements and crashes
  Miners,
  Workers,
  MinerOf,          \* [Workers -> Miners]
  WorkerOf,         \* [Submissions -> Workers]
  Difficulty,       \* [Submissions -> Nat \ {0}]
  HashRateWindow,   \* hashRateCalculationWindow, in ticks
  HashesPerUnit     \* 2^32 hashes, in the unit of the rates

ASSUME StatsAssumption ==
  /\ Second \in Nat \ {0}
  /\ Instants \subseteq Nat /\ 0 \in Instants
  /\ MaxFaults \in Nat
  /\ MinerOf \in [Workers -> Miners]
  /\ WorkerOf \in [Submissions -> Workers]
  /\ Difficulty \in [Submissions -> Nat \ {0}]
  /\ HashRateWindow \in Nat \ {0}
  /\ HashesPerUnit \in Nat \ {0}

VARIABLES
  now,          \* external: the clock
  faults,       \* failures and crashes so far
  used,         \* external: the shares stored so far
  created,      \* table shares: [share -> its column created]
  spc,          \* where the goroutine stands
  statNow,      \* now of insertManyNewMinerStatsAndOnePoolStat
  sums,         \* workers of the pass: [worker -> its accumulation]
  toInsert,     \* workers whose row is still to be inserted
  minerstats,   \* table minerstats
  poolstats     \* table poolstats, the newest row

statsVars == <<spc, statNow, sums, toInsert, minerstats, poolstats>>

(* A statement succeeds, fails, or is carried out with its answer lost.     *)
Outcome == {"ok", "failed", "lost"}
Applied(o) == o # "failed"

Charge(failed) ==
  IF failed THEN faults < MaxFaults /\ faults' = faults + 1
            ELSE faults' = faults

sharesVars == <<used, created>>

stored == DOMAIN created

(* External: a batch of the share buffer (ShareBuffer) is committed; its    *)
(* shares are up to a flush interval and any number of retries old.         *)
StoreShare ==
  /\ \E s \in Submissions \ used, t \in Instants :
       /\ t <= now
       /\ used' = used \cup {s}
       /\ created' = [x \in stored \cup {s} |-> IF x = s THEN t ELSE created[x]]
  /\ UNCHANGED faults

(* External: the payout service deletes the shares before a moment.         *)
DeleteSharesBefore ==
  /\ \E t \in Instants :
       /\ t <= now
       /\ \E s \in stored : created[s] < t
       /\ created' = Restrict(created, {s \in stored : created[s] >= t})
  /\ UNCHANGED <<faults, used>>

NoSums == [w \in {} |-> 0]
NoPoolStat == [miners |-> 0, workers |-> 0, rate |-> 0]

(* GetWorkerHashAccumulationBetween: one row per worker with a share in the *)
(* window, both ends included.                                              *)
InWindow(w) ==
  {s \in stored : WorkerOf[s] = w /\ created[s] >= statNow - HashRateWindow
                                  /\ created[s] <= statNow}

Accumulation(w) ==
  [sum   |-> SumFunctionOnSet(Difficulty, InWindow(w)),
   first |-> Min({created[s] : s \in InWindow(w)}),
   last  |-> Max({created[s] : s \in InWindow(w)})]

(* GroupByMiner.                                                            *)
WorkersOf(m) == {w \in DOMAIN sums : MinerOf[w] = m}
MinersOf == {MinerOf[w] : w \in DOMAIN sums}

(* The rate per second over an interval of ticks; every caller cuts it to a *)
(* whole number.                                                            *)
hashrateFromShares(sum, interval) == (sum * HashesPerUnit * Second) \div interval

(* getWindowDifferences: from the window's start to the miner's first share *)
(* and from its last share to now.                                          *)
firstShare_OfTheLatest(m) == Max({sums[w].first : w \in WorkersOf(m)})
firstShare(m) == Min({sums[w].first : w \in WorkersOf(m)})
lastShare(m)  == Max({sums[w].last : w \in WorkersOf(m)})

startDifference(m) == firstShare(m) - (statNow - HashRateWindow)
endDifference(m)   == statNow - lastShare(m)

(* A tenth of the window or more.                                           *)
isLong(difference) == 10 * difference >= HashRateWindow

(* adjustHashWindow: the window less the first and plus the last of these,  *)
(* cut to whole seconds and one second at the least.                        *)
wholeSeconds(window) == window \div Second

adjustHashWindow(m) ==
  LET window == HashRateWindow - (IF isLong(startDifference(m)) THEN startDifference(m) ELSE 0)
                               + (IF isLong(endDifference(m)) THEN endDifference(m) ELSE 0)
  IN  Second * Max({wholeSeconds(window), 1})

rateOf(w) == hashrateFromShares(sums[w].sum, adjustHashWindow(MinerOf[w]))

(* The goroutine sleeps first; now and timeFrom are read before the query,  *)
(* one right after the other: taken for one moment.                         *)
StartPass ==
  /\ spc = "sleep"
  /\ now > statNow
  /\ statNow' = now
  /\ spc' = "read"
  /\ UNCHANGED <<faults, sharesVars, sums, toInsert, minerstats, poolstats>>

(* A failed query ends the pass; rows cut short by a lost connection do not *)
(* (rows.Err is not asked).                                                 *)
ReadAccumulations ==
  /\ spc = "read"
  /\ LET found == {w \in Workers : InWindow(w) # {}}
     IN  \/ \E ws \in SUBSET found :
              /\ Charge(ws # found)
              /\ sums' = [w \in ws |-> Accumulation(w)]
              /\ toInsert' = ws
              /\ spc' = "pool"
         \/ /\ Charge(TRUE)
            /\ spc' = "sleep"
            /\ sums' = NoSums
            /\ toInsert' = {}
  /\ UNCHANGED <<sharesVars, statNow, minerstats, poolstats>>

(* getHashrateAndSharesPerSecond: the pool's rate is over the whole window. *)
poolHashrate ==
  hashrateFromShares(MapThenSumSet(LAMBDA w : sums[w].sum, DOMAIN sums), HashRateWindow)

InsertPoolStat(stat, o) == poolstats' = IF Applied(o) THEN stat ELSE poolstats

(* makeNewPoolStat; an error is logged.                                     *)
MakePoolStat ==
  /\ spc = "pool"
  /\ \E o \in Outcome :
       /\ Charge(o # "ok")
       /\ InsertPoolStat([miners  |-> Cardinality(MinersOf),
                          workers |-> Cardinality(DOMAIN sums),
                          rate    |-> poolHashrate], o)
  /\ spc' = "miners"
  /\ UNCHANGED <<sharesVars, statNow, sums, toInsert, minerstats>>

(* makeMinerStats, one worker; its miners come in the order of a Go map.    *)
leftToInsert_StopsAtFirst(w) == {}
leftToInsert(w) == toInsert \ {w}

InsertMinerStat ==
  /\ spc = "miners"
  /\ \E w \in toInsert, o \in Outcome :
       /\ Charge(o # "ok")
       /\ minerstats' = IF Applied(o)
                        THEN minerstats \cup
                               {[worker |-> w, created |-> statNow, rate |-> rateOf(w)]}
                        ELSE minerstats
       /\ toInsert' = leftToInsert(w)
  /\ UNCHANGED <<sharesVars, spc, statNow, sums, poolstats>>

EndPass ==
  /\ spc = "miners"
  /\ toInsert = {}
  /\ spc' = "sleep"
  /\ UNCHANGED <<faults, sharesVars, statNow, sums, toInsert, minerstats, poolstats>>

StatsPass == StartPass \/ ReadAccumulations \/ MakePoolStat \/ InsertMinerStat \/ EndPass

(* A crash of the process ends a pass between two rows.                     *)
PassLost ==
  /\ spc' = "sleep"
  /\ toInsert' = {}
  /\ UNCHANGED <<statNow, sums, minerstats, poolstats>>

StatsInit ==
  /\ now = 0
  /\ faults = 0
  /\ used = {}
  /\ created = [s \in {} |-> 0]
  /\ spc = "sleep"
  /\ statNow = 0
  /\ sums = NoSums
  /\ toInsert = {}
  /\ minerstats = {}
  /\ poolstats = NoPoolStat
=============================================================================
