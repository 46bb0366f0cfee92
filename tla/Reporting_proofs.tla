-------------------------- MODULE Reporting_proofs ---------------------------
(* Proofs about the statistics and the HTTP API, for any shares, workers,   *)
(* windows, moments and number of failures.                                 *)
EXTENDS Reporting, Sums_proofs

(***************************************************************************)
(* Minima and maxima                                                       *)
(***************************************************************************)
LEMMA HasMax ==
  ASSUME NEW S, IsFiniteSet(S), S # {}, \A x \in S : x \in Int
  PROVE  /\ Max(S) \in S
         /\ \A y \in S : Max(S) >= y
<1> DEFINE Good == {T \in SUBSET S : T # {} => \E x \in T : \A y \in T : x >= y}
<1>1. ASSUME NEW T \in SUBSET S, \A U \in SUBSET T : U # T => U \in Good
      PROVE  T \in Good
  <2> SUFFICES ASSUME T # {} PROVE \E x \in T : \A y \in T : x >= y
    OBVIOUS
  <2>1. PICK z \in T : TRUE
    OBVIOUS
  <2>2. T \ {z} \in Good
    BY <1>1
  <2>3. CASE T \ {z} = {}
    BY <2>3
  <2>4. CASE T \ {z} # {}
    <3>1. PICK x \in T \ {z} : \A y \in T \ {z} : x >= y
      BY <2>2, <2>4
    <3>2. x \in Int /\ z \in Int /\ \A y \in T : y \in Int
      OBVIOUS
    <3>3. CASE x >= z
      BY <3>1, <3>3
    <3>4. CASE ~(x >= z)
      BY <3>1, <3>2, <3>4
    <3> QED BY <3>3, <3>4
  <2> QED BY <2>3, <2>4
<1> HIDE DEF Good
<1>2. S \in Good
  BY <1>1, SubsetInduction
<1>3. \E x \in S : \A y \in S : x >= y
  BY <1>2 DEF Good
<1> QED BY <1>3 DEF Max

LEMMA HasMin ==
  ASSUME NEW S, IsFiniteSet(S), S # {}, \A x \in S : x \in Int
  PROVE  /\ Min(S) \in S
         /\ \A y \in S : Min(S) <= y
<1> DEFINE Good == {T \in SUBSET S : T # {} => \E x \in T : \A y \in T : x <= y}
<1>1. ASSUME NEW T \in SUBSET S, \A U \in SUBSET T : U # T => U \in Good
      PROVE  T \in Good
  <2> SUFFICES ASSUME T # {} PROVE \E x \in T : \A y \in T : x <= y
    OBVIOUS
  <2>1. PICK z \in T : TRUE
    OBVIOUS
  <2>2. T \ {z} \in Good
    BY <1>1
  <2>3. CASE T \ {z} = {}
    BY <2>3
  <2>4. CASE T \ {z} # {}
    <3>1. PICK x \in T \ {z} : \A y \in T \ {z} : x <= y
      BY <2>2, <2>4
    <3>2. x \in Int /\ z \in Int /\ \A y \in T : y \in Int
      OBVIOUS
    <3>3. CASE x <= z
      BY <3>1, <3>3
    <3>4. CASE ~(x <= z)
      BY <3>1, <3>2, <3>4
    <3> QED BY <3>3, <3>4
  <2> QED BY <2>3, <2>4
<1> HIDE DEF Good
<1>2. S \in Good
  BY <1>1, SubsetInduction
<1>3. \E x \in S : \A y \in S : x <= y
  BY <1>2 DEF Good
<1> QED BY <1>3 DEF Min

(* A non-empty set of moments up to one of them.                            *)
LEMMA BoundedMax ==
  ASSUME NEW n \in Nat, NEW S \in SUBSET (0..n), S # {}
  PROVE  /\ Max(S) \in S /\ \A y \in S : Max(S) >= y
         /\ Min(S) \in S /\ \A y \in S : Min(S) <= y
<1>1. IsFiniteSet(S) /\ \A x \in S : x \in Int
  <2>1. IsFiniteSet(0..n)
    <3>1. 0 \in Int /\ n \in Int
      OBVIOUS
    <3> QED BY <3>1, FS_Interval
  <2>2. IsFiniteSet(S)
    BY <2>1, FS_Subset
  <2> QED BY <2>2
<1> QED BY <1>1, HasMax, HasMin

LEMMA MaxOfTwo ==
  ASSUME NEW i \in Int, NEW j \in Int
  PROVE  Max({i, j}) \in Int /\ Max({i, j}) >= i /\ Max({i, j}) >= j
<1>1. \E x \in {i, j} : \A y \in {i, j} : x >= y
  <2>1. CASE i >= j
    BY <2>1
  <2>2. CASE ~(i >= j)
    BY <2>2
  <2> QED BY <2>1, <2>2
<1>2. Max({i, j}) \in {i, j} /\ \A y \in {i, j} : Max({i, j}) >= y
  BY <1>1 DEF Max
<1> QED BY <1>2

(***************************************************************************)
(* The statistics                                                          *)
(***************************************************************************)
Clock == statNow <= now /\ \A r \in minerstats : r.created <= statNow

(* What was read of a worker: while its pass runs, moments of the window.   *)
SumsRight ==
  \A w \in DOMAIN sums :
    /\ sums[w].sum \in Nat /\ sums[w].first \in Nat /\ sums[w].last \in Nat
    /\ spc \in {"pool", "miners"} => /\ statNow - HashRateWindow <= sums[w].first
                                     /\ sums[w].first <= statNow
                                     /\ sums[w].last <= statNow

IStats == TableTypes /\ StatsTypes /\ IsFiniteSet(used) /\ Clock /\ SumsRight

LEMMA Moments ==
  ASSUME IStats
  PROVE  /\ now \in Nat /\ statNow \in Nat /\ faults \in Nat
         /\ HashRateWindow \in Nat \ {0} /\ HashesPerUnit \in Nat \ {0} /\ Second \in Nat \ {0}
         /\ \A s \in stored : created[s] \in Nat
         /\ \A r \in minerstats : r.created \in Nat
<1>1. now \in Nat /\ statNow \in Nat
  BY StatsAssumption DEF IStats, TableTypes, StatsTypes
<1>2. faults \in Nat
  <2>1. MaxFaults \in Nat /\ faults \in 0..MaxFaults
    BY StatsAssumption DEF IStats, TableTypes
  <2> QED BY <2>1
<1>3. HashRateWindow \in Nat \ {0} /\ HashesPerUnit \in Nat \ {0} /\ Second \in Nat \ {0}
  BY StatsAssumption
<1>4. \A s \in stored : created[s] \in Nat
  BY StatsAssumption DEF IStats, TableTypes
<1>5. \A r \in minerstats : r.created \in Nat
  BY StatsAssumption DEF IStats, TableTypes
<1> QED BY <1>1, <1>2, <1>3, <1>4, <1>5

LEMMA AccumulationType ==
  ASSUME IStats, NEW w \in Workers, InWindow(w) # {}
  PROVE  /\ Accumulation(w).sum \in Nat
         /\ Accumulation(w).first \in Nat /\ Accumulation(w).last \in Nat
         /\ statNow - HashRateWindow <= Accumulation(w).first
         /\ Accumulation(w).first <= statNow
         /\ Accumulation(w).last <= statNow
<1> DEFINE S == {created[s] : s \in InWindow(w)}
<1>1. InWindow(w) \subseteq stored /\ \A s \in InWindow(w) :
        created[s] \in 0..statNow /\ statNow - HashRateWindow <= created[s]
  BY Moments DEF InWindow
<1>2. S \in SUBSET (0..statNow) /\ S # {} /\ \A t \in S : statNow - HashRateWindow <= t
  BY <1>1
<1>3. Max(S) \in S /\ Min(S) \in S
  <2> HIDE DEF S
  <2> QED BY <1>2, Moments, BoundedMax
<1>4. SumFunctionOnSet(Difficulty, InWindow(w)) \in Nat
  <2>1. IsFiniteSet(InWindow(w))
    BY <1>1, FS_Subset DEF IStats, TableTypes
  <2>2. \A s \in InWindow(w) : Difficulty[s] \in Nat
    BY <1>1, StatsAssumption DEF IStats, TableTypes
  <2> QED BY <2>1, <2>2, SumNat
<1>5. Accumulation(w).first = Min(S) /\ Accumulation(w).last = Max(S)
      /\ Accumulation(w).sum = SumFunctionOnSet(Difficulty, InWindow(w))
  BY DEF Accumulation
<1> HIDE DEF S
<1>6. Min(S) \in 0..statNow /\ Max(S) \in 0..statNow /\ statNow - HashRateWindow <= Min(S)
  BY <1>2, <1>3
<1> QED BY <1>4, <1>5, <1>6, Moments

(* Cutting a window to whole seconds takes less than one from it.           *)
LEMMA LessThanASecond ==
  ASSUME NEW window \in Int, NEW seconds \in Int,
         seconds >= wholeSeconds(window), seconds >= 1
  PROVE  /\ Second * seconds \in Int /\ Second * seconds >= Second
         /\ window < Second * seconds + Second
<1>0. Second \in Nat \ {0}
  BY StatsAssumption
<1>1. \A a \in Int, d \in Nat \ {0} : a \div d \in Int /\ a < d * (a \div d) + d
  BY SMT
<1> DEFINE whole == wholeSeconds(window)
<1>2. whole \in Int /\ window < Second * whole + Second /\ seconds >= whole
  BY <1>0, <1>1 DEF wholeSeconds
<1> HIDE DEF whole
<1>3. \A d \in Nat, a, b \in Int : a <= b => d * a <= d * b /\ d * a \in Int /\ d * b \in Int
  BY SMT
<1>4. Second * whole <= Second * seconds /\ Second * seconds \in Int /\ Second * whole \in Int
  BY <1>0, <1>2, <1>3
<1>5. Second * 1 <= Second * seconds /\ Second * 1 = Second
  BY <1>0, <1>3
<1> QED BY <1>0, <1>2, <1>4, <1>5

LEMMA WindowSpans ==
  ASSUME IStats, spc \in {"pool", "miners"}, NEW m \in MinersOf
  PROVE  /\ adjustHashWindow(m) \in Int /\ adjustHashWindow(m) >= Second
         /\ \A v, w \in WorkersOf(m) :
              sums[w].last - sums[v].first < adjustHashWindow(m) + Second
<1> DEFINE F == {sums[w].first : w \in WorkersOf(m)}
           L == {sums[w].last : w \in WorkersOf(m)}
           start == Min(F) - (statNow - HashRateWindow)
           end   == statNow - Max(L)
           window == HashRateWindow - (IF isLong(start) THEN start ELSE 0)
                                    + (IF isLong(end) THEN end ELSE 0)
<1>1. WorkersOf(m) \subseteq DOMAIN sums /\ WorkersOf(m) # {}
  BY DEF WorkersOf, MinersOf
<1>2. \A w \in WorkersOf(m) : /\ sums[w].first \in 0..statNow /\ sums[w].last \in 0..statNow
                              /\ statNow - HashRateWindow <= sums[w].first
  BY <1>1, Moments DEF IStats, SumsRight
<1>3. F \in SUBSET (0..statNow) /\ F # {} /\ L \in SUBSET (0..statNow) /\ L # {}
  BY <1>1, <1>2
<1>4. /\ \A t \in F : statNow - HashRateWindow <= t
      /\ \A w \in WorkersOf(m) : sums[w].first \in F /\ sums[w].last \in L
  BY <1>2
<1>5. adjustHashWindow(m) = Second * Max({wholeSeconds(window), 1})
  BY DEF adjustHashWindow, startDifference, endDifference, firstShare, lastShare
<1> HIDE DEF F, L
<1>6. Min(F) \in F /\ Max(L) \in L /\ (\A t \in F : Min(F) <= t) /\ (\A t \in L : Max(L) >= t)
  BY <1>3, Moments, BoundedMax
<1>7. /\ Min(F) \in Nat /\ Max(L) \in Nat /\ Max(L) <= statNow
      /\ statNow - HashRateWindow <= Min(F)
  <2>1. Min(F) \in 0..statNow /\ Max(L) \in 0..statNow
    BY <1>3, <1>6
  <2>2. statNow - HashRateWindow <= Min(F)
    BY <1>4, <1>6
  <2>3. statNow \in Nat
    BY Moments
  <2> QED BY <2>1, <2>2, <2>3
<1>8. window \in Int /\ window >= Max(L) - Min(F)
  BY <1>7, Moments
<1>9. \A v, w \in WorkersOf(m) : sums[w].last - sums[v].first <= Max(L) - Min(F)
  <2> SUFFICES ASSUME NEW v \in WorkersOf(m), NEW w \in WorkersOf(m)
               PROVE  sums[w].last - sums[v].first <= Max(L) - Min(F)
    OBVIOUS
  <2>1. /\ sums[w].last \in Nat /\ sums[v].first \in Nat
        /\ sums[w].last <= Max(L) /\ Min(F) <= sums[v].first
    BY <1>2, <1>4, <1>6
  <2> QED BY <1>7, <2>1
<1> HIDE DEF window
<1> DEFINE seconds == Max({wholeSeconds(window), 1})
<1>10. seconds \in Int /\ seconds >= wholeSeconds(window) /\ seconds >= 1
  <2>1. \A a \in Int, d \in Nat \ {0} : a \div d \in Int
    BY SMT
  <2>2. wholeSeconds(window) \in Int /\ 1 \in Int
    BY <1>8, <2>1, Moments DEF wholeSeconds
  <2> QED BY <2>2, MaxOfTwo
<1>11. adjustHashWindow(m) = Second * seconds
  BY <1>5
<1> HIDE DEF seconds
<1>12. /\ adjustHashWindow(m) \in Int /\ adjustHashWindow(m) >= Second
       /\ window < adjustHashWindow(m) + Second
  BY <1>8, <1>10, <1>11, LessThanASecond
<1> HIDE DEF adjustHashWindow
<1>13. ASSUME NEW v \in WorkersOf(m), NEW w \in WorkersOf(m)
       PROVE  sums[w].last - sums[v].first < adjustHashWindow(m) + Second
  <2>1. sums[w].last \in Nat /\ sums[v].first \in Nat /\ Second \in Nat
    BY <1>2, Moments
  <2> QED BY <1>7, <1>8, <1>9, <1>12, <2>1
<1> QED BY <1>12, <1>13

LEMMA RateType ==
  ASSUME IStats, spc \in {"pool", "miners"}, NEW w \in DOMAIN sums
  PROVE  rateOf(w) \in Nat
<1>1. \A n, k \in Nat, d \in Nat \ {0} : (n * k) \div d \in Nat
  <2>1. \A n, k \in Nat : n * k \in Nat
    BY SMT
  <2>2. \A n \in Nat, d \in Nat \ {0} : n \div d \in Nat
    BY SMT
  <2> QED BY <2>1, <2>2
<1>2. sums[w].sum \in Nat /\ HashesPerUnit \in Nat
  BY Moments DEF IStats, SumsRight
<1>3. adjustHashWindow(MinerOf[w]) \in Nat \ {0}
  <2>1. /\ adjustHashWindow(MinerOf[w]) \in Int /\ Second \in Nat \ {0}
        /\ adjustHashWindow(MinerOf[w]) >= Second
    BY WindowSpans, Moments DEF MinersOf
  <2> HIDE DEF adjustHashWindow
  <2> QED BY <2>1
<1>4. sums[w].sum * HashesPerUnit \in Nat /\ Second \in Nat
  <2>1. \A n, k \in Nat : n * k \in Nat
    BY SMT
  <2> QED BY <1>2, <2>1, Moments
<1> QED BY <1>1, <1>3, <1>4 DEF rateOf, hashrateFromShares

(* Failures are only counted up, within their bound, by every step.         *)
LEMMA FaultsRise ==
  ASSUME faults \in 0..MaxFaults, [Next]_vars
  PROVE  faults' \in 0..MaxFaults /\ faults' >= faults
<1> DEFINE Counted == faults' = faults \/ (faults < MaxFaults /\ faults' = faults + 1)
<1>1. ASSUME StatsStep PROVE Counted
  <2>1. CASE StartPass \/ EndPass
    BY <2>1 DEF StartPass, EndPass
  <2>2. CASE ReadAccumulations
    BY <2>2 DEF ReadAccumulations, Charge
  <2>3. CASE MakePoolStat
    BY <2>3 DEF MakePoolStat, Charge
  <2>4. CASE InsertMinerStat
    BY <2>4 DEF InsertMinerStat, Charge
  <2> QED BY <1>1, <2>1, <2>2, <2>3, <2>4 DEF StatsStep, StatsPass
<1>2. ASSUME HandlerStep PROVE Counted
  <2> USE DEF QueryFails, QueryRuns, Charge
  <2>1. CASE SumShares
    BY <2>1 DEF SumShares
  <2>2. CASE ReadBalances
    BY <2>2 DEF ReadBalances
  <2>3. CASE ReadPayments
    BY <2>3 DEF ReadPayments, MinerLastPayments
  <2>4. CASE ReadLastUpdate
    BY <2>4 DEF ReadLastUpdate
  <2>5. CASE ReadStats
    BY <2>5 DEF ReadStats
  <2>6. CASE ReadWorkersSeen
    BY <2>6 DEF ReadWorkersSeen
  <2>7. CASE ReadHistory
    BY <2>7 DEF ReadHistory
  <2> QED BY <1>2, <2>1, <2>2, <2>3, <2>4, <2>5, <2>6, <2>7 DEF HandlerStep, Handler
<1>3. ASSUME Environment PROVE Counted
  <2>1. CASE Tick
    BY <2>1 DEF Tick
  <2>2. CASE StoreShare \/ DeleteSharesBefore
    BY <2>2 DEF StoreShare, DeleteSharesBefore
  <2>3. CASE BalanceChanges \/ RequestDashboard \/ RequestHistory
    BY <2>3 DEF BalanceChanges, RequestDashboard, RequestHistory
  <2>4. CASE RequestPool
    BY <2>4 DEF RequestPool, Charge
  <2> QED BY <1>3, <2>1, <2>2, <2>3, <2>4 DEF Environment, Request
<1>4. ASSUME Crash PROVE Counted
  BY <1>4 DEF Crash, Charge
<1>5. ASSUME UNCHANGED vars PROVE Counted
  BY <1>5 DEF vars
<1>6. Counted
  BY <1>1, <1>2, <1>3, <1>4, <1>5 DEF Next
<1>7. MaxFaults \in Nat
  BY StatsAssumption
<1> QED BY <1>6, <1>7

LEMMA StatsInitial ==
  ASSUME Init
  PROVE  IStats
<1> USE DEF Init, StatsInit
<1>1. TableTypes
  BY StatsAssumption DEF TableTypes, stored
<1>2. StatsTypes
  BY StatsAssumption DEF StatsTypes, NoSums
<1>3. IsFiniteSet(used)
  BY FS_EmptySet
<1>4. Clock /\ SumsRight
  BY DEF Clock, SumsRight, NoSums
<1> QED BY <1>1, <1>2, <1>3, <1>4 DEF IStats

LEMMA StatsInductive ==
  ASSUME IStats, [Next]_vars
  PROVE  IStats'
<1> USE DEF IStats
<1>f. faults' \in 0..MaxFaults
  BY FaultsRise DEF TableTypes
<1>n. now \in Nat /\ statNow \in Nat
  BY Moments
<1>1. ASSUME UNCHANGED <<now, sharesVars, statsVars>> PROVE IStats'
  BY <1>1, <1>f DEF sharesVars, statsVars, TableTypes, StatsTypes, Clock, SumsRight, stored
<1>2. CASE StatsStep
  <2>1. CASE StartPass
    <3>1. now' = now /\ used' = used /\ created' = created /\ statNow' = now /\ spc' = "read"
          /\ sums' = sums /\ toInsert' = toInsert /\ minerstats' = minerstats /\ now \in Instants
      BY <1>2, <2>1 DEF StatsStep, StartPass, sharesVars, TableTypes
    <3>2. TableTypes' /\ StatsTypes' /\ IsFiniteSet(used)'
      BY <3>1, <1>f DEF TableTypes, StatsTypes, stored
    <3>3. Clock'
      <4>1. \A r \in minerstats : r.created <= now
        BY <1>n, Moments DEF Clock
      <4> QED BY <3>1, <4>1, <1>n DEF Clock
    <3>4. SumsRight'
      BY <3>1 DEF SumsRight
    <3> QED BY <3>2, <3>3, <3>4
  <2>2. CASE ReadAccumulations
    <3>1. now' = now /\ used' = used /\ created' = created /\ statNow' = statNow
          /\ minerstats' = minerstats
      BY <1>2, <2>2 DEF StatsStep, ReadAccumulations, sharesVars
    <3>2. TableTypes' /\ IsFiniteSet(used)' /\ Clock'
      BY <3>1, <1>f DEF TableTypes, Clock, stored
    <3>3. StatsTypes' /\ SumsRight'
      <4>1. CASE spc' = "sleep" /\ sums' = NoSums /\ toInsert' = {}
        BY <3>1, <4>1 DEF StatsTypes, SumsRight, NoSums
      <4>2. CASE \E ws \in SUBSET {w \in Workers : InWindow(w) # {}} :
                   sums' = [w \in ws |-> Accumulation(w)] /\ toInsert' = ws /\ spc' = "pool"
        <5>1. PICK ws \in SUBSET {w \in Workers : InWindow(w) # {}} :
                sums' = [w \in ws |-> Accumulation(w)] /\ toInsert' = ws /\ spc' = "pool"
          BY <4>2
        <5>2. DOMAIN sums' = ws /\ \A w \in ws : sums'[w] = Accumulation(w)
          BY <5>1
        <5>3. \A w \in ws : w \in Workers /\ InWindow(w) # {}
          OBVIOUS
        <5>4. \A w \in ws :
                /\ Accumulation(w).sum \in Nat
                /\ Accumulation(w).first \in Nat /\ Accumulation(w).last \in Nat
                /\ statNow - HashRateWindow <= Accumulation(w).first
                /\ Accumulation(w).first <= statNow
                /\ Accumulation(w).last <= statNow
          BY <5>3, AccumulationType
        <5>5. StatsTypes'
          BY <5>1, <5>2, <5>3, <3>1 DEF StatsTypes
        <5>6. SumsRight'
          BY <5>2, <5>4, <3>1 DEF SumsRight
        <5> QED BY <5>5, <5>6
      <4> QED BY <2>2, <4>1, <4>2 DEF ReadAccumulations
    <3> QED BY <3>2, <3>3
  <2>3. CASE MakePoolStat
    <3>1. now' = now /\ used' = used /\ created' = created /\ statNow' = statNow
          /\ minerstats' = minerstats /\ sums' = sums /\ toInsert' = toInsert
          /\ spc = "pool" /\ spc' = "miners"
      BY <1>2, <2>3 DEF StatsStep, MakePoolStat, sharesVars
    <3> QED BY <3>1, <1>f DEF TableTypes, StatsTypes, Clock, SumsRight, stored
  <2>4. CASE InsertMinerStat
    <3>1. PICK w \in toInsert, o \in Outcome :
            /\ minerstats' = IF Applied(o)
                             THEN minerstats \cup
                                    {[worker |-> w, created |-> statNow, rate |-> rateOf(w)]}
                             ELSE minerstats
            /\ toInsert' = toInsert \ {w}
      BY <2>4 DEF InsertMinerStat, leftToInsert
    <3>2. now' = now /\ used' = used /\ created' = created /\ statNow' = statNow
          /\ sums' = sums /\ spc = "miners" /\ spc' = spc
      BY <1>2, <2>4 DEF StatsStep, InsertMinerStat, sharesVars
    <3>3. w \in DOMAIN sums /\ w \in Workers /\ statNow \in Instants
      BY DEF StatsTypes
    <3>4. rateOf(w) \in Nat
      BY <3>2, <3>3, RateType
    <3>5. \A r \in minerstats' :
            \/ r \in minerstats
            \/ r.worker = w /\ r.created = statNow /\ r.rate = rateOf(w)
      BY <3>1
    <3>6. TableTypes'
      BY <3>2, <3>3, <3>4, <3>5, <1>f DEF TableTypes, stored
    <3>7. Clock'
      BY <3>2, <3>5, <1>n DEF Clock
    <3>8. StatsTypes' /\ SumsRight' /\ IsFiniteSet(used)'
      BY <3>1, <3>2 DEF StatsTypes, SumsRight
    <3> QED BY <3>6, <3>7, <3>8
  <2>5. CASE EndPass
    <3>1. now' = now /\ used' = used /\ created' = created /\ statNow' = statNow
          /\ minerstats' = minerstats /\ sums' = sums /\ toInsert' = toInsert
          /\ spc' = "sleep"
      BY <1>2, <2>5 DEF StatsStep, EndPass, sharesVars
    <3> QED BY <3>1, <1>f DEF TableTypes, StatsTypes, Clock, SumsRight, stored
  <2> QED BY <1>2, <2>1, <2>2, <2>3, <2>4, <2>5 DEF StatsStep, StatsPass
<1>3. CASE HandlerStep
  BY <1>1, <1>3 DEF HandlerStep
<1>4. CASE Environment
  <2>1. CASE Tick
    <3>1. now' \in Instants /\ now' > now /\ UNCHANGED <<sharesVars, statsVars>>
      BY <2>1 DEF Tick
    <3>2. now' \in Nat
      BY <3>1, StatsAssumption
    <3>3. statNow' <= now'
      BY <3>1, <3>2, <1>n DEF Clock, statsVars
    <3> QED BY <3>1, <3>3, <1>f
         DEF sharesVars, statsVars, TableTypes, StatsTypes, Clock, SumsRight, stored
  <2>2. CASE StoreShare /\ UNCHANGED <<now, statsVars, dashboardVars>>
    <3>1. PICK s \in Submissions \ used, t \in Instants :
            /\ used' = used \cup {s}
            /\ created' = [x \in stored \cup {s} |-> IF x = s THEN t ELSE created[x]]
      BY <2>2 DEF StoreShare
    <3>2. IsFiniteSet(used')
      BY <3>1, FS_AddElement
    <3>3. stored' = stored \cup {s} /\ \A x \in stored' : created'[x] \in Instants
      BY <3>1 DEF stored, TableTypes
    <3>4. TableTypes'
      BY <2>2, <3>1, <3>3, <1>f DEF TableTypes, statsVars
    <3> QED BY <2>2, <3>2, <3>4 DEF StatsTypes, Clock, SumsRight, statsVars
  <2>3. CASE DeleteSharesBefore /\ UNCHANGED <<now, statsVars, dashboardVars>>
    <3>1. PICK t \in Instants : created' = Restrict(created, {s \in stored : created[s] >= t})
      BY <2>3 DEF DeleteSharesBefore
    <3>2. used' = used
      BY <2>3 DEF DeleteSharesBefore
    <3>3. stored' \subseteq stored /\ \A x \in stored' : created'[x] = created[x]
      BY <3>1 DEF stored, Restrict
    <3>4. TableTypes'
      BY <2>3, <3>2, <3>3, <1>f DEF TableTypes, statsVars
    <3> QED BY <2>3, <3>2, <3>4 DEF StatsTypes, Clock, SumsRight, statsVars
  <2>4. CASE (BalanceChanges \/ Request) /\ UNCHANGED <<now, sharesVars, statsVars>>
    BY <1>1, <2>4
  <2> QED BY <1>4, <2>1, <2>2, <2>3, <2>4 DEF Environment
<1>5. CASE Crash
  BY <1>5, <1>f
     DEF Crash, PassLost, sharesVars, TableTypes, StatsTypes, Clock, SumsRight, stored
<1>6. CASE UNCHANGED vars
  BY <1>1, <1>6 DEF vars
<1> QED BY <1>2, <1>3, <1>4, <1>5, <1>6 DEF Next

(* IStats holds in every state of the system.                               *)
THEOREM StatsHold == Spec => []IStats
<1>1. Init => IStats
  BY StatsInitial
<1>2. IStats /\ [Next]_vars => IStats'
  BY StatsInductive
<1> QED BY <1>1, <1>2, PTL DEF Spec

(* RateNotInflated, for any moments of the shares and any order of flushes, *)
(* deletions and passes: adjustHashWindow (stats.go:94-114), from the       *)
(* differences of getWindowDifferences (stats.go:132-151), divides by a     *)
(* second at the least, and by less than the miner's shares span only by    *)
(* the part of a second it cuts off.                                        *)
THEOREM RateNotInflatedHolds == Spec => []RateNotInflated
<1>1. ASSUME IStats PROVE RateNotInflated
  <2> SUFFICES ASSUME spc \in {"pool", "miners"}, NEW m \in MinersOf
               PROVE  /\ adjustHashWindow(m) >= Second
                      /\ \A v, w \in WorkersOf(m) :
                           sums[w].last - sums[v].first < adjustHashWindow(m) + Second
    BY DEF RateNotInflated
  <2> QED BY <1>1, WindowSpans
<1> QED BY <1>1, StatsHold, PTL

(* Without a failure a pass leaves a row for every worker it is done with.  *)
PassInserts ==
  /\ spc = "sleep" => toInsert = {}
  /\ faults = 0 /\ spc # "read" =>
       \A w \in DOMAIN sums \ toInsert :
         \E r \in minerstats : r.worker = w /\ r.created = statNow

LEMMA PassInductive ==
  ASSUME IStats, PassInserts, [Next]_vars
  PROVE  PassInserts'
<1> USE DEF PassInserts
<1>f. faults \in Nat /\ faults' \in Nat /\ faults' >= faults
  <2>1. MaxFaults \in Nat /\ faults \in 0..MaxFaults
    BY StatsAssumption DEF IStats, TableTypes
  <2> QED BY <2>1, FaultsRise
<1>z. faults' = 0 => faults = 0
  BY <1>f
<1>1. ASSUME UNCHANGED statsVars PROVE PassInserts'
  BY <1>1, <1>z DEF statsVars
<1>2. CASE StatsStep
  <2>1. CASE StartPass
    BY <2>1 DEF StartPass
  <2>2. CASE ReadAccumulations
    BY <2>2 DEF ReadAccumulations, NoSums
  <2>3. CASE MakePoolStat
    BY <1>z, <2>3 DEF MakePoolStat
  <2>4. CASE InsertMinerStat
    <3>1. PICK w \in toInsert, o \in Outcome :
            /\ Charge(o # "ok")
            /\ minerstats' = IF Applied(o)
                             THEN minerstats \cup
                                    {[worker |-> w, created |-> statNow, rate |-> rateOf(w)]}
                             ELSE minerstats
            /\ toInsert' = toInsert \ {w}
      BY <2>4 DEF InsertMinerStat, leftToInsert
    <3>2. statNow' = statNow /\ sums' = sums /\ spc = "miners" /\ spc' = spc
      BY <2>4 DEF InsertMinerStat
    <3>3. CASE o = "ok"
      <4>1. minerstats' = minerstats \cup
                            {[worker |-> w, created |-> statNow, rate |-> rateOf(w)]}
        BY <3>1, <3>3 DEF Applied
      <4> DEFINE row == [worker |-> w, created |-> statNow, rate |-> rateOf(w)]
      <4>2. row \in minerstats' /\ row.worker = w /\ row.created = statNow
        BY <4>1
      <4>3. \A r \in minerstats : r \in minerstats'
        BY <4>1
      <4> HIDE DEF row
      <4>4. ASSUME faults' = 0, NEW v \in DOMAIN sums \ toInsert'
            PROVE  \E r \in minerstats' : r.worker = v /\ r.created = statNow
        <5>1. CASE v = w
          BY <5>1, <4>2
        <5>2. CASE v # w
          <6>1. v \in DOMAIN sums \ toInsert
            BY <5>2, <3>1
          <6> QED BY <6>1, <4>3, <4>4, <3>2, <1>z
        <5> QED BY <5>1, <5>2
      <4> QED BY <3>2, <4>4
    <3>4. CASE o # "ok"
      <4>1. faults' # 0
        BY <3>1, <3>4, <1>f DEF Charge
      <4> QED BY <3>2, <4>1
    <3> QED BY <3>3, <3>4
  <2>5. CASE EndPass
    BY <1>z, <2>5 DEF EndPass
  <2> QED BY <1>2, <2>1, <2>2, <2>3, <2>4, <2>5 DEF StatsStep, StatsPass
<1>3. CASE HandlerStep \/ Environment
  BY <1>1, <1>3 DEF HandlerStep, Environment, Tick
<1>4. CASE Crash
  <2>1. faults' # 0
    BY <1>4, <1>f DEF Crash, Charge
  <2> QED BY <1>4, <2>1 DEF Crash, PassLost
<1>5. CASE UNCHANGED vars
  BY <1>1, <1>5 DEF vars
<1> QED BY <1>2, <1>3, <1>4, <1>5 DEF Next

(* The rows of minerstats are kept.                                         *)
LEMMA StatsKept ==
  ASSUME [Next]_vars
  PROVE  minerstats \subseteq minerstats'
<1>1. CASE StatsStep
  BY <1>1 DEF StatsStep, StatsPass, StartPass, ReadAccumulations, MakePoolStat, InsertMinerStat,
              EndPass
<1>2. CASE HandlerStep \/ Environment
  BY <1>2 DEF HandlerStep, Environment, Tick, statsVars
<1>3. CASE Crash
  BY <1>3 DEF Crash, PassLost
<1>4. CASE UNCHANGED vars
  BY <1>4 DEF vars, statsVars
<1> QED BY <1>1, <1>2, <1>3, <1>4 DEF Next

(***************************************************************************)
(* The requests                                                            *)
(***************************************************************************)
Kinds == {"none", "empty", "panic", "miner", "history", "pool"}

Answers == [kind : Kinds, balance : Nat, partial : BOOLEAN, during : BOOLEAN]

(* A request that runs has no answer yet, and has seen the balance.         *)
Served ==
  /\ RequestTypes
  /\ lastUpdate <= now
  /\ shown \in Answers
  /\ noShares \in BOOLEAN /\ failedQuery \in BOOLEAN
  /\ dpc \notin {"idle", "done"} => shown.kind = "none"
  /\ dpc = "history" => shown = NoAnswer
  /\ dpc # "idle" => balance \in seen

(* What the assignments to the fields of an answer leave alone.             *)
LEMMA AnswerKind ==
  ASSUME NEW s \in Answers, NEW k \in Kinds, NEW a, a = [s EXCEPT !.kind = k]
  PROVE  /\ a \in Answers /\ a.kind = k
         /\ a.balance = s.balance /\ a.partial = s.partial /\ a.during = s.during
  BY DEF Answers, Kinds

LEMMA AnswerBalance ==
  ASSUME NEW s \in Answers, NEW n \in Nat, NEW a, a = [s EXCEPT !.balance = n]
  PROVE  /\ a \in Answers /\ a.balance = n
         /\ a.kind = s.kind /\ a.partial = s.partial /\ a.during = s.during
  BY DEF Answers

LEMMA AnswerHistory ==
  ASSUME NEW s \in Answers, NEW k \in Kinds, NEW c \in BOOLEAN,
         NEW a, a = [s EXCEPT !.during = c, !.kind = k]
  PROVE  /\ a \in Answers /\ a.kind = k /\ a.during = c
         /\ a.partial = s.partial /\ a.balance = s.balance
  BY DEF Answers, Kinds

LEMMA EmptyAnswers ==
  /\ NoAnswer \in Answers /\ NoAnswer.kind = "none" /\ NoAnswer.balance = 0
  /\ NoAnswer.partial = FALSE /\ NoAnswer.during = FALSE
  BY DEF NoAnswer, Answers, Kinds

(* What a query leaves of the answer so far: nothing changes, an answer     *)
(* without a report ends the request, or the balance is filled in.          *)
LEMMA NilReport ==
  ASSUME shown \in Answers, call \in {1, 2}, nilReport
  PROVE  /\ shown' \in Answers /\ dpc' = "done"
         /\ shown'.kind = (IF call = 1 THEN "empty" ELSE "panic")
         /\ shown'.partial = shown.partial /\ shown'.during = shown.during
  BY AnswerKind DEF nilReport, Answer, Kinds

LEMMA ServedInitial ==
  ASSUME Init
  PROVE  Served
<1> USE DEF Init, StatsInit, DashboardInit
<1>1. RequestTypes
  BY StatsAssumption, EmptyAnswers DEF RequestTypes
<1>2. lastUpdate <= now
  <2>1. lastUpdate = 0 /\ now = 0
    OBVIOUS
  <2> HIDE DEF Init, StatsInit, DashboardInit
  <2> QED BY <2>1
<1> QED BY <1>1, <1>2, EmptyAnswers DEF Served

(* The newest row of a miner is of the past.                                *)
LEMMA NewestRow ==
  ASSUME IStats, StatsOf(miner) # {}
  PROVE  LET t == Max({r.created : r \in StatsOf(miner)})
         IN  t \in Instants /\ t <= now
<1> DEFINE S == {r.created : r \in StatsOf(miner)}
<1>1. statNow \in Nat /\ now \in Nat /\ statNow <= now
  BY Moments DEF IStats, Clock
<1>2. \A r \in StatsOf(miner) : r.created \in Instants /\ r.created \in 0..statNow
  BY <1>1, Moments DEF IStats, TableTypes, Clock, StatsOf
<1>3. S \in SUBSET (0..statNow) /\ S # {} /\ S \subseteq Instants
  BY <1>2
<1> HIDE DEF S
<1>4. Max(S) \in S
  BY <1>1, <1>3, BoundedMax
<1>5. Max(S) \in Instants /\ Max(S) <= now
  <2>1. Max(S) \in Instants /\ Max(S) \in 0..statNow
    BY <1>3, <1>4
  <2> HIDE DEF Max
  <2> QED BY <1>1, <2>1
<1> QED BY <1>5 DEF S

LEMMA HandlerServes ==
  ASSUME IStats, Served, HandlerStep
  PROVE  Served'
<1> USE DEF RequestTypes
<1>0. now' = now /\ minerstats' = minerstats /\ now \in Nat
  BY Moments DEF HandlerStep, statsVars
<1>q. QueryRuns \/ QueryFails => failedQuery' \in BOOLEAN
  BY DEF QueryRuns, QueryFails, Served
<1>1. CASE SumShares
  <2>1. shown' = shown /\ dpc' \in {"balances", "seen"} /\ dpc = "sum" /\ rows' = {}
        /\ balance' = balance /\ miner' = miner /\ call' = call /\ lastUpdate' = lastUpdate
        /\ seen' = seen /\ noShares' \in BOOLEAN /\ failedQuery' \in BOOLEAN
    BY <1>1, <1>q DEF SumShares, ReportMade, Served
  <2> QED BY <1>0, <2>1 DEF Served
<1>2. CASE ReadBalances
  <2>1. dpc = "balances" /\ balance' = balance /\ miner' = miner /\ call' = call
        /\ lastUpdate' = lastUpdate /\ rows' = rows /\ seen' = seen /\ noShares' = noShares
        /\ failedQuery' \in BOOLEAN
    BY <1>2, <1>q DEF ReadBalances
  <2>2. padZeros(balance) \in Nat
    BY DashboardAssumption DEF Served, padZeros
  <2>3. CASE dpc' = "payments" /\ shown' = Shows(padZeros(balance))
    <3>1. shown' \in Answers /\ shown'.kind = shown.kind
      BY <2>2, <2>3, AnswerBalance DEF Shows, Served
    <3> QED BY <1>0, <2>1, <2>3, <3>1 DEF Served
  <2>4. CASE dpc' \in {"payments", "seen"} /\ shown' = shown
    BY <1>0, <2>1, <2>4 DEF Served
  <2>5. CASE nilReport
    BY <1>0, <2>1, <2>5, NilReport DEF Served
  <2> QED BY <1>2, <2>3, <2>4, <2>5 DEF ReadBalances
<1>3. CASE ReadPayments
  <2>1. dpc = "payments" /\ balance' = balance /\ miner' = miner /\ call' = call
        /\ lastUpdate' = lastUpdate /\ rows' = rows /\ seen' = seen /\ noShares' = noShares
        /\ failedQuery' \in BOOLEAN
    BY <1>3, <1>q DEF ReadPayments, MinerLastPayments
  <2>2. CASE dpc' = "last" /\ shown' = shown
    BY <1>0, <2>1, <2>2 DEF Served
  <2>3. CASE dpc' = "seen" /\ shown' = Shows(0)
    <3>1. shown' \in Answers /\ shown'.kind = shown.kind
      BY <2>3, AnswerBalance DEF Shows, Served
    <3> QED BY <1>0, <2>1, <2>3, <3>1 DEF Served
  <2>4. CASE nilReport
    BY <1>0, <2>1, <2>4, NilReport DEF Served
  <2> QED BY <1>3, <2>2, <2>3, <2>4 DEF ReadPayments
<1>4. CASE ReadLastUpdate
  <2>1. dpc = "last" /\ balance' = balance /\ miner' = miner /\ call' = call
        /\ rows' = rows /\ seen' = seen /\ noShares' = noShares /\ failedQuery' \in BOOLEAN
    BY <1>4, <1>q DEF ReadLastUpdate
  <2>2. lastUpdate' \in Instants /\ lastUpdate' <= now
    BY <1>4, NewestRow DEF ReadLastUpdate, Served
  <2>3. CASE dpc' \in {"stats", "seen"} /\ shown' = shown
    BY <1>0, <2>1, <2>2, <2>3 DEF Served
  <2>4. CASE nilReport
    BY <1>0, <2>1, <2>2, <2>4, NilReport DEF Served
  <2> QED BY <1>4, <2>3, <2>4 DEF ReadLastUpdate, ReportMade
<1>5. CASE ReadStats
  <2>1. dpc = "stats" /\ balance' = balance /\ miner' = miner /\ call' = call
        /\ lastUpdate' = lastUpdate /\ seen' = seen /\ noShares' = noShares
        /\ failedQuery' \in BOOLEAN
    BY <1>5, <1>q DEF ReadStats
  <2>2. CASE \E read \in SUBSET GetMinerStatsByCreatedTime :
               /\ rows' = read
               /\ dpc' = "seen"
               /\ shown' = IF call = 1
                           THEN [shown EXCEPT !.partial = Partial(read),
                                              !.during = (spc # "sleep")]
                           ELSE shown
    <3>1. PICK read \in SUBSET GetMinerStatsByCreatedTime :
               /\ rows' = read
               /\ dpc' = "seen"
               /\ shown' = IF call = 1
                           THEN [shown EXCEPT !.partial = Partial(read),
                                              !.during = (spc # "sleep")]
                           ELSE shown
      BY <2>2
    <3>2. rows' \subseteq minerstats
      BY <3>1 DEF GetMinerStatsByCreatedTime, StatsOf
    <3>3. Partial(read) \in BOOLEAN /\ (spc # "sleep") \in BOOLEAN
      BY DEF Partial
    <3>4. shown' \in Answers /\ shown'.kind = shown.kind
      <4>1. CASE call = 1
        <5>1. shown' = [shown EXCEPT !.partial = Partial(read), !.during = (spc # "sleep")]
          BY <3>1, <4>1
        <5>2. PICK b \in BOOLEAN, c \in BOOLEAN :
                shown' = [shown EXCEPT !.partial = b, !.during = c]
          BY <3>3, <5>1, Zenon
        <5>3. shown \in Answers
          BY DEF Served
        <5> QED BY <5>2, <5>3 DEF Answers
      <4>2. CASE call # 1
        BY <3>1, <4>2 DEF Served
      <4> QED BY <4>1, <4>2
    <3> QED BY <1>0, <2>1, <3>1, <3>2, <3>4 DEF Served
  <2>3. CASE nilReport /\ rows' = rows
    BY <1>0, <2>1, <2>3, NilReport DEF Served
  <2> QED BY <1>5, <2>2, <2>3 DEF ReadStats
<1>6. CASE ReadWorkersSeen
  <2>1. dpc = "seen" /\ balance' = balance /\ miner' = miner /\ call' \in {1, 2}
        /\ lastUpdate' = lastUpdate /\ rows' = rows /\ seen' = seen /\ noShares' = noShares
        /\ failedQuery' \in BOOLEAN
    BY <1>6, <1>q DEF ReadWorkersSeen, Served
  <2>2. CASE dpc' = "sum" /\ shown' = shown
    BY <1>0, <2>1, <2>2 DEF Served
  <2>3. CASE Answer("miner") \/ Answer("panic")
    <3>1. shown' \in Answers /\ dpc' = "done"
      BY <2>3, AnswerKind DEF Answer, Served, Kinds
    <3> QED BY <1>0, <2>1, <3>1 DEF Served, Answers, Kinds
  <2> QED BY <1>6, <2>2, <2>3 DEF ReadWorkersSeen
<1>7. CASE ReadHistory
  <2>1. dpc = "history" /\ balance' = balance /\ miner' = miner /\ call' = call
        /\ lastUpdate' = lastUpdate /\ seen' = seen /\ noShares' = noShares
        /\ failedQuery' \in BOOLEAN /\ rows' \subseteq minerstats
    BY <1>7, <1>q DEF ReadHistory, historyRows, historyUpTo, StatsOf, Served
  <2>2. shown' \in Answers /\ dpc' = "done"
    <3>1. ASSUME HistoryAnswer(rows') PROVE shown' \in Answers /\ dpc' = "done"
      <4>1. PICK k \in Kinds : shown' = [shown EXCEPT !.during = (spc # "sleep"), !.kind = k]
        BY <3>1 DEF HistoryAnswer, Kinds
      <4>2. (spc # "sleep") \in BOOLEAN
        OBVIOUS
      <4> QED BY <3>1, <4>1, <4>2, AnswerHistory DEF HistoryAnswer, Served
    <3>2. ASSUME Answer("empty") PROVE shown' \in Answers /\ dpc' = "done"
      BY <3>2, AnswerKind DEF Answer, Served, Kinds
    <3> QED BY <1>7, <3>1, <3>2 DEF ReadHistory
  <2> QED BY <1>0, <2>1, <2>2 DEF Served, Answers, Kinds
<1> QED BY <1>1, <1>2, <1>3, <1>4, <1>5, <1>6, <1>7 DEF HandlerStep, Handler

(* A new request: what is asked for, and what the answer starts from.       *)
LEMMA RequestStarts ==
  ASSUME IStats, Request
  PROVE  /\ dpc \in {"idle", "done"}
         /\ call' = 1 /\ rows' = {} /\ seen' = {balance} /\ noShares' = FALSE
         /\ balance' = balance /\ failedQuery' \in BOOLEAN
         /\ lastUpdate' \in Instants /\ lastUpdate' <= now
         /\ \/ dpc' \in {"sum", "history"} /\ miner' \in Miners /\ shown' = NoAnswer
            \/ /\ dpc' = "done" /\ shown' \in Answers /\ shown'.kind \in {"empty", "pool"}
               /\ shown'.partial = FALSE
<1>0. now \in Nat /\ now \in Instants /\ 0 \in Instants /\ 0 <= now
  BY Moments, StatsAssumption DEF IStats, TableTypes
<1>1. dpc \in {"idle", "done"} /\ call' = 1 /\ rows' = {} /\ seen' = {balance}
      /\ noShares' = FALSE /\ balance' = balance
  BY DEF Request, RequestDashboard, RequestHistory, RequestPool, NewRequest
<1>2. lastUpdate' \in Instants /\ lastUpdate' <= now
  <2>1. lastUpdate' \in {0, now}
    BY DEF Request, RequestDashboard, RequestHistory, RequestPool, historyEnd
  <2> QED BY <1>0, <2>1
<1>3. failedQuery' \in BOOLEAN
  BY DEF Request, RequestDashboard, RequestHistory, RequestPool
<1>4. \A k \in {"empty", "pool"} :
        LET a == [NoAnswer EXCEPT !.kind = k]
        IN  a \in Answers /\ a.kind = k /\ a.partial = FALSE
  BY DEF NoAnswer, Answers, Kinds
<1>5. \/ dpc' \in {"sum", "history"} /\ miner' \in Miners /\ shown' = NoAnswer
      \/ dpc' = "done" /\ \E k \in {"empty", "pool"} : shown' = [NoAnswer EXCEPT !.kind = k]
  BY DEF Request, RequestDashboard, RequestHistory, RequestPool
<1>6. \/ dpc' \in {"sum", "history"} /\ miner' \in Miners /\ shown' = NoAnswer
      \/ /\ dpc' = "done" /\ shown' \in Answers /\ shown'.kind \in {"empty", "pool"}
         /\ shown'.partial = FALSE
  BY <1>4, <1>5
<1> QED BY <1>1, <1>2, <1>3, <1>6

LEMMA ServedInductive ==
  ASSUME IStats, Served, [Next]_vars
  PROVE  Served'
<1> USE DEF RequestTypes
<1>0. now \in Nat /\ lastUpdate \in Nat /\ IStats' /\ minerstats \subseteq minerstats'
  BY Moments, StatsInductive, StatsKept, StatsAssumption DEF Served
<1>1. ASSUME UNCHANGED dashboardVars, now' >= now PROVE Served'
  <2>1. now' \in Nat
    BY <1>0, StatsAssumption DEF IStats, TableTypes
  <2>2. lastUpdate' <= now'
    BY <1>0, <1>1, <2>1 DEF Served, dashboardVars, requestVars
  <2> QED BY <1>0, <1>1, <2>2 DEF Served, dashboardVars, requestVars
<1>2. CASE StatsStep
  <2>1. now' = now /\ UNCHANGED dashboardVars
    BY <1>2 DEF StatsStep
  <2> QED BY <2>1, <1>0, <1>1
<1>3. CASE HandlerStep
  BY <1>3, HandlerServes
<1>4. CASE Environment
  <2>1. CASE Tick
    <3>1. UNCHANGED dashboardVars /\ now' > now /\ now' \in Nat
      BY <2>1, StatsAssumption DEF Tick
    <3>2. now' >= now
      BY <3>1, <1>0
    <3> QED BY <1>1, <3>1, <3>2
  <2>2. CASE (StoreShare \/ DeleteSharesBefore) /\ UNCHANGED <<now, statsVars, dashboardVars>>
    <3>1. now' = now /\ UNCHANGED dashboardVars
      BY <2>2
    <3> QED BY <3>1, <1>0, <1>1
  <2>3. CASE BalanceChanges /\ UNCHANGED <<now, sharesVars, statsVars>>
    <3>1. balance' \in Amounts /\ balance' \in seen' /\ now' = now
          /\ UNCHANGED <<dpc, miner, call, lastUpdate, rows, shown, noShares, failedQuery>>
      BY <2>3 DEF BalanceChanges, requestVars
    <3> QED BY <1>0, <3>1 DEF Served
  <2>4. CASE Request /\ UNCHANGED <<now, sharesVars, statsVars>>
    <3>1. now' = now
      BY <2>4
    <3> QED BY <1>0, <2>4, <3>1, RequestStarts, EmptyAnswers DEF Served, Answers, Kinds
  <2> QED BY <1>4, <2>1, <2>2, <2>3, <2>4 DEF Environment
<1>5. CASE Crash
  <2>1. now' = now /\ dpc' \in {"idle", "done"} /\ (dpc' # "idle" => dpc # "idle")
        /\ UNCHANGED <<balance, miner, call, lastUpdate, rows, shown, seen, noShares,
                       failedQuery>>
    BY <1>5 DEF Crash, RequestLost
  <2> QED BY <1>0, <2>1 DEF Served
<1>6. CASE UNCHANGED vars
  <2>1. now' = now /\ UNCHANGED dashboardVars
    BY <1>6 DEF vars
  <2> QED BY <2>1, <1>0, <1>1
<1> QED BY <1>2, <1>3, <1>4, <1>5, <1>6 DEF Next

(* Served holds in every state of the system.                               *)
THEOREM ServedHolds == Spec => []Served
<1>1. Init => Served
  BY ServedInitial
<1>2. IStats /\ Served /\ [Next]_vars => Served'
  BY ServedInductive
<1> QED BY <1>1, <1>2, StatsHold, PTL DEF Spec

(* TypeOK, for every set of shares, workers and moments: in particular a    *)
(* report never holds a row that minerstats does not, whatever pass, crash  *)
(* or request came between.                                                 *)
THEOREM Typing == Spec => []TypeOK
<1>1. IStats /\ Served => TypeOK
  BY DEF IStats, Served, TypeOK
<1> QED BY <1>1, StatsHold, ServedHolds, PTL

(***************************************************************************)
(* The balance                                                             *)
(***************************************************************************)
BalanceJustified ==
  \/ shown.balance \in seen
  \/ shown.balance = 0 /\ (NoRow \in seen \/ noShares \/ failedQuery)

(* Nothing is shown before the balances are read; from then on, the second  *)
(* report included, what is shown is justified.                             *)
BalanceServed ==
  /\ dpc \in {"sum", "balances"} /\ call = 1 => shown.balance = 0
  /\ dpc \in {"payments", "last", "stats", "seen"} => BalanceJustified
  /\ dpc \in {"sum", "balances"} /\ call = 2 => BalanceJustified
  /\ shown.kind = "miner" => BalanceJustified

(* A report without a result ends the request, not with a balance.          *)
LEMMA NoBalanceShown ==
  ASSUME dpc' = "done", shown'.kind # "miner"
  PROVE  BalanceServed'
  BY DEF BalanceServed

LEMMA HandlerBalance ==
  ASSUME Served, BalanceServed, HandlerStep
  PROVE  BalanceServed'
<1>0. call \in {1, 2} /\ shown \in Answers
      /\ (dpc \notin {"idle", "done"} => shown.kind = "none" /\ balance \in seen)
  BY DEF Served, RequestTypes
<1>n. nilReport => BalanceServed'
  BY <1>0, NilReport, NoBalanceShown
<1>1. CASE SumShares
  <2>1. dpc = "sum" /\ call' = call /\ seen' = seen /\ shown' = shown
    BY <1>1 DEF SumShares, ReportMade
  <2>2. CASE dpc' = "balances" /\ noShares' = noShares /\ failedQuery' = failedQuery
    BY <1>0, <2>1, <2>2 DEF BalanceServed, BalanceJustified
  <2>3. CASE /\ dpc' = "seen" /\ noShares' = (noShares \/ call = 1)
             /\ failedQuery' = failedQuery
    <3>1. CASE call = 1
      BY <1>0, <2>1, <2>3, <3>1 DEF BalanceServed, BalanceJustified
    <3>2. CASE call = 2
      BY <1>0, <2>1, <2>3, <3>2 DEF BalanceServed, BalanceJustified
    <3> QED BY <1>0, <3>1, <3>2
  <2>4. CASE dpc' = "seen" /\ noShares' = noShares /\ failedQuery' = TRUE
    BY <1>0, <2>1, <2>4 DEF BalanceServed, BalanceJustified
  <2> QED BY <1>1, <2>2, <2>3, <2>4 DEF SumShares, QueryRuns, QueryFails, ReportMade
<1>2. CASE ReadBalances
  <2>1. dpc = "balances" /\ call' = call /\ seen' = seen /\ noShares' = noShares
    BY <1>2 DEF ReadBalances
  <2>2. CASE QueryRuns /\ dpc' = "payments" /\ shown' = Shows(padZeros(balance))
    <3>1. failedQuery' = failedQuery
      BY <2>2 DEF QueryRuns
    <3>2. CASE call = 1
      <4>1. padZeros(balance) \in Nat
        BY DashboardAssumption DEF Served, RequestTypes, padZeros
      <4>2. shown'.balance = padZeros(balance) /\ shown'.kind = "none"
        BY <1>0, <2>1, <2>2, <3>2, <4>1, AnswerBalance DEF Shows
      <4>3. BalanceJustified'
        BY <1>0, <2>1, <4>2 DEF BalanceJustified, padZeros
      <4> QED BY <2>2, <4>2, <4>3 DEF BalanceServed
    <3>3. CASE call = 2
      BY <1>0, <2>1, <2>2, <3>1, <3>3 DEF BalanceServed, BalanceJustified, Shows
    <3> QED BY <1>0, <3>2, <3>3
  <2>3. CASE QueryFails /\ dpc' \in {"payments", "seen"} /\ shown' = shown
    BY <1>0, <2>1, <2>3 DEF BalanceServed, BalanceJustified, QueryFails
  <2> QED BY <1>2, <1>n, <2>2, <2>3 DEF ReadBalances
<1>3. CASE ReadPayments
  <2>1. dpc = "payments" /\ call' = call /\ seen' = seen /\ noShares' = noShares
    BY <1>3 DEF ReadPayments
  <2>2. CASE MinerLastPayments /\ dpc' = "last" /\ shown' = shown
    BY <1>0, <2>1, <2>2
       DEF BalanceServed, BalanceJustified, MinerLastPayments, QueryRuns, QueryFails
  <2>3. CASE QueryFails /\ dpc' = "seen" /\ shown' = Shows(0)
    <3>1. CASE call = 1
      <4>1. shown'.balance = 0 /\ shown'.kind = "none"
        BY <1>0, <2>1, <2>3, <3>1, AnswerBalance DEF Shows
      <4> QED BY <2>1, <2>3, <4>1 DEF BalanceServed, BalanceJustified, QueryFails
    <3>2. CASE call = 2
      BY <1>0, <2>1, <2>3, <3>2 DEF BalanceServed, BalanceJustified, QueryFails, Shows
    <3> QED BY <1>0, <3>1, <3>2
  <2> QED BY <1>3, <1>n, <2>2, <2>3 DEF ReadPayments
<1>4. CASE ReadLastUpdate
  <2>1. dpc = "last" /\ call' = call /\ seen' = seen /\ noShares' = noShares
    BY <1>4 DEF ReadLastUpdate
  <2>2. CASE QueryRuns /\ dpc' \in {"stats", "seen"} /\ shown' = shown
    BY <1>0, <2>1, <2>2 DEF BalanceServed, BalanceJustified, QueryRuns
  <2> QED BY <1>4, <1>n, <2>2 DEF ReadLastUpdate, ReportMade
<1>5. CASE ReadStats
  <2>1. dpc = "stats" /\ call' = call /\ seen' = seen /\ noShares' = noShares
        /\ (failedQuery' = failedQuery \/ failedQuery' = TRUE)
    BY <1>5 DEF ReadStats, QueryRuns, QueryFails
  <2>2. CASE dpc' = "seen" /\ shown'.balance = shown.balance /\ shown'.kind = shown.kind
    BY <1>0, <2>1, <2>2 DEF BalanceServed, BalanceJustified
  <2>3. ASSUME NEW read, shown' = IF call = 1
                                  THEN [shown EXCEPT !.partial = Partial(read),
                                                     !.during = (spc # "sleep")]
                                  ELSE shown
        PROVE  shown'.balance = shown.balance /\ shown'.kind = shown.kind
    BY <1>0, <2>3 DEF Answers
  <2> QED BY <1>5, <1>n, <2>2, <2>3 DEF ReadStats
<1>6. CASE ReadWorkersSeen
  <2>1. dpc = "seen" /\ seen' = seen /\ noShares' = noShares
        /\ (failedQuery' = failedQuery \/ failedQuery' = TRUE)
    BY <1>6 DEF ReadWorkersSeen, QueryRuns, QueryFails
  <2>2. CASE call' = 2 /\ dpc' = "sum" /\ shown' = shown
    BY <1>0, <2>1, <2>2 DEF BalanceServed, BalanceJustified
  <2>3. CASE Answer("miner") \/ Answer("panic")
    <3>1. dpc' = "done" /\ shown'.balance = shown.balance
      BY <1>0, <2>3, AnswerKind DEF Answer, Kinds
    <3> QED BY <2>1, <3>1 DEF BalanceServed, BalanceJustified
  <2> QED BY <1>6, <2>2, <2>3 DEF ReadWorkersSeen
<1>7. CASE ReadHistory
  <2>1. dpc' = "done" /\ shown'.kind \in {"panic", "history", "empty"}
    <3>1. CASE HistoryAnswer(rows')
      BY <1>0, <3>1 DEF HistoryAnswer, Answers
    <3>2. CASE Answer("empty")
      BY <1>0, <3>2 DEF Answer, Answers
    <3> QED BY <1>7, <3>1, <3>2 DEF ReadHistory
  <2> QED BY <2>1, NoBalanceShown
<1> QED BY <1>1, <1>2, <1>3, <1>4, <1>5, <1>6, <1>7 DEF HandlerStep, Handler

LEMMA BalanceInductive ==
  ASSUME IStats, Served, BalanceServed, [Next]_vars
  PROVE  BalanceServed'
<1>1. ASSUME UNCHANGED dashboardVars PROVE BalanceServed'
  BY <1>1 DEF BalanceServed, BalanceJustified, dashboardVars, requestVars
<1>2. CASE StatsStep \/ UNCHANGED vars
  BY <1>1, <1>2 DEF StatsStep, vars
<1>3. CASE HandlerStep
  BY <1>3, HandlerBalance
<1>4. CASE Environment
  <2>1. CASE Tick
    BY <1>1, <2>1 DEF Tick
  <2>2. CASE UNCHANGED dashboardVars
    BY <1>1, <2>2
  <2>3. CASE BalanceChanges
    <3>1. dpc \in {"sum", "balances"} /\ call = 1 /\ UNCHANGED <<dpc, call, shown>>
      BY <2>3 DEF BalanceChanges, requestVars
    <3>2. shown.kind = "none"
      BY <3>1 DEF Served
    <3> QED BY <3>1, <3>2 DEF BalanceServed
  <2>4. CASE Request
    <3>1. CASE dpc' \in {"sum", "history"} /\ shown' = NoAnswer
      <4>1. call' = 1
        BY <2>4, RequestStarts
      <4> QED BY <3>1, <4>1, EmptyAnswers DEF BalanceServed
    <3>2. CASE dpc' = "done" /\ shown'.kind \in {"empty", "pool"}
      BY <3>2, NoBalanceShown
    <3> QED BY <2>4, <3>1, <3>2, RequestStarts
  <2> QED BY <1>4, <2>1, <2>2, <2>3, <2>4 DEF Environment
<1>5. CASE Crash
  BY <1>5 DEF Crash, RequestLost, BalanceServed, BalanceJustified
<1> QED BY <1>2, <1>3, <1>4, <1>5 DEF Next

(* ShownBalanceReal, with any number of credits and payouts while the       *)
(* handler goes through its queries and any of them failing: the balance of *)
(* the first report (miner.go:138-266) is not lost or invented on the way   *)
(* to the answer.                                                           *)
THEOREM ShownBalanceRealHolds == Spec => []ShownBalanceReal
<1>1. Init => BalanceServed
  BY EmptyAnswers DEF Init, DashboardInit, BalanceServed
<1>2. IStats /\ Served /\ BalanceServed /\ [Next]_vars => BalanceServed'
  BY BalanceInductive
<1>3. BalanceServed => ShownBalanceReal
  BY DEF BalanceServed, BalanceJustified, ShownBalanceReal
<1> QED BY <1>1, <1>2, <1>3, StatsHold, ServedHolds, PTL DEF Spec

(***************************************************************************)
(* The panic                                                               *)
(***************************************************************************)
(* What lets the second report end without a panic: a row of the miner.     *)
Met == failedQuery \/ noShares \/ StatsOf(miner) # {}

(* The first report either met a row of the miner, or no shares, or an      *)
(* error; the second one therefore finds a row too.                         *)
StatsMet ==
  /\ dpc \in {"stats", "seen"} => Met
  /\ dpc \notin {"idle", "done"} /\ call = 2 => Met
  /\ shown.kind = "panic" => failedQuery \/ noShares

LEMMA HandlerMet ==
  ASSUME IStats, Served, StatsMet, HandlerStep
  PROVE  StatsMet'
<1>0. call \in {1, 2} /\ shown \in Answers /\ noShares \in BOOLEAN
      /\ (dpc \notin {"idle", "done"} => shown.kind = "none")
  BY DEF Served, RequestTypes
<1>1. miner' = miner /\ StatsOf(miner)' = StatsOf(miner)
  <2>1. minerstats' = minerstats
    BY DEF HandlerStep, statsVars
  <2>2. miner' = miner
    BY DEF HandlerStep, Handler, SumShares, ReadBalances, ReadPayments, ReadLastUpdate, ReadStats,
           ReadWorkersSeen, ReadHistory
  <2> QED BY <2>1, <2>2 DEF StatsOf
<1>f. ASSUME failedQuery' PROVE StatsMet'
  BY <1>f DEF StatsMet, Met
<1>2. QueryFails => StatsMet'
  BY <1>f DEF QueryFails
<1>3. ASSUME QueryRuns, noShares' = noShares PROVE Met' = Met
  BY <1>1, <1>3 DEF Met, QueryRuns
<1>4. CASE SumShares /\ QueryRuns
  <2>1. dpc = "sum" /\ call' = call /\ shown' = shown /\ failedQuery' = failedQuery
    BY <1>4 DEF SumShares, ReportMade, QueryRuns
  <2>2. CASE dpc' = "balances" /\ noShares' = noShares
    BY <1>0, <1>1, <2>1, <2>2 DEF StatsMet, Met
  <2>3. CASE dpc' = "seen" /\ noShares' = (noShares \/ call = 1)
    <3>1. CASE call = 1
      BY <1>0, <2>1, <2>3, <3>1 DEF StatsMet, Met
    <3>2. CASE call = 2
      BY <1>0, <1>1, <2>1, <2>3, <3>2 DEF StatsMet, Met
    <3> QED BY <1>0, <3>1, <3>2
  <2>4. CASE QueryFails
    BY <1>2, <2>4
  <2> QED BY <1>4, <2>2, <2>3, <2>4 DEF SumShares, ReportMade
<1>5. CASE ReadBalances /\ QueryRuns
  <2>1. dpc = "balances" /\ call' = call /\ noShares' = noShares
    BY <1>5 DEF ReadBalances
  <2>2. CASE dpc' = "payments" /\ shown' = Shows(padZeros(balance))
    <3>1. shown'.kind = "none"
      BY <1>0, <2>1, <2>2 DEF Shows, Answers
    <3> QED BY <1>3, <1>5, <2>1, <2>2, <3>1 DEF StatsMet
  <2> QED BY <1>2, <1>5, <2>2 DEF ReadBalances
<1>6. CASE ReadPayments /\ QueryRuns
  <2>1. dpc = "payments" /\ call' = call /\ noShares' = noShares
    BY <1>6 DEF ReadPayments
  <2>2. CASE dpc' = "last" /\ shown' = shown
    BY <1>0, <1>3, <1>6, <2>1, <2>2 DEF StatsMet
  <2> QED BY <1>2, <1>6, <2>2 DEF ReadPayments
<1>7. CASE ReadLastUpdate /\ QueryRuns
  <2>1. dpc = "last" /\ call' = call /\ noShares' = noShares /\ failedQuery' = failedQuery
    BY <1>7 DEF ReadLastUpdate, QueryRuns
  <2>2. CASE StatsOf(miner) # {} /\ shown' = shown
    BY <1>0, <1>1, <2>1, <2>2 DEF StatsMet, Met
  <2>3. CASE StatsOf(miner) = {} /\ nilReport
    <3>1. dpc' = "done" /\ shown'.kind = (IF call = 1 THEN "empty" ELSE "panic")
      BY <1>0, <2>3, NilReport
    <3>2. call = 2 => failedQuery \/ noShares
      BY <2>1, <2>3 DEF StatsMet, Met
    <3> QED BY <1>0, <2>1, <3>1, <3>2 DEF StatsMet
  <2> QED BY <1>2, <1>7, <2>2, <2>3 DEF ReadLastUpdate, ReportMade
<1>8. CASE ReadStats /\ QueryRuns
  <2>1. dpc = "stats" /\ call' = call /\ noShares' = noShares
    BY <1>8 DEF ReadStats
  <2>2. ASSUME NEW read, dpc' = "seen",
               shown' = IF call = 1
                        THEN [shown EXCEPT !.partial = Partial(read), !.during = (spc # "sleep")]
                        ELSE shown
        PROVE  StatsMet'
    <3>1. shown'.kind = "none"
      BY <1>0, <2>1, <2>2 DEF Answers
    <3> QED BY <1>3, <1>8, <2>1, <2>2, <3>1 DEF StatsMet
  <2> QED BY <1>2, <1>8, <2>2 DEF ReadStats
<1>9. CASE ReadWorkersSeen /\ QueryRuns
  <2>1. dpc = "seen" /\ noShares' = noShares
    BY <1>9 DEF ReadWorkersSeen
  <2>2. CASE call' = 2 /\ dpc' = "sum" /\ shown' = shown
    BY <1>0, <1>3, <1>9, <2>1, <2>2 DEF StatsMet
  <2>3. CASE Answer("miner")
    <3>1. dpc' = "done" /\ shown'.kind = "miner"
      BY <1>0, <2>3 DEF Answer, Answers
    <3> QED BY <3>1 DEF StatsMet
  <2> QED BY <1>2, <1>9, <2>2, <2>3 DEF ReadWorkersSeen
<1>10. CASE ReadHistory /\ QueryRuns
  <2>1. CASE rows' = historyRows /\ HistoryAnswer(rows')
    <3>1. ASSUME NEW r \in rows' PROVE ~(HourOf(r.created) > HourOf(lastUpdate))
      <4>1. r.created \in Nat /\ lastUpdate \in Nat /\ r.created <= lastUpdate
            /\ Hour \in Nat \ {0}
        BY <2>1, <3>1, Moments, StatsAssumption, DashboardAssumption
           DEF historyRows, untilNow, StatsOf, Served, RequestTypes
      <4>2. \A a, b \in Nat, h \in Nat \ {0} : a <= b => a \div h <= b \div h
        BY SMT
      <4>3. \A a \in Nat, h \in Nat \ {0} : a \div h \in Nat
        BY SMT
      <4>4. HourOf(r.created) <= HourOf(lastUpdate) /\ HourOf(r.created) \in Nat
            /\ HourOf(lastUpdate) \in Nat
        BY <4>1, <4>2, <4>3 DEF HourOf
      <4> QED BY <4>4
    <3>2. dpc' = "done" /\ shown'.kind = "history"
      BY <1>0, <2>1, <3>1 DEF HistoryAnswer, Answers
    <3> QED BY <3>2 DEF StatsMet
  <2> QED BY <1>2, <1>10, <2>1 DEF ReadHistory
<1>11. QueryRuns \/ QueryFails
  BY DEF HandlerStep, Handler, SumShares, ReadBalances, ReadPayments, ReadLastUpdate, ReadStats,
         ReadWorkersSeen, ReadHistory, MinerLastPayments
<1> QED BY <1>2, <1>4, <1>5, <1>6, <1>7, <1>8, <1>9, <1>10, <1>11 DEF HandlerStep, Handler

LEMMA MetInductive ==
  ASSUME IStats, Served, StatsMet, [Next]_vars
  PROVE  StatsMet'
<1>0. minerstats \subseteq minerstats'
  BY StatsKept
<1>1. ASSUME UNCHANGED <<miner, call, shown, noShares, failedQuery>>,
             dpc' = dpc \/ dpc' \in {"idle", "done"}
      PROVE  StatsMet'
  BY <1>0, <1>1 DEF StatsMet, Met, StatsOf
<1>2. CASE StatsStep \/ UNCHANGED vars
  BY <1>1, <1>2 DEF StatsStep, vars, dashboardVars, requestVars
<1>3. CASE HandlerStep
  BY <1>3, HandlerMet
<1>4. CASE Environment
  <2>1. CASE Tick
    BY <1>1, <2>1 DEF Tick, dashboardVars, requestVars
  <2>2. CASE UNCHANGED dashboardVars
    BY <1>1, <2>2 DEF dashboardVars, requestVars
  <2>3. CASE BalanceChanges
    BY <1>1, <2>3 DEF BalanceChanges, requestVars
  <2>4. CASE Request
    <3>1. call' = 1
      BY <2>4, RequestStarts
    <3>2. CASE dpc' \in {"sum", "history"} /\ shown' = NoAnswer
      BY <3>1, <3>2, EmptyAnswers DEF StatsMet
    <3>3. CASE dpc' = "done" /\ shown'.kind \in {"empty", "pool"}
      BY <3>3 DEF StatsMet
    <3> QED BY <2>4, <3>2, <3>3, RequestStarts
  <2> QED BY <1>4, <2>1, <2>2, <2>3, <2>4 DEF Environment
<1>5. CASE Crash
  BY <1>1, <1>5 DEF Crash, RequestLost
<1> QED BY <1>2, <1>3, <1>4, <1>5 DEF Next

(* PanicExplained: minerWorkers (dashboard.go:66-68) never meets a nil      *)
(* report while every query works and the miner has shares, whatever        *)
(* passes, flushes and deletions run between the two reports; nor does a    *)
(* row of a later hour index the slots of a history.                        *)
THEOREM PanicExplainedHolds == Spec => []PanicExplained
<1>1. Init => StatsMet
  BY EmptyAnswers DEF Init, DashboardInit, StatsMet
<1>2. IStats /\ Served /\ StatsMet /\ [Next]_vars => StatsMet'
  BY MetInductive
<1>3. StatsMet => PanicExplained
  BY DEF StatsMet, PanicExplained
<1> QED BY <1>1, <1>2, <1>3, StatsHold, ServedHolds, PTL DEF Spec

(***************************************************************************)
(* The current hashrate                                                    *)
(***************************************************************************)
LEMMA HandlerRate ==
  ASSUME IStats, PassInserts, Served, PartialRateExplained, HandlerStep
  PROVE  PartialRateExplained'
<1>0. shown \in Answers /\ call \in {1, 2}
  BY DEF Served, RequestTypes
<1>f. faults \in Nat /\ faults' \in Nat /\ faults' >= faults
  <2>1. MaxFaults \in Nat /\ faults \in 0..MaxFaults
    BY StatsAssumption DEF IStats, TableTypes
  <2>2. faults' \in 0..MaxFaults /\ faults' >= faults
    BY <2>1, FaultsRise DEF Next
  <2> QED BY <2>1, <2>2
<1>k. ASSUME shown'.partial = shown.partial, shown'.during = shown.during
      PROVE  PartialRateExplained'
  BY <1>k, <1>f DEF PartialRateExplained
<1>u. ASSUME shown' = shown PROVE PartialRateExplained'
  BY <1>k, <1>u
<1>n. nilReport => PartialRateExplained'
  BY <1>0, <1>k, NilReport
<1>a. ASSUME NEW k \in Kinds, Answer(k) PROVE PartialRateExplained'
  BY <1>0, <1>a, <1>k, AnswerKind DEF Answer
<1>1. CASE SumShares
  BY <1>u, <1>1 DEF SumShares, ReportMade
<1>2. ASSUME NEW n, shown' = Shows(n) PROVE PartialRateExplained'
  <2>1. shown'.partial = shown.partial /\ shown'.during = shown.during
    BY <1>0, <1>2 DEF Shows, Answers
  <2> QED BY <1>k, <2>1
<1>3. CASE ReadBalances
  BY <1>u, <1>n, <1>2, <1>3 DEF ReadBalances
<1>4. CASE ReadPayments
  BY <1>u, <1>n, <1>2, <1>4 DEF ReadPayments
<1>5. CASE ReadLastUpdate
  BY <1>u, <1>n, <1>5 DEF ReadLastUpdate, ReportMade
<1>6. CASE ReadStats
  <2>1. CASE \E read \in SUBSET GetMinerStatsByCreatedTime :
               /\ IF read = GetMinerStatsByCreatedTime THEN QueryRuns ELSE QueryFails
               /\ shown' = IF call = 1
                           THEN [shown EXCEPT !.partial = Partial(read),
                                              !.during = (spc # "sleep")]
                           ELSE shown
    <3>1. PICK read \in SUBSET GetMinerStatsByCreatedTime :
               /\ IF read = GetMinerStatsByCreatedTime THEN QueryRuns ELSE QueryFails
               /\ shown' = IF call = 1
                           THEN [shown EXCEPT !.partial = Partial(read),
                                              !.during = (spc # "sleep")]
                           ELSE shown
      BY <2>1
    <3>2. CASE call = 1
      <4>1. shown'.partial = Partial(read) /\ shown'.during = (spc # "sleep")
        <5>1. Partial(read) \in BOOLEAN /\ (spc # "sleep") \in BOOLEAN
          BY DEF Partial
        <5> QED BY <1>0, <3>1, <3>2, <5>1 DEF Answers
      <4>2. ASSUME Partial(read), spc = "sleep", faults' = 0 PROVE FALSE
        <5>1. faults = 0 /\ read = GetMinerStatsByCreatedTime
          BY <1>f, <3>1, <4>2 DEF QueryFails, Charge
        <5>2. PICK w \in WorkersOf(miner) : \A r \in read : r.worker # w
          BY <4>2 DEF Partial
        <5>3. PICK r \in minerstats : r.worker = w /\ r.created = statNow
          BY <4>2, <5>1 DEF PassInserts, WorkersOf
        <5>4. r \in GetMinerStatsByCreatedTime
          BY <4>2, <5>3 DEF GetMinerStatsByCreatedTime, StatsOf, WorkersOf, Partial
        <5> QED BY <5>1, <5>2, <5>3, <5>4
      <4>3. Partial(read) => spc # "sleep" \/ faults' > 0
        BY <1>f, <4>2
      <4> QED BY <4>1, <4>3 DEF PartialRateExplained
    <3>3. CASE call = 2
      BY <1>u, <3>1, <3>3
    <3> QED BY <1>0, <3>2, <3>3
  <2> QED BY <1>6, <1>n, <2>1 DEF ReadStats
<1>7. CASE ReadWorkersSeen
  BY <1>u, <1>a, <1>7 DEF ReadWorkersSeen, Kinds
<1>8. CASE ReadHistory
  <2>1. CASE HistoryAnswer(rows')
    <3>1. shown = NoAnswer
      BY <1>8 DEF ReadHistory, Served
    <3>2. shown'.partial = shown.partial
      BY <1>0, <2>1 DEF HistoryAnswer, Answers
    <3> QED BY <3>1, <3>2, EmptyAnswers DEF PartialRateExplained
  <2> QED BY <1>8, <1>a, <2>1 DEF ReadHistory, Kinds
<1> QED BY <1>1, <1>3, <1>4, <1>5, <1>6, <1>7, <1>8 DEF HandlerStep, Handler

LEMMA RateInductive ==
  ASSUME IStats, PassInserts, Served, PartialRateExplained, [Next]_vars
  PROVE  PartialRateExplained'
<1>f. faults \in Nat /\ faults' \in Nat /\ faults' >= faults
  <2>1. MaxFaults \in Nat /\ faults \in 0..MaxFaults
    BY StatsAssumption DEF IStats, TableTypes
  <2>2. faults' \in 0..MaxFaults /\ faults' >= faults
    BY <2>1, FaultsRise
  <2> QED BY <2>1, <2>2
<1>1. ASSUME shown' = shown PROVE PartialRateExplained'
  BY <1>1, <1>f DEF PartialRateExplained
<1>2. CASE StatsStep \/ UNCHANGED vars
  BY <1>1, <1>2 DEF StatsStep, vars, dashboardVars, requestVars
<1>3. CASE HandlerStep
  BY <1>3, HandlerRate
<1>4. CASE Environment
  <2>1. CASE Tick \/ UNCHANGED dashboardVars \/ BalanceChanges
    BY <1>1, <2>1 DEF Tick, dashboardVars, BalanceChanges, requestVars
  <2>2. CASE Request
    BY <2>2, RequestStarts, EmptyAnswers DEF PartialRateExplained
  <2> QED BY <1>4, <2>1, <2>2 DEF Environment
<1>5. CASE Crash
  BY <1>1, <1>5 DEF Crash, RequestLost
<1> QED BY <1>2, <1>3, <1>4, <1>5 DEF Next

(* PassInserts holds in every state of the system.                          *)
THEOREM PassInsertsHolds == Spec => []PassInserts
<1>1. Init => PassInserts
  BY DEF Init, StatsInit, PassInserts, NoSums
<1>2. IStats /\ PassInserts /\ [Next]_vars => PassInserts'
  BY PassInductive
<1> QED BY <1>1, <1>2, StatsHold, PTL DEF Spec

(* PartialRateExplained: once makeMinerStats (stats.go:74-88) went to sleep *)
(* without an error the dashboard's current hashrate has every worker of    *)
(* the pass, however the requests and the passes interleave.                *)
THEOREM PartialRateExplainedHolds == Spec => []PartialRateExplained
<1>1. Init => PartialRateExplained
  BY EmptyAnswers DEF Init, DashboardInit, PartialRateExplained
<1>2. IStats /\ PassInserts /\ Served /\ PartialRateExplained /\ [Next]_vars
        => PartialRateExplained'
  BY RateInductive
<1> QED BY <1>1, <1>2, StatsHold, ServedHolds, PassInsertsHolds, PTL DEF Spec

(***************************************************************************)
(* The history                                                             *)
(***************************************************************************)
OfTheDay(r) == r.created < lastUpdate /\ r.created >= lastUpdate - Slots * Hour

(* A history read between two passes, in full, has every row of its hours,  *)
(* and a pass that starts later writes rows of later moments only.          *)
HistoryRead ==
  shown.kind = "history" /\ ~shown.during /\ ~failedQuery =>
    /\ spc # "sleep" => statNow >= lastUpdate
    /\ \A r \in StatsOf(miner) : OfTheDay(r) => r \in rows

LEMMA HandlerHistory ==
  ASSUME IStats, Served, HandlerStep
  PROVE  HistoryRead'
<1>0. shown \in Answers /\ call \in {1, 2}
      /\ (dpc \notin {"idle", "done"} => shown.kind = "none")
  BY DEF Served, RequestTypes
<1>k. ASSUME shown'.kind # "history" PROVE HistoryRead'
  BY <1>k DEF HistoryRead
<1>u. ASSUME dpc \notin {"idle", "done"}, shown' = shown PROVE HistoryRead'
  BY <1>0, <1>k, <1>u
<1>n. nilReport => HistoryRead'
  BY <1>0, <1>k, NilReport
<1>a. ASSUME NEW k \in Kinds \ {"history"}, Answer(k) PROVE HistoryRead'
  BY <1>0, <1>a, <1>k, AnswerKind DEF Answer
<1>1. CASE SumShares
  BY <1>u, <1>1 DEF SumShares, ReportMade
<1>2. ASSUME NEW n, dpc \notin {"idle", "done"}, shown' = Shows(n) PROVE HistoryRead'
  <2>1. shown'.kind = shown.kind
    BY <1>0, <1>2 DEF Shows, Answers
  <2> QED BY <1>0, <1>2, <1>k, <2>1
<1>3. CASE ReadBalances
  BY <1>u, <1>n, <1>2, <1>3 DEF ReadBalances
<1>4. CASE ReadPayments
  BY <1>u, <1>n, <1>2, <1>4 DEF ReadPayments
<1>5. CASE ReadLastUpdate
  BY <1>u, <1>n, <1>5 DEF ReadLastUpdate, ReportMade
<1>6. CASE ReadStats
  <2>1. ASSUME NEW read, shown' = IF call = 1
                                  THEN [shown EXCEPT !.partial = Partial(read),
                                                     !.during = (spc # "sleep")]
                                  ELSE shown
        PROVE  HistoryRead'
    <3>1. shown'.kind = shown.kind
      BY <1>0, <2>1 DEF Answers
    <3> QED BY <1>0, <1>6, <1>k, <3>1 DEF ReadStats
  <2> QED BY <1>6, <1>n, <2>1 DEF ReadStats
<1>7. CASE ReadWorkersSeen
  BY <1>u, <1>a, <1>7 DEF ReadWorkersSeen, Kinds
<1>8. CASE ReadHistory
  <2>0. ASSUME QueryFails PROVE HistoryRead'
    BY <2>0 DEF QueryFails, HistoryRead
  <2>1. CASE rows' = historyRows /\ HistoryAnswer(rows')
    <3>1. shown'.during = (spc # "sleep")
      BY <1>0, <2>1 DEF HistoryAnswer, Answers
    <3>2. UNCHANGED <<minerstats, miner, lastUpdate, spc, statNow>>
      BY <1>8 DEF HandlerStep, statsVars, ReadHistory
    <3>3. ASSUME NEW r \in StatsOf(miner), OfTheDay(r) PROVE r \in rows'
      <4>1. r.created \in Nat /\ lastUpdate \in Nat
        BY Moments, StatsAssumption DEF StatsOf, Served, RequestTypes
      <4>2. r.created <= lastUpdate
        BY <3>3, <4>1 DEF OfTheDay
      <4> QED BY <2>1, <3>3, <4>2 DEF historyRows, untilNow, OfTheDay
    <3> QED BY <3>1, <3>2, <3>3 DEF HistoryRead, StatsOf, OfTheDay
  <2> QED BY <1>8, <2>0, <2>1 DEF ReadHistory
<1> QED BY <1>1, <1>3, <1>4, <1>5, <1>6, <1>7, <1>8 DEF HandlerStep, Handler

LEMMA HistoryInductive ==
  ASSUME IStats, Served, HistoryRead, [Next]_vars
  PROVE  HistoryRead'
<1>0. now \in Nat /\ statNow \in Nat /\ lastUpdate \in Nat /\ lastUpdate <= now
  BY Moments, StatsAssumption DEF Served, RequestTypes
<1>1. ASSUME UNCHANGED <<spc, statNow, minerstats, miner, lastUpdate, rows, shown, failedQuery>>
      PROVE  HistoryRead'
  BY <1>1 DEF HistoryRead, StatsOf, OfTheDay
<1>2. CASE StatsStep
  <2>0. UNCHANGED <<miner, lastUpdate, rows, shown, failedQuery>>
    BY <1>2 DEF StatsStep, dashboardVars, requestVars
  <2>1. CASE StartPass
    <3>1. statNow' = now /\ minerstats' = minerstats
      BY <2>1 DEF StartPass
    <3> QED BY <1>0, <2>0, <3>1 DEF HistoryRead, StatsOf, OfTheDay
  <2>2. CASE ReadAccumulations \/ MakePoolStat \/ EndPass
    <3>1. statNow' = statNow /\ minerstats' = minerstats /\ spc # "sleep"
      BY <2>2 DEF ReadAccumulations, MakePoolStat, EndPass
    <3> QED BY <2>0, <3>1 DEF HistoryRead, StatsOf, OfTheDay
  <2>3. CASE InsertMinerStat
    <3>1. statNow' = statNow /\ spc' = spc /\ spc = "miners"
      BY <2>3 DEF InsertMinerStat
    <3>2. \A r \in minerstats' : r \in minerstats \/ r.created = statNow
      BY <2>3 DEF InsertMinerStat
    <3>3. ASSUME shown.kind = "history", ~shown.during, ~failedQuery,
                 NEW r \in StatsOf(miner)', OfTheDay(r)
          PROVE  r \in rows
      <4>1. CASE r.created = statNow
        <5>1. statNow >= lastUpdate
          BY <3>1, <3>3 DEF HistoryRead
        <5> QED BY <1>0, <3>3, <4>1, <5>1 DEF OfTheDay
      <4>2. CASE r \in minerstats
        BY <2>0, <3>3, <4>2 DEF HistoryRead, StatsOf
      <4> QED BY <3>2, <4>1, <4>2 DEF StatsOf
    <3> QED BY <2>0, <3>1, <3>3 DEF HistoryRead, OfTheDay
  <2> QED BY <1>2, <2>1, <2>2, <2>3 DEF StatsStep, StatsPass
<1>3. CASE HandlerStep
  BY <1>3, HandlerHistory
<1>4. CASE Environment
  <2>1. CASE Tick
    BY <1>1, <2>1 DEF Tick, statsVars, dashboardVars, requestVars
  <2>2. CASE UNCHANGED <<statsVars, dashboardVars>>
    BY <1>1, <2>2 DEF statsVars, dashboardVars, requestVars
  <2>3. CASE BalanceChanges /\ UNCHANGED statsVars
    BY <1>1, <2>3 DEF BalanceChanges, statsVars, requestVars
  <2>4. CASE Request
    BY <2>4, RequestStarts, EmptyAnswers DEF HistoryRead
  <2> QED BY <1>4, <2>1, <2>2, <2>3, <2>4 DEF Environment
<1>5. CASE Crash
  <2>1. /\ UNCHANGED <<statNow, minerstats, miner, lastUpdate, rows, shown, failedQuery>>
        /\ spc' = "sleep"
    BY <1>5 DEF Crash, PassLost, RequestLost
  <2> QED BY <2>1 DEF HistoryRead, StatsOf, OfTheDay
<1>6. CASE UNCHANGED vars
  BY <1>1, <1>6 DEF vars, statsVars, dashboardVars, requestVars
<1> QED BY <1>2, <1>3, <1>4, <1>5, <1>6 DEF Next

LEMMA MultipleMonotone == \A h \in Nat, a, b \in Int : a <= b => h * a <= h * b
  BY SMT

(* A moment less than Slots hours back is less than Slots * Hour back.      *)
LEMMA HoursSpan ==
  ASSUME NEW t \in Nat, NEW u \in Nat, t <= u
  PROVE  /\ HourOf(t) \in Nat /\ HourOf(u) \in Nat /\ HourOf(t) <= HourOf(u)
         /\ HourOf(u) - HourOf(t) < Slots => t >= u - Slots * Hour
<1>0. Hour \in Nat \ {0} /\ Slots \in Nat \ {0}
  BY DashboardAssumption
<1>1. \A a \in Nat, h \in Nat \ {0} :
        a \div h \in Nat /\ h * (a \div h) <= a /\ a < h * (a \div h) + h
  BY SMT
<1>2. \A a, b \in Nat, h \in Nat \ {0} : a <= b => a \div h <= b \div h
  BY SMT
<1> DEFINE p == HourOf(t)
           q == HourOf(u)
<1>3. p \in Nat /\ q \in Nat /\ p <= q /\ Hour * p <= t /\ u < Hour * q + Hour
  BY <1>0, <1>1, <1>2 DEF HourOf
<1> HIDE DEF p, q
<1>4. ASSUME q - p < Slots PROVE t >= u - Slots * Hour
  <2>1. q <= p + (Slots - 1) /\ Slots - 1 \in Int /\ p + (Slots - 1) \in Int
    BY <1>0, <1>3, <1>4
  <2>2. Hour * q <= Hour * (p + (Slots - 1))
    BY <1>0, <1>3, <2>1, MultipleMonotone
  <2>3. Hour * (p + (Slots - 1)) = Hour * p + Hour * (Slots - 1)
    BY <1>0, <1>3, <2>1, Distributes
  <2>4. Hour * (Slots + (-1)) = Hour * Slots + Hour * (-1)
    BY <1>0, Distributes
  <2>5. Hour * (-1) = -Hour /\ Slots + (-1) = Slots - 1 /\ Slots * Hour = Hour * Slots
    BY <1>0
  <2>6. Hour * q \in Int /\ Hour * p \in Int /\ Hour * Slots \in Int
    BY <1>0, <1>3, ProductInt
  <2>7. u < Hour * p + Hour * Slots
    BY <1>0, <1>3, <2>2, <2>3, <2>4, <2>5, <2>6
  <2> QED BY <1>0, <1>3, <2>5, <2>6, <2>7
<1> QED BY <1>3, <1>4 DEF p, q

(* HistoryComplete, for any length of an hour and any number of slots: the  *)
(* slots of api/miner.go:21-72 are consecutive hours up to the current one, *)
(* and, when no pass was at work and the query was answered in full, every  *)
(* row of these hours is in the slot of its hour.                           *)
THEOREM HistoryCompleteHolds == Spec => []HistoryComplete
<1>1. Init => HistoryRead
  BY EmptyAnswers DEF Init, DashboardInit, HistoryRead
<1>2. IStats /\ Served /\ HistoryRead /\ [Next]_vars => HistoryRead'
  BY HistoryInductive
<1>3. ASSUME IStats, Served, HistoryRead PROVE HistoryComplete
  <2>0. Slots \in Nat \ {0} /\ lastUpdate \in Nat /\ HourOf(lastUpdate) \in Nat
    <3>1. Slots \in Nat \ {0} /\ lastUpdate \in Nat
      BY <1>3, DashboardAssumption, StatsAssumption DEF Served, RequestTypes
    <3>2. lastUpdate <= lastUpdate
      BY <3>1
    <3> QED BY <3>1, <3>2, HoursSpan
  <2> DEFINE q == HourOf(lastUpdate)
  <2>1. \A k \in 1..Slots :
          /\ hourStats[k].created = q - (Slots - k)
          /\ hourStats[k].workers =
               {r.worker : r \in {x \in rows : q - HourOf(x.created) = Slots - k}}
    BY DEF hourStats, hoursAgo
  <2> HIDE DEF q
  <2>2. q \in Nat
    BY <2>0 DEF q
  <2>3. hourStats[Slots].created = q
    BY <2>0, <2>1, <2>2
  <2>4. \A k \in 1..(Slots - 1) : hourStats[k].created + 1 = hourStats[k + 1].created
    <3>1. ASSUME NEW k \in 1..(Slots - 1)
          PROVE  hourStats[k].created + 1 = hourStats[k + 1].created
      <4>1. k \in 1..Slots /\ k + 1 \in 1..Slots
        BY <2>0
      <4>2. /\ hourStats[k].created = q - (Slots - k)
            /\ hourStats[k + 1].created = q - (Slots - (k + 1))
        BY <2>1, <4>1
      <4> QED BY <2>0, <2>2, <4>1, <4>2
    <3> QED BY <3>1
  <2>5. ASSUME shown.kind = "history", ~shown.during, ~failedQuery,
               NEW r \in StatsOf(miner), r.created < lastUpdate, q - HourOf(r.created) < Slots
        PROVE  \E k \in 1..Slots : /\ hourStats[k].created = HourOf(r.created)
                                   /\ r.worker \in hourStats[k].workers
    <3>1. r.created \in Nat /\ r.created <= lastUpdate
      <4>1. r.created \in Nat
        BY <1>3, Moments DEF StatsOf
      <4> QED BY <2>0, <2>5, <4>1
    <3>2. /\ HourOf(r.created) \in Nat /\ HourOf(r.created) <= q
          /\ r.created >= lastUpdate - Slots * Hour
      BY <2>0, <2>5, <3>1, HoursSpan DEF q
    <3>3. r \in rows
      BY <1>3, <2>5, <3>2 DEF HistoryRead, OfTheDay
    <3> DEFINE k == Slots - (q - HourOf(r.created))
    <3>4. k \in 1..Slots /\ Slots - k = q - HourOf(r.created)
          /\ q - (Slots - k) = HourOf(r.created)
      BY <2>0, <2>2, <2>5, <3>2
    <3> HIDE DEF k
    <3>5. hourStats[k].created = HourOf(r.created)
      BY <2>1, <3>4
    <3>6. r.worker \in hourStats[k].workers
      BY <2>1, <3>3, <3>4
    <3> QED BY <3>4, <3>5, <3>6
  <2> QED BY <2>3, <2>4, <2>5 DEF HistoryComplete, q
<1> QED BY <1>1, <1>2, <1>3, StatsHold, ServedHolds, PTL DEF Spec
=============================================================================
