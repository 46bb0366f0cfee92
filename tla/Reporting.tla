------------------------------ MODULE Reporting ------------------------------
(***************************************************************************)
(* From a stored share to the dashboard: the statistics goroutine and HTTP *)
(* requests over the tables shares, minerstats, poolstats and balances,    *)
(* with failing statements and crashes of the process.                     *)
(***************************************************************************)
EXTENDS Dashboard

vars == <<now, faults, sharesVars, statsVars, dashboardVars>>

Init == StatsInit /\ DashboardInit

(* External: time passes.                                                   *)
Tick ==
  /\ \E t \in Instants : /\ t > now
                         /\ \A u \in Instants : u > now => t <= u
                         /\ now' = t
  /\ UNCHANGED <<faults, sharesVars, statsVars, dashboardVars>>

StatsStep == StatsPass /\ UNCHANGED <<now, dashboardVars>>
HandlerStep == Handler /\ UNCHANGED <<now, sharesVars, statsVars>>

Environment ==
  \/ Tick
  \/ (StoreShare \/ DeleteSharesBefore) /\ UNCHANGED <<now, statsVars, dashboardVars>>
  \/ (BalanceChanges \/ Request) /\ UNCHANGED <<now, sharesVars, statsVars>>

Crash ==
  /\ Charge(TRUE)
  /\ PassLost
  /\ RequestLost
  /\ UNCHANGED <<now, sharesVars>>

Next == StatsStep \/ HandlerStep \/ Environment \/ Crash

Spec == Init /\ [][Next]_vars

(***************************************************************************)
(* Types                                                                   *)
(***************************************************************************)
TableTypes ==
  /\ now \in Instants
  /\ faults \in 0..MaxFaults
  /\ stored \subseteq used /\ used \subseteq Submissions
  /\ \A s \in stored : created[s] \in Instants
  /\ \A r \in minerstats : r.worker \in Workers /\ r.created \in Instants /\ r.rate \in Nat

StatsTypes ==
  /\ spc \in {"sleep", "read", "pool", "miners"}
  /\ statNow \in Instants
  /\ DOMAIN sums \subseteq Workers
  /\ toInsert \subseteq DOMAIN sums

RequestTypes ==
  /\ balance \in Amounts \cup {NoRow}
  /\ dpc \in {"idle", "sum", "balances", "payments", "last", "stats", "seen", "history", "done"}
  /\ dpc \notin {"idle", "done"} => miner \in Miners
  /\ call \in {1, 2}
  /\ lastUpdate \in Instants
  /\ rows \subseteq minerstats
  /\ shown.kind \in {"none", "empty", "panic", "miner", "history", "pool"}

(* The variables of the goroutine, the request and the tables have     *)
(* their types; a report only holds rows that are in minerstats.            *)
TypeOK == TableTypes /\ StatsTypes /\ RequestTypes

(***************************************************************************)
(* Statistics                                                              *)
(***************************************************************************)
(* A miner's rate is taken over the time its shares span at the least, but  *)
(* for the part of a second that is cut off, and over a second at the       *)
(* least: short activity is not shown as a high rate (stats.go:94-114,      *)
(* 132-151).                                                                *)
RateNotInflated ==
  spc \in {"pool", "miners"} =>
    \A m \in MinersOf :
      /\ adjustHashWindow(m) >= Second
      /\ \A v, w \in WorkersOf(m) :
           sums[w].last - sums[v].first < adjustHashWindow(m) + Second

(***************************************************************************)
(* The dashboard                                                           *)
(***************************************************************************)
(* The balance shown is one the miner had while the request was served; a   *)
(* zero is shown instead only to a miner without a row, without shares (the *)
(* NULL of miner.go:142) or after a failed query.                           *)
ShownBalanceReal ==
  shown.kind = "miner" =>
    \/ shown.balance \in seen
    \/ shown.balance = 0 /\ (NoRow \in seen \/ noShares \/ failedQuery)

(* The handler panics only when one of its queries failed or when it met no *)
(* shares first: minerWorkers uses a report that GetMinerStatsReport, asked *)
(* for the second time, may return as nil (dashboard.go:66-68).             *)
PanicExplained == shown.kind = "panic" => failedQuery \/ noShares

(* A current hashrate lacks a worker of the pass it is taken from only when *)
(* that pass was still writing its rows or something failed                 *)
(* (stats.go:74-88, miner.go:242).                                          *)
PartialRateExplained == shown.partial => shown.during \/ faults > 0

(* A history has one slot per hour, the oldest first and the current hour   *)
(* last, and every row of minerstats of these hours is in the slot of its   *)
(* hour, unless a pass was at work or the query failed, whole or half way   *)
(* (api/miner.go:21-72, miner.go:281-296).                                  *)
HistoryComplete ==
  shown.kind = "history" =>
    /\ hourStats[Slots].created = HourOf(lastUpdate)
    /\ \A k \in 1..(Slots - 1) : hourStats[k].created + 1 = hourStats[k + 1].created
    /\ ~shown.during /\ ~failedQuery =>
         \A r \in StatsOf(miner) :
           r.created < lastUpdate /\ HourOf(lastUpdate) - HourOf(r.created) < Slots =>
             \E k \in 1..Slots : /\ hourStats[k].created = HourOf(r.created)
                                 /\ r.worker \in hourStats[k].workers
=============================================================================
