------------------------------ MODULE Dashboard ------------------------------
(***************************************************************************)
(* One request to the HTTP API (api/server.go): the dashboard of a miner   *)
(* (api/dashboard.go over MinerRepository.GetMinerStatsReport), its        *)
(* history of a day (api/miner.go) or the pool's page (api/pool.go).  A    *)
(* request is a series of queries without a transaction, made while shares *)
(* are flushed and deleted, statistics written and balances credited and   *)
(* paid.  Handlers share no state, so one request is enough; net/http ends *)
(* a request whose handler panics.                                         *)
(*                                                                         *)
(* Of the answer the model keeps the balance the miner is shown, the rows  *)
(* its hashrate is made of, and the slots of the history.                  *)
(***************************************************************************)
EXTENDS Stats

CONSTANTS
  StatWindow,   \* minerStatWindow, in ticks
  Hour,         \* ticks of an hour
  Slots,        \* hours of a history
  Amounts       \* external: what a row of balances can hold

ASSUME DashboardAssumption ==
  /\ StatWindow \in Nat
  /\ Hour \in Nat \ {0}
  /\ Slots \in Nat \ {0}
  /\ Amounts \subseteq Nat /\ 0 \in Amounts

VARIABLES
  balance,      \* external, table balances: the row of the miner asked about
  dpc,          \* where the handler stands
  miner,        \* minerId
  call,         \* which of the two calls of GetMinerStatsReport runs
  lastUpdate,   \* lastUpdate, or now of a history
  rows,         \* report.Workers: the rows read of minerstats
  shown,        \* the answer
  seen,         \* history: what balance was since the request
  noShares,     \* history: the first report met no shares
  failedQuery   \* history: a query of the request failed

requestVars == <<dpc, miner, call, lastUpdate, rows, shown, noShares, failedQuery>>
dashboardVars == <<balance, requestVars, seen>>

NoRow == -1

NoAnswer == [kind |-> "none", balance |-> 0, partial |-> FALSE, during |-> FALSE]

SharesOf(m) == {s \in stored : MinerOf[WorkerOf[s]] = m}
StatsOf(m) == {r \in minerstats : MinerOf[r.worker] = m}

(* External: the payout service credits the miner or pays it out while the  *)
(* request is served; what it does once the balances are read no answer     *)
(* depends on.                                                              *)
BalanceChanges ==
  /\ dpc \in {"sum", "balances"}
  /\ call = 1
  /\ balance' \in Amounts \ {balance}
  /\ seen' = seen \cup {balance'}
  /\ UNCHANGED <<faults, requestVars>>

Answer(kind) ==
  /\ shown' = [shown EXCEPT !.kind = kind]
  /\ dpc' = "done"

(* A handler starts with variables of its own.                              *)
NewRequest ==
  /\ dpc \in {"idle", "done"}
  /\ call' = 1
  /\ rows' = {}
  /\ seen' = {balance}
  /\ noShares' = FALSE
  /\ UNCHANGED balance

(* GET /miner for a miner, or without one: the answer is an empty map.      *)
RequestDashboard ==
  /\ NewRequest
  /\ \/ \E m \in Miners : /\ miner' = m
                          /\ dpc' = "sum"
                          /\ shown' = NoAnswer
     \/ /\ miner' = ""
        /\ dpc' = "done"
        /\ shown' = [NoAnswer EXCEPT !.kind = "empty"]
  /\ lastUpdate' = 0
  /\ failedQuery' = FALSE
  /\ UNCHANGED faults

(* GetMinerStatsReport has a report, or returns nil: getDashboardStats then *)
(* answers with nothing, minerWorkers uses it all the same.                 *)
ReportMade == dpc' = "seen" /\ shown' = shown

nilReport == IF call = 1 THEN Answer("empty") ELSE Answer("panic")

QueryFails == Charge(TRUE) /\ failedQuery' = TRUE
QueryRuns == faults' = faults /\ failedQuery' = failedQuery

(* SUM(difficulty) is NULL without shares, which does not scan into a       *)
(* number: like a failed query it returns the report as it is, without      *)
(* accounts and workers, and the error.                                     *)
SumShares ==
  /\ dpc = "sum"
  /\ \/ /\ QueryRuns
        /\ SharesOf(miner) # {}
        /\ dpc' = "balances"
        /\ UNCHANGED <<shown, noShares>>
     \/ /\ QueryRuns
        /\ SharesOf(miner) = {}
        /\ noShares' = (noShares \/ call = 1)
        /\ ReportMade
     \/ QueryFails /\ ReportMade /\ UNCHANGED noShares
  /\ rows' = {}
  /\ UNCHANGED <<balance, miner, call, lastUpdate, seen>>

(* A chain without an account is shown with a zero.                         *)
padZeros_Overwrites(amount) == 0
padZeros(amount) == IF amount = NoRow THEN 0 ELSE amount

Shows(amount) == IF call = 1 THEN [shown EXCEPT !.balance = amount] ELSE shown

(* The balances.  A list that is cut short lacks the chain, a row that does *)
(* not scan returns the report without accounts.                            *)
ReadBalances ==
  /\ dpc = "balances"
  /\ \/ QueryRuns /\ dpc' = "payments" /\ shown' = Shows(padZeros(balance))
     \/ QueryFails /\ dpc' \in {"payments", "seen"} /\ shown' = shown
     \/ QueryFails /\ nilReport
  /\ UNCHANGED <<balance, miner, call, lastUpdate, rows, seen, noShares>>

(* A last payment that cannot be queried is taken for none.                 *)
MinerLastPayments == QueryRuns \/ QueryFails

(* What was paid in all, today and last.  Its amounts are in no answer, but *)
(* the report gets its accounts, balances included, only after them.        *)
ReadPayments ==
  /\ dpc = "payments"
  /\ \/ MinerLastPayments /\ dpc' = "last" /\ shown' = shown
     \/ QueryFails /\ dpc' = "seen" /\ shown' = Shows(0)
     \/ QueryFails /\ nilReport
  /\ UNCHANGED <<balance, miner, call, lastUpdate, rows, seen, noShares>>

(* LastStatUpdate: the newest row; without one Scan's ErrNoRows is an error *)
(* like any other.  A row older than minerStatWindow is ignored.            *)
isStale(t) == t < now - StatWindow

ReadLastUpdate ==
  /\ dpc = "last"
  /\ \/ /\ QueryRuns
        /\ StatsOf(miner) # {}
        /\ lastUpdate' = Max({r.created : r \in StatsOf(miner)})
        /\ IF isStale(lastUpdate') THEN ReportMade ELSE dpc' = "stats" /\ shown' = shown
     \/ /\ QueryRuns
        /\ StatsOf(miner) = {}
        /\ lastUpdate' = lastUpdate
        /\ nilReport
     \/ QueryFails /\ nilReport /\ lastUpdate' = lastUpdate
  /\ UNCHANGED <<balance, miner, call, rows, seen, noShares>>

(* The rows of the pass the report is from that are missing in it.          *)
Partial(read) ==
  /\ lastUpdate = statNow
  /\ \E w \in WorkersOf(miner) : \A r \in read : r.worker # w

GetMinerStatsByCreatedTime == {r \in StatsOf(miner) : r.created = lastUpdate}

(* What is there of that moment's rows, or some of it when the connection   *)
(* is lost.  The first report's are the current hashrate.                   *)
ReadStats ==
  /\ dpc = "stats"
  /\ \/ \E read \in SUBSET GetMinerStatsByCreatedTime :
          /\ IF read = GetMinerStatsByCreatedTime THEN QueryRuns ELSE QueryFails
          /\ rows' = read
          /\ dpc' = "seen"
          /\ shown' = IF call = 1
                      THEN [shown EXCEPT !.partial = Partial(read), !.during = (spc # "sleep")]
                      ELSE shown
     \/ QueryFails /\ nilReport /\ rows' = rows
  /\ UNCHANGED <<balance, miner, call, lastUpdate, seen, noShares>>

(* GetWorkersLastSeen, after the first report for the counts and after the  *)
(* second for the list.  A failed query leaves nil rows, whose Close        *)
(* panics.                                                                  *)
ReadWorkersSeen ==
  /\ dpc = "seen"
  /\ \/ /\ QueryRuns
        /\ IF call = 1
           THEN call' = 2 /\ dpc' = "sum" /\ shown' = shown
           ELSE call' = call /\ Answer("miner")
     \/ QueryFails /\ Answer("panic") /\ call' = call
  /\ UNCHANGED <<balance, miner, lastUpdate, rows, seen, noShares>>

HourOf(t) == t \div Hour

(* GET /miner-history: both ends of the day are read before the query, now  *)
(* is cut to the hour after it.                                             *)
historyEnd_Truncated == Hour * HourOf(now)
historyEnd == now

RequestHistory ==
  /\ NewRequest
  /\ miner' \in Miners
  /\ lastUpdate' = historyEnd
  /\ dpc' = "history"
  /\ shown' = NoAnswer
  /\ failedQuery' = FALSE
  /\ UNCHANGED faults

(* GetMinerHourlyAveragesBetween.                                           *)
untilNow_Unbounded(t) == TRUE
untilNow(t) == t <= lastUpdate

(* A row of a later hour would index the slots below zero.                  *)
HistoryAnswer(read) ==
  /\ shown' = [shown EXCEPT !.during = (spc # "sleep"),
                            !.kind = IF \E r \in read : HourOf(r.created) > HourOf(lastUpdate)
                                     THEN "panic" ELSE "history"]
  /\ dpc' = "done"

historyRows ==
  {r \in StatsOf(miner) : r.created >= lastUpdate - Slots * Hour /\ untilNow(r.created)}

(* Averages come hour by hour, in an hour by the workers' names.            *)
historyUpTo(hour, workers) ==
  {r \in historyRows : \/ HourOf(r.created) < hour
                       \/ HourOf(r.created) = hour /\ r.worker \in workers}

(* What was read is answered, also when an average does not scan (the error *)
(* is only logged) or the connection is lost (rows.Err is not asked).       *)
ReadHistory ==
  /\ dpc = "history"
  /\ \/ QueryRuns /\ rows' = historyRows /\ HistoryAnswer(rows')
     \/ /\ QueryFails
        /\ \E last \in historyRows, workers \in SUBSET Workers :
             rows' = historyUpTo(HourOf(last.created), workers)
        /\ HistoryAnswer(rows')
     \/ QueryFails /\ Answer("empty") /\ rows' = rows
  /\ UNCHANGED <<balance, miner, call, lastUpdate, seen, noShares>>

(* The slots of the answer, the oldest first: first every hour without      *)
(* rates, then the averages at their distance from the current hour.        *)
hoursAgo_NotReversed(k) == k - 1
hoursAgo(k) == Slots - k

hourStats ==
  [k \in 1..Slots |->
     LET i == hoursAgo(k)
     IN  [created |-> HourOf(lastUpdate) - i,
          workers |-> {r.worker : r \in {x \in rows :
                                           HourOf(lastUpdate) - HourOf(x.created) = i}}]]

(* GET /pool: the newest row of poolstats, zeros when there is none or the  *)
(* query fails.                                                             *)
RequestPool ==
  /\ NewRequest
  /\ \/ Charge(FALSE) /\ failedQuery' = FALSE
     \/ Charge(TRUE) /\ failedQuery' = TRUE
  /\ miner' = ""
  /\ lastUpdate' = 0
  /\ dpc' = "done"
  /\ shown' = [NoAnswer EXCEPT !.kind = "pool"]

Handler ==
  \/ SumShares \/ ReadBalances \/ ReadPayments \/ ReadLastUpdate \/ ReadStats
  \/ ReadWorkersSeen \/ ReadHistory

Request == RequestDashboard \/ RequestHistory \/ RequestPool

(* A crash of the process ends the request without an answer.               *)
RequestLost ==
  /\ dpc' = IF dpc = "idle" THEN "idle" ELSE "done"
  /\ UNCHANGED <<balance, miner, call, lastUpdate, rows, shown, seen, noShares,
                 failedQuery>>

DashboardInit ==
  /\ balance \in Amounts \cup {NoRow}
  /\ dpc = "idle"
  /\ miner = ""
  /\ call = 1
  /\ lastUpdate = 0
  /\ rows = {}
  /\ shown = NoAnswer
  /\ seen = {}
  /\ noShares = FALSE
  /\ failedQuery = FALSE
=============================================================================
