------------------------------ MODULE Stratum -------------------------------
(***************************************************************************)
(* The stratum server (pool/network.go, pool/responses.go, pool/server.go, *)
(* pool/nodes.go): the listener, one goroutine per connection and the      *)
(* goroutine that broadcasts work on a block notification.  They share the *)
(* session map, the work cache and the counter numberOfConnections without *)
(* a lock; the counter's ++ and -- are a read and a write.                 *)
(***************************************************************************)
EXTENDS Sessions

CONSTANTS
  MaxConnections, \* config.MaxConnections
  MaxWork         \* bound: generations of workCache

ASSUME StratumAssumption == MaxConnections \in Nat /\ MaxWork \in Nat \ {0}

VARIABLES
  conn,           \* [Clients -> where the connection's goroutine stands]
  numberOfConnections,
  listener,       \* where the listener stands
  listenerRead,   \* what its ++ has read
  clientRead,     \* [Clients -> what its -- has read]
  work,           \* generation of workCache
  fetched,        \* [Clients -> work read for the reply to mining.authorize]
  last,           \* [Clients -> work of the last mining.notify; NoWork: none]
  notifier,       \* where the notification goroutine stands
  sending,        \* the work it broadcasts
  toNotify,       \* keys the range over sessions has yet to visit
  present,        \* history: clients that had nothing pending when it began
  torn,           \* history: an update of the counter was lost
  crashed         \* the Go runtime stopped the process

connVars == <<conn, clientRead>>
countVars == <<numberOfConnections, listener, listenerRead, torn>>
workVars == <<work, notifier, sending, toNotify, present>>
vars == <<sessionVars, connVars, countVars, workVars, fetched, last, crashed>>

NoWork == 0

(* The goroutine of an open connection reads requests or answers one.       *)
Serving == {"open", "replying", "sending"}
(* A connection the operating system still holds.                           *)
Held == Serving \cup {"failing", "removed", "leaked"}
Connected == {c \in Clients : conn[c] \in Held}

Init ==
  /\ SessionsInit
  /\ conn = [c \in Clients |-> "unborn"]
  /\ clientRead = [c \in Clients |-> 0]
  /\ numberOfConnections = 0
  /\ listener = "accept"
  /\ listenerRead = 0
  /\ torn = FALSE
  /\ work = 1
  /\ fetched = [c \in Clients |-> NoWork]
  /\ last = [c \in Clients |-> NoWork]
  /\ notifier = "start"
  /\ sending = NoWork
  /\ toNotify = {}
  /\ present = {}
  /\ crashed = FALSE

Goes(c, from, to) == conn[c] = from /\ conn' = [conn EXCEPT ![c] = to]

(***************************************************************************)
(* listenForConnections                                                    *)
(***************************************************************************)
full_TooLate == numberOfConnections > MaxConnections + 1
full == numberOfConnections > MaxConnections

(* At the maximum the listener spins; an accepted connection gets its own   *)
(* goroutine before it is counted.                                          *)
Accept(c) ==
  /\ listener = "accept"
  /\ ~full
  /\ Goes(c, "unborn", "open")
  /\ listener' = "read"
  /\ UNCHANGED <<sessionVars, clientRead, numberOfConnections, listenerRead, torn, workVars,
                 fetched, last>>

CountRead ==
  /\ listener = "read"
  /\ listenerRead' = numberOfConnections
  /\ listener' = "write"
  /\ UNCHANGED <<sessionVars, connVars, numberOfConnections, torn, workVars, fetched, last>>

CountWrite ==
  /\ listener = "write"
  /\ numberOfConnections' = listenerRead + 1
  /\ torn' = (torn \/ listenerRead # numberOfConnections)
  /\ listener' = "accept"
  /\ listenerRead' = 0
  /\ UNCHANGED <<sessionVars, connVars, workVars, fetched, last>>

(***************************************************************************)
(* handleStratumConnection                                                 *)
(***************************************************************************)
Subscribe(c) ==
  /\ conn[c] = "open"
  /\ miningSubscribe(c)
  /\ UNCHANGED <<connVars, countVars, workVars, fetched, last>>

(* A range over a Go map may or may not visit a key added under way.        *)
Authorize(c) ==
  /\ Goes(c, "open", "replying")
  /\ addSession(c)
  /\ toNotify' \in IF notifier = "range" /\ sessions[sessionID(c)] = NoClient
                   THEN {toNotify, toNotify \cup {sessionID(c)}}
                   ELSE {toNotify}
  /\ present' = present \ {c}
  /\ UNCHANGED <<clientRead, countVars, work, notifier, sending, fetched, last>>

FetchWork(c) ==
  /\ Goes(c, "replying", "sending")
  /\ fetched' = [fetched EXCEPT ![c] = work]
  /\ UNCHANGED <<sessionVars, clientRead, countVars, workVars, last>>

SendWork(c) ==
  /\ Goes(c, "sending", "open")
  /\ last' = [last EXCEPT ![c] = fetched[c]]
  /\ fetched' = [fetched EXCEPT ![c] = NoWork]
  /\ UNCHANGED <<sessionVars, clientRead, countVars, workVars>>

(* The peer closes: EOF removes the session before the error is returned.   *)
Disconnect(c) ==
  /\ Goes(c, "open", "failing")
  /\ removeSession(c)
  /\ UNCHANGED <<clientRead, countVars, workVars, fetched, last>>

(* Any other error: a deadline, a malformed or unknown request, a login     *)
(* that is refused, a reply that cannot be sent, no work to send.           *)
Fail(c) ==
  /\ \E from \in Serving : Goes(c, from, "failing")
  /\ fetched' = [fetched EXCEPT ![c] = NoWork]
  /\ UNCHANGED <<sessionVars, clientRead, countVars, workVars, last>>

(* A request longer than the buffer: ReadLine's error is nil, so the        *)
(* goroutine ends and openNewConnection cleans nothing up.                  *)
Flood(c) ==
  /\ Goes(c, "open", "leaked")
  /\ removeSession(c)
  /\ UNCHANGED <<clientRead, countVars, workVars, fetched, last>>

(***************************************************************************)
(* openNewConnection, after an error                                       *)
(***************************************************************************)
afterRemove_Leaves == "leaked"
afterRemove == "removed"

RemoveSession(c) ==
  /\ Goes(c, "failing", afterRemove)
  /\ removeSession(c)
  /\ UNCHANGED <<clientRead, countVars, workVars, fetched, last>>

(* Close and the read of the counter.                                       *)
Close(c) ==
  /\ Goes(c, "removed", "closed")
  /\ clientRead' = [clientRead EXCEPT ![c] = numberOfConnections]
  /\ UNCHANGED <<sessionVars, countVars, workVars, fetched, last>>

Uncount(c) ==
  /\ Goes(c, "closed", "done")
  /\ numberOfConnections' = clientRead[c] - 1
  /\ torn' = (torn \/ clientRead[c] # numberOfConnections)
  /\ clientRead' = [clientRead EXCEPT ![c] = 0]
  /\ UNCHANGED <<sessionVars, listener, listenerRead, workVars, fetched, last>>

(***************************************************************************)
(* Start, listenForBlockNotifications and notifyAllSessions                *)
(***************************************************************************)
(* fetchRpcBlockTemplatesAndCacheWork fills the cache or logs its error.    *)
FetchTemplates ==
  /\ notifier = "idle"
  /\ work < MaxWork
  /\ work' \in {work, work + 1}
  /\ notifier' = "fetched"
  /\ UNCHANGED <<sessionVars, connVars, countVars, sending, toNotify, present, fetched, last>>

toVisit_First == IF \E i \in IDs : sessions[i] # NoClient
                 THEN {CHOOSE i \in IDs : sessions[i] # NoClient}
                 ELSE {}
toVisit == {i \in IDs : sessions[i] # NoClient}

(* broadcastWork: the range over the map begins.                            *)
broadcastWork(w) ==
  /\ notifier' = "range"
  /\ sending' = w
  /\ toNotify' = toVisit
  /\ present' = {c \in authorized : conn[c] = "open"}
  /\ UNCHANGED <<sessionVars, connVars, countVars, fetched, last>>

(* Start broadcasts its first work once the listener is running.            *)
BroadcastFirst ==
  /\ notifier = "start"
  /\ broadcastWork(work)
  /\ UNCHANGED work

(* generateWorkFromCache(true) fills the cache again; its error is logged   *)
(* and what it returned, nothing, is broadcast.                             *)
Broadcast ==
  /\ notifier = "fetched"
  /\ \/ work < MaxWork /\ work' = work + 1 /\ broadcastWork(work + 1)
     \/ work' = work /\ broadcastWork(NoWork)

(* An entry deleted under way is not visited; a packet to a closed          *)
(* connection is an error that is logged.                                   *)
NotifyOne ==
  /\ notifier = "range"
  /\ \E i \in toNotify :
       /\ toNotify' = toNotify \ {i}
       /\ last' = IF sessions[i] \in Connected
                  THEN [last EXCEPT ![sessions[i]] = sending]
                  ELSE last
  /\ UNCHANGED <<sessionVars, connVars, countVars, work, notifier, sending, present, fetched>>

BroadcastEnds ==
  /\ notifier = "range"
  /\ toNotify = {}
  /\ notifier' = "idle"
  /\ sending' = NoWork
  /\ present' = {}
  /\ UNCHANGED <<sessionVars, connVars, countVars, work, toNotify, fetched, last>>

(* Undefined behaviour: a write to the session map while it is ranged over, *)
(* or two at once, may stop the process ("concurrent map writes").          *)
MapWriters == {c \in Clients : conn[c] \in {"open", "failing"}}
ConcurrentMapAccess ==
  /\ \/ notifier = "range" /\ MapWriters # {}
     \/ Cardinality(MapWriters) > 1
  /\ crashed' = TRUE
  /\ UNCHANGED <<sessionVars, connVars, countVars, workVars, fetched, last>>

Cleanup(c) == RemoveSession(c) \/ Close(c) \/ Uncount(c)
Serve(c) ==
  \/ Subscribe(c) \/ Authorize(c) \/ FetchWork(c) \/ SendWork(c)
  \/ Disconnect(c) \/ Fail(c) \/ Flood(c) \/ Cleanup(c)
Listen == CountRead \/ CountWrite \/ \E c \in Clients : Accept(c)
Notify == BroadcastFirst \/ FetchTemplates \/ Broadcast \/ NotifyOne \/ BroadcastEnds

Next ==
  /\ ~crashed
  /\ \/ (Listen \/ Notify \/ \E c \in Clients : Serve(c)) /\ UNCHANGED crashed
     \/ ConcurrentMapAccess

(* A goroutine that has work to do proceeds; what clients send is up to     *)
(* them.                                                                    *)
Running(A) == ~crashed /\ A /\ UNCHANGED crashed
Spec ==
  /\ Init /\ [][Next]_vars
  /\ \A c \in Clients : WF_vars(Running(Cleanup(c)))
  /\ WF_vars(Running(NotifyOne \/ BroadcastEnds))

(***************************************************************************)
(* Properties                                                              *)
(***************************************************************************)
TypeOK ==
  /\ SessionsTypeOK
  /\ conn \in [Clients -> Held \cup {"unborn", "closed", "done"}]
  /\ clientRead \in [Clients -> Int]
  /\ numberOfConnections \in Int
  /\ listener \in {"accept", "read", "write"}
  /\ listenerRead \in Int
  /\ torn \in BOOLEAN
  /\ work \in 1..MaxWork
  /\ fetched \in [Clients -> 0..MaxWork]
  /\ last \in [Clients -> 0..MaxWork]
  /\ notifier \in {"start", "idle", "fetched", "range"}
  /\ sending \in 0..MaxWork
  /\ toNotify \subseteq IDs
  /\ present \subseteq Clients
  /\ crashed \in BOOLEAN

(* A client that subscribes once and then authorizes is in the session map  *)
(* as long as its connection is served, and in no entry of it once the      *)
(* connection is given up, whatever sessions without an ID the other        *)
(* clients open and close.                                                  *)
ProperClientsServed ==
  \A c \in Clients \ improper :
    /\ c \in authorized /\ conn[c] \in Serving => sessions[sessionID(c)] = c
    /\ conn[c] \in {"leaked", "removed", "closed", "done"} =>
         \A i \in IDs : sessions[i] # c

(* notifyAllSessions reaches every such client that was waiting for work    *)
(* when it began and is still served, though the map changes under way.     *)
BroadcastReachesAll ==
  notifier = "range" /\ toNotify = {} =>
    \A c \in present \ improper : conn[c] \in Serving => last[c] = sending

(* The listener stops accepting: unless an update of the counter was lost,  *)
(* at most one connection more than config.MaxConnections is open.          *)
LimitUnlessTorn == ~torn => Cardinality(Connected) <= MaxConnections + 1

(* A connection that fails is closed and uncounted in the end.              *)
FailedIsUncounted ==
  \A c \in Clients : conn[c] = "failing" ~> (conn[c] = "done" \/ crashed)
=============================================================================
