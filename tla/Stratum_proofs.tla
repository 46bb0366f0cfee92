--------------------------- MODULE Stratum_proofs ---------------------------
(***************************************************************************)
(* The stratum server, for any number of clients and subscriptions.        *)
(***************************************************************************)
EXTENDS Stratum, FiniteSetTheorems, TLAPS

(* A session ID is a key of the map.                                        *)
LEMMA sessionIDType ==
  ASSUME subs \in [Clients -> 0..MaxSubscribes], NEW c \in Clients
  PROVE  sessionID(c) \in IDs
<1>1. CASE subs[c] = 0
  BY <1>1 DEF sessionID, IDs
<1>2. CASE subs[c] # 0
  BY <1>2, SessionsAssumption DEF sessionID, IDs
<1> QED
  BY <1>1, <1>2

(* initiateSessions leaves an empty map and Start the first work.           *)
LEMMA InitTyped == Init => TypeOK
<1> SUFFICES ASSUME Init PROVE TypeOK
  OBVIOUS
<1>1. SessionsTypeOK
  BY SessionsAssumption DEF Init, SessionsInit, SessionsTypeOK
<1>2. /\ conn \in [Clients -> Held \cup {"unborn", "closed", "done"}]
      /\ clientRead \in [Clients -> Int]
      /\ numberOfConnections \in Int /\ listenerRead \in Int
      /\ listener \in {"accept", "read", "write"}
  BY DEF Init
<1>3. /\ work \in 1..MaxWork /\ sending \in 0..MaxWork
      /\ fetched \in [Clients -> 0..MaxWork] /\ last \in [Clients -> 0..MaxWork]
  BY StratumAssumption DEF Init, NoWork
<1>4. /\ notifier \in {"start", "idle", "fetched", "range"}
      /\ toNotify \subseteq IDs /\ present \subseteq Clients
  BY DEF Init
<1>5. torn \in BOOLEAN /\ crashed \in BOOLEAN
  BY DEF Init
<1> QED
  BY <1>1, <1>2, <1>3, <1>4, <1>5 DEF TypeOK

(* The types of the session map, and of everything else, one part each.     *)
ConnTyped ==
  /\ conn \in [Clients -> Held \cup {"unborn", "closed", "done"}]
  /\ clientRead \in [Clients -> Int]
  /\ numberOfConnections \in Int
  /\ listener \in {"accept", "read", "write"}
  /\ listenerRead \in Int

FlagsTyped == torn \in BOOLEAN /\ crashed \in BOOLEAN

WorkTyped ==
  /\ work \in 1..MaxWork
  /\ fetched \in [Clients -> 0..MaxWork]
  /\ last \in [Clients -> 0..MaxWork]
  /\ notifier \in {"start", "idle", "fetched", "range"}
  /\ sending \in 0..MaxWork
  /\ toNotify \subseteq IDs
  /\ present \subseteq Clients

(* The type invariant is the conjunction of its four parts.                 *)
LEMMA TypeParts == TypeOK <=> SessionsTypeOK /\ ConnTyped /\ FlagsTyped /\ WorkTyped
BY DEF TypeOK, ConnTyped, FlagsTyped, WorkTyped

(* addSession and removeSession write clients, or nobody, under IDs.        *)
LEMMA SessionsTyped == TypeOK /\ [Next]_vars => SessionsTypeOK'
<1> SUFFICES ASSUME TypeOK, [Next]_vars PROVE SessionsTypeOK'
  OBVIOUS
<1>t. SessionsTypeOK
  BY DEF TypeOK
<1>1. CASE UNCHANGED sessionVars
  BY <1>1, <1>t DEF sessionVars, SessionsTypeOK
<1>2. ASSUME NEW c \in Clients, miningSubscribe(c) PROVE SessionsTypeOK'
  BY <1>2, <1>t, SessionsAssumption DEF miningSubscribe, SessionsTypeOK
<1>3. ASSUME NEW c \in Clients, addSession(c) PROVE SessionsTypeOK'
  BY <1>3, <1>t, sessionIDType DEF addSession, SessionsTypeOK
<1>4. ASSUME NEW c \in Clients, removeSession(c) PROVE SessionsTypeOK'
  BY <1>4, <1>t, sessionIDType DEF removeSession, removed, SessionsTypeOK
<1>5. ASSUME NEW c \in Clients, Serve(c) PROVE SessionsTypeOK'
  BY <1>5, <1>1, <1>2, <1>3, <1>4 DEF Serve, Cleanup, Subscribe, Authorize, FetchWork, SendWork,
     Disconnect, Fail, Flood, RemoveSession, Close, Uncount
<1>6. CASE Listen
  BY <1>6, <1>1 DEF Listen, Accept, CountRead, CountWrite
<1>7. CASE Notify
  BY <1>7, <1>1 DEF Notify, BroadcastFirst, FetchTemplates, Broadcast, broadcastWork, NotifyOne, BroadcastEnds
<1>8. CASE ConcurrentMapAccess
  BY <1>8, <1>1 DEF ConcurrentMapAccess
<1>9. CASE UNCHANGED vars
  BY <1>9, <1>1 DEF vars
<1> QED
  BY <1>5, <1>6, <1>7, <1>8, <1>9 DEF Next

(* Connections move between known places; the counter stays an integer.     *)
LEMMA ConnStepTyped == TypeOK /\ [Next]_vars => ConnTyped'
<1> SUFFICES ASSUME TypeOK, [Next]_vars PROVE ConnTyped'
  OBVIOUS
<1>t. ConnTyped
  BY TypeParts
<1>g. ASSUME NEW c \in Clients, NEW from, NEW to \in Held \cup {"unborn", "closed", "done"},
             Goes(c, from, to)
      PROVE  conn' \in [Clients -> Held \cup {"unborn", "closed", "done"}]
  BY <1>g, <1>t DEF Goes, ConnTyped
<1> USE DEF Held, Serving
<1>1. ASSUME NEW c \in Clients, Serve(c) PROVE ConnTyped'
  <2>1. CASE Subscribe(c)
    BY <2>1, <1>t DEF Subscribe, ConnTyped, connVars, countVars
  <2>2. CASE Authorize(c) \/ FetchWork(c) \/ SendWork(c) \/ Disconnect(c) \/ Flood(c)
             \/ RemoveSession(c)
    <3>1. conn' \in [Clients -> Held \cup {"unborn", "closed", "done"}]
      BY <2>2, <1>g DEF Authorize, FetchWork, SendWork, Disconnect, Flood, RemoveSession,
         afterRemove
    <3>2. UNCHANGED <<clientRead, numberOfConnections, listener, listenerRead>>
      BY <2>2 DEF Authorize, FetchWork, SendWork, Disconnect, Flood, RemoveSession, countVars
    <3> QED
      BY <3>1, <3>2, <1>t DEF ConnTyped
  <2>3. CASE Fail(c)
    <3>1. conn' \in [Clients -> Held \cup {"unborn", "closed", "done"}]
      BY <2>3, <1>g DEF Fail
    <3> QED
      BY <2>3, <3>1, <1>t DEF Fail, ConnTyped, countVars
  <2>4. CASE Close(c)
    <3>1. conn' \in [Clients -> Held \cup {"unborn", "closed", "done"}]
      BY <2>4, <1>g DEF Close
    <3> QED
      BY <2>4, <3>1, <1>t DEF Close, ConnTyped, countVars
  <2>5. CASE Uncount(c)
    <3>1. conn' \in [Clients -> Held \cup {"unborn", "closed", "done"}]
      BY <2>5, <1>g DEF Uncount
    <3> QED
      BY <2>5, <3>1, <1>t DEF Uncount, ConnTyped
  <2> QED
    BY <1>1, <2>1, <2>2, <2>3, <2>4, <2>5 DEF Serve, Cleanup
<1>2. ASSUME NEW c \in Clients, Accept(c) PROVE ConnTyped'
  <2>1. conn' \in [Clients -> Held \cup {"unborn", "closed", "done"}]
    BY <1>2, <1>g DEF Accept
  <2> QED
    BY <1>2, <2>1, <1>t DEF Accept, ConnTyped
<1>3. CASE CountRead \/ CountWrite
  BY <1>3, <1>t DEF CountRead, CountWrite, ConnTyped, connVars
<1>4. CASE Notify
  BY <1>4, <1>t DEF Notify, BroadcastFirst, FetchTemplates, Broadcast, broadcastWork, NotifyOne, BroadcastEnds, ConnTyped,
     connVars, countVars
<1>5. CASE ConcurrentMapAccess
  BY <1>5, <1>t DEF ConcurrentMapAccess, ConnTyped, connVars, countVars
<1>6. CASE UNCHANGED vars
  BY <1>6, <1>t DEF vars, ConnTyped, connVars, countVars
<1> QED
  BY <1>1, <1>2, <1>3, <1>4, <1>5, <1>6 DEF Next, Listen

(* The two history flags stay Boolean.                                      *)
LEMMA FlagsStepTyped == TypeOK /\ [Next]_vars => FlagsTyped'
<1> SUFFICES ASSUME TypeOK, [Next]_vars PROVE FlagsTyped'
  OBVIOUS
<1>t. FlagsTyped
  BY TypeParts
<1>1. crashed' \in BOOLEAN
  BY <1>t DEF Next, ConcurrentMapAccess, vars, FlagsTyped
<1>2. ASSUME NEW c \in Clients, Serve(c) \/ Accept(c) PROVE torn' \in BOOLEAN
  BY <1>2, <1>t DEF Serve, Cleanup, Subscribe, Authorize, FetchWork, SendWork, Disconnect, Fail,
     Flood, RemoveSession, Close, Uncount, Accept, countVars, FlagsTyped
<1>3. CASE CountRead \/ CountWrite
  BY <1>1, <1>3, <1>t DEF CountRead, CountWrite, FlagsTyped
<1>4. CASE Notify \/ ConcurrentMapAccess
  BY <1>1, <1>4, <1>t DEF Notify, BroadcastFirst, FetchTemplates, Broadcast, broadcastWork, NotifyOne, BroadcastEnds,
     ConcurrentMapAccess, countVars, FlagsTyped
<1>5. CASE UNCHANGED vars
  BY <1>1, <1>5, <1>t DEF vars, countVars, FlagsTyped
<1> QED
  BY <1>1, <1>2, <1>3, <1>4, <1>5 DEF Next, Listen, FlagsTyped

(* The work sent to clients is always a generation of workCache or none.    *)
LEMMA WorkStepTyped == TypeOK /\ [Next]_vars => WorkTyped'
<1> SUFFICES ASSUME TypeOK, [Next]_vars PROVE WorkTyped'
  OBVIOUS
<1>t. WorkTyped /\ SessionsTypeOK
  BY TypeParts
<1> USE StratumAssumption DEF NoWork
<1>1. CASE UNCHANGED <<workVars, fetched, last>>
  BY <1>1, <1>t DEF workVars, WorkTyped
<1>2. ASSUME NEW c \in Clients, Authorize(c) PROVE WorkTyped'
  <2>1. sessionID(c) \in IDs
    BY <1>t, sessionIDType DEF SessionsTypeOK
  <2>2. toNotify' \subseteq IDs
    BY <1>2, <2>1, <1>t DEF Authorize, WorkTyped
  <2> QED
    BY <1>2, <2>2, <1>t DEF Authorize, WorkTyped
<1>3. ASSUME NEW c \in Clients, FetchWork(c) \/ SendWork(c) \/ Fail(c) PROVE WorkTyped'
  BY <1>3, <1>t DEF FetchWork, SendWork, Fail, WorkTyped, workVars
<1>4. CASE FetchTemplates
  BY <1>4, <1>t DEF FetchTemplates, WorkTyped
<1>5. CASE BroadcastFirst \/ Broadcast
  <2>1. toNotify' \subseteq IDs /\ present' \subseteq Clients
    BY <1>5, <1>t DEF BroadcastFirst, Broadcast, broadcastWork, toVisit, SessionsTypeOK
  <2>2. work' \in 1..MaxWork /\ sending' \in 0..MaxWork
    BY <1>5, <1>t DEF BroadcastFirst, Broadcast, broadcastWork, WorkTyped
  <2> QED
    BY <1>5, <2>1, <2>2, <1>t DEF BroadcastFirst, Broadcast, broadcastWork, WorkTyped
<1>6. CASE NotifyOne
  <2>1. PICK i \in toNotify :
          /\ toNotify' = toNotify \ {i}
          /\ last' = IF sessions[i] \in Connected
                     THEN [last EXCEPT ![sessions[i]] = sending]
                     ELSE last
    BY <1>6 DEF NotifyOne
  <2>2. last' \in [Clients -> 0..MaxWork]
    BY <2>1, <1>t DEF WorkTyped
  <2>3. toNotify' \subseteq IDs
    BY <2>1, <1>t DEF WorkTyped
  <2> QED
    BY <1>6, <2>2, <2>3, <1>t DEF NotifyOne, WorkTyped
<1>7. CASE BroadcastEnds
  BY <1>7, <1>t DEF BroadcastEnds, WorkTyped
<1>8. ASSUME NEW c \in Clients, Serve(c) PROVE WorkTyped'
  BY <1>8, <1>1, <1>2, <1>3 DEF Serve, Cleanup, Subscribe, Disconnect, Flood, RemoveSession,
     Close, Uncount
<1>9. CASE Listen
  BY <1>9, <1>1 DEF Listen, Accept, CountRead, CountWrite
<1>10. CASE ConcurrentMapAccess
  BY <1>10, <1>1 DEF ConcurrentMapAccess
<1>11. CASE UNCHANGED vars
  BY <1>11, <1>1 DEF vars
<1> QED
  BY <1>4, <1>5, <1>6, <1>7, <1>8, <1>9, <1>10, <1>11 DEF Next, Notify

(* The type invariant: keys, clients and generations of work stay in range. *)
THEOREM Typing == Spec => []TypeOK
<1>1. TypeOK /\ [Next]_vars => TypeOK'
  BY SessionsTyped, ConnStepTyped, FlagsStepTyped, WorkStepTyped, TypeParts, PTL
<1> QED
  BY <1>1, InitTyped, PTL DEF Spec

(* What keeps a proper client's entry its own: the keys <<d, k>> hold d or  *)
(* nobody, a proper client is never under the key all clients share, and it *)
(* is under no key but its own.                                             *)
KeysOwned ==
  /\ \A d \in Clients : \A k \in 1..MaxSubscribes : sessions[<<d, k>>] \in {d, NoClient}
  /\ \A c \in authorized \ improper : subs[c] # 0
  /\ \A c \in Clients \ improper : \A i \in IDs :
       sessions[i] = c => i = sessionID(c) /\ c \in authorized

(* Nobody logs in before the connection is accepted.                        *)
UnbornOut == \A c \in Clients : conn[c] = "unborn" => c \notin authorized

(* The session ID of a client that has subscribed is its own.               *)
LEMMA OwnID ==
  ASSUME SessionsTypeOK, NEW c \in Clients, subs[c] # 0
  PROVE  /\ sessionID(c) = <<c, subs[c]>> /\ subs[c] \in 1..MaxSubscribes
         /\ \A d \in Clients : sessionID(d) = sessionID(c) => d = c
<1>1. sessionID(c) = <<c, subs[c]>> /\ subs[c] \in 1..MaxSubscribes
  BY SessionsAssumption DEF sessionID, SessionsTypeOK
<1>2. ASSUME NEW d \in Clients, sessionID(d) = sessionID(c) PROVE d = c
  <2>1. CASE subs[d] = 0
    BY <1>1, <1>2, <2>1, SessionsAssumption DEF sessionID, EmptyID
  <2>2. CASE subs[d] # 0
    BY <1>1, <1>2, <2>2 DEF sessionID
  <2> QED
    BY <2>1, <2>2
<1> QED
  BY <1>1, <1>2

(* A change of the map under the session ID of one client, to that client   *)
(* or to nobody, leaves the entries of all proper clients their own.        *)
LEMMA EntryOwned ==
  ASSUME SessionsTypeOK, KeysOwned, NEW d \in Clients, NEW v \in {d, NoClient},
         sessions' = [sessions EXCEPT ![sessionID(d)] = v], subs' = subs,
         v = d => d \in authorized' /\ (subs[d] = 0 => d \in improper'),
         improper \subseteq improper', authorized \subseteq authorized',
         authorized' \subseteq authorized \cup {d},
         d \in authorized' \ (authorized \cup improper') => subs[d] # 0
  PROVE  KeysOwned'
<1>t. /\ subs \in [Clients -> 0..MaxSubscribes] /\ sessions \in [IDs -> Clients \cup {NoClient}]
      /\ authorized \subseteq Clients
  BY DEF SessionsTypeOK
<1>n. NoClient \notin Clients
  BY SessionsAssumption
<1>d. sessionID(d) \in IDs
  BY <1>t, sessionIDType
<1>s. \A c \in Clients : sessionID(c)' = sessionID(c)
  BY DEF sessionID
<1>e. \A i \in IDs : sessions'[i] = IF i = sessionID(d) THEN v ELSE sessions[i]
  BY <1>d, <1>t
<1>1. ASSUME NEW c \in Clients, NEW k \in 1..MaxSubscribes
      PROVE  sessions'[<<c, k>>] \in {c, NoClient}
  <2>1. <<c, k>> \in IDs
    BY DEF IDs
  <2>2. sessions[<<c, k>>] \in {c, NoClient}
    BY DEF KeysOwned
  <2>3. <<c, k>> = sessionID(d) => c = d
    BY <1>n DEF sessionID, EmptyID
  <2> QED
    BY <2>1, <2>2, <2>3, <1>e
<1>2. \A c \in authorized' \ improper' : subs'[c] # 0
  BY DEF KeysOwned
<1>3. ASSUME NEW c \in Clients \ improper', NEW i \in IDs, sessions'[i] = c
      PROVE  i = sessionID(c)' /\ c \in authorized'
  <2>1. CASE i = sessionID(d)
    BY <2>1, <1>3, <1>e, <1>n, <1>s
  <2>2. CASE i # sessionID(d)
    BY <2>2, <1>3, <1>e, <1>s DEF KeysOwned
  <2> QED
    BY <2>1, <2>2
<1> QED
  BY <1>1, <1>2, <1>3 DEF KeysOwned

(* Only three things change the sessions, each for one client.              *)
SessionStep(c) == miningSubscribe(c) \/ addSession(c) \/ removeSession(c)

(* A step leaves the sessions alone or is one of those.                     *)
LEMMA SessionSteps ==
  [Next]_vars => UNCHANGED sessionVars \/ \E c \in Clients : SessionStep(c)
<1> SUFFICES ASSUME [Next]_vars
             PROVE  UNCHANGED sessionVars \/ \E c \in Clients : SessionStep(c)
  OBVIOUS
<1>1. ASSUME NEW c \in Clients, Serve(c) PROVE UNCHANGED sessionVars \/ SessionStep(c)
  BY <1>1 DEF Serve, Cleanup, Subscribe, Authorize, FetchWork, SendWork, Disconnect, Fail, Flood,
     RemoveSession, Close, Uncount, SessionStep
<1>2. CASE Listen \/ Notify \/ ConcurrentMapAccess
  BY <1>2 DEF Listen, Accept, CountRead, CountWrite, Notify, BroadcastFirst, FetchTemplates, Broadcast, broadcastWork, NotifyOne,
     BroadcastEnds, ConcurrentMapAccess
<1>3. CASE UNCHANGED vars
  BY <1>3 DEF vars
<1> QED
  BY <1>1, <1>2, <1>3 DEF Next

(* Every step keeps the entries of proper clients their own.                *)
LEMMA KeysStep == TypeOK /\ KeysOwned /\ [Next]_vars => KeysOwned'
<1> SUFFICES ASSUME TypeOK, KeysOwned, [Next]_vars PROVE KeysOwned'
  OBVIOUS
<1>t. SessionsTypeOK
  BY DEF TypeOK
<1>0. CASE UNCHANGED sessionVars
  BY <1>0 DEF sessionVars, KeysOwned, sessionID
<1>1. ASSUME NEW c \in Clients, miningSubscribe(c) PROVE KeysOwned'
  <2>1. /\ UNCHANGED <<authorized, sessions>> /\ improper \subseteq improper'
        /\ c \in authorized => c \in improper'
        /\ \A d \in Clients \ {c} : subs'[d] = subs[d] /\ sessionID(d)' = sessionID(d)
    BY <1>1, <1>t DEF miningSubscribe, SessionsTypeOK, sessionID
  <2>2. \A d \in authorized' \ improper' : subs'[d] # 0
    BY <2>1, <1>t DEF KeysOwned, SessionsTypeOK
  <2>3. \A d \in Clients \ improper' : \A i \in IDs :
          sessions'[i] = d => i = sessionID(d)' /\ d \in authorized'
    BY <2>1 DEF KeysOwned
  <2> QED
    BY <2>1, <2>2, <2>3 DEF KeysOwned
<1>2. ASSUME NEW c \in Clients, addSession(c) PROVE KeysOwned'
  BY <1>2, <1>t, EntryOwned DEF addSession
<1>3. ASSUME NEW c \in Clients, removeSession(c) PROVE KeysOwned'
  <2>1. /\ sessions' = [sessions EXCEPT ![sessionID(c)] = NoClient]
        /\ UNCHANGED <<subs, authorized, improper>>
    BY <1>3 DEF removeSession, removed
  <2>2. NoClient # c
    BY SessionsAssumption
  <2> QED
    BY <2>1, <2>2, <1>t, EntryOwned
<1> QED
  BY <1>0, <1>1, <1>2, <1>3, SessionSteps DEF SessionStep

(* A login needs an accepted connection.                                    *)
LEMMA UnbornStep == TypeOK /\ UnbornOut /\ [Next]_vars => UnbornOut'
<1> SUFFICES ASSUME TypeOK, UnbornOut, [Next]_vars, NEW c \in Clients, conn'[c] = "unborn"
             PROVE  c \notin authorized'
  BY DEF UnbornOut
<1>t. conn \in [Clients -> Held \cup {"unborn", "closed", "done"}]
  BY DEF TypeOK
<1> USE DEF Goes
<1>1. ASSUME NEW d \in Clients, Serve(d) PROVE c \notin authorized'
  <2>1. CASE Subscribe(d)
    BY <2>1 DEF Subscribe, miningSubscribe, connVars, UnbornOut
  <2>2. CASE Authorize(d)
    BY <2>2, <1>t DEF Authorize, addSession, UnbornOut
  <2>3. CASE Fail(d)
    BY <2>3, <1>t DEF Fail, sessionVars, UnbornOut
  <2>4. CASE FetchWork(d) \/ SendWork(d) \/ Close(d) \/ Uncount(d)
    BY <2>4, <1>t DEF FetchWork, SendWork, Close, Uncount, sessionVars, UnbornOut
  <2>5. CASE Disconnect(d) \/ Flood(d) \/ RemoveSession(d)
    BY <2>5, <1>t DEF Disconnect, Flood, RemoveSession, removeSession, afterRemove, UnbornOut
  <2> QED
    BY <1>1, <2>1, <2>2, <2>3, <2>4, <2>5 DEF Serve, Cleanup
<1>2. CASE Listen \/ Notify \/ ConcurrentMapAccess
  BY <1>2, <1>t DEF Listen, Accept, CountRead, CountWrite, Notify, BroadcastFirst, FetchTemplates, Broadcast, broadcastWork,
     NotifyOne, BroadcastEnds, ConcurrentMapAccess, connVars, sessionVars, UnbornOut
<1>3. CASE UNCHANGED vars
  BY <1>3 DEF vars, connVars, sessionVars, UnbornOut
<1> QED
  BY <1>1, <1>2, <1>3 DEF Next

(* What ProperClientsServed says of one client.                             *)
Served(c) ==
  /\ c \in authorized /\ conn[c] \in Serving => sessions[sessionID(c)] = c
  /\ conn[c] \in {"leaked", "removed", "closed", "done"} => \A i \in IDs : sessions[i] # c

(* A step that leaves the sessions alone keeps a client served, if it does  *)
(* not move the connection or moves it in one of these ways.                *)
LEMMA ServedQuiet ==
  ASSUME NEW c \in Clients, Served(c), UNCHANGED sessionVars, UnbornOut,
         \/ conn'[c] = conn[c]
         \/ conn'[c] \in Serving /\ conn[c] \in Serving \cup {"unborn"}
         \/ conn'[c] = "failing"
         \/ conn[c] \in {"removed", "closed"} /\ conn'[c] \in {"closed", "done"}
  PROVE  Served(c)'
<1>1. UNCHANGED <<subs, authorized, sessions>> /\ sessionID(c)' = sessionID(c)
  BY DEF sessionVars, sessionID
<1>2. c \in authorized /\ conn'[c] \in Serving => sessions[sessionID(c)] = c
  BY DEF Served, UnbornOut, Serving
<1>3. conn'[c] \in {"leaked", "removed", "closed", "done"} => \A i \in IDs : sessions[i] # c
  BY DEF Served, Serving
<1> QED
  BY <1>1, <1>2, <1>3 DEF Served

(* A step of another client does not touch the entry of a proper client.    *)
LEMMA ServedOther ==
  ASSUME SessionsTypeOK, KeysOwned, NEW c \in Clients \ improper, NEW d \in Clients, c # d,
         Served(c), SessionStep(d), conn'[c] = conn[c]
  PROVE  Served(c)'
<1>t. /\ subs \in [Clients -> 0..MaxSubscribes] /\ sessions \in [IDs -> Clients \cup {NoClient}]
  BY DEF SessionsTypeOK
<1>i. sessionID(c) \in IDs /\ sessionID(d) \in IDs
  BY <1>t, sessionIDType
<1>1. subs'[c] = subs[c] /\ sessionID(c)' = sessionID(c) /\ (c \in authorized' <=> c \in authorized)
  BY <1>t DEF SessionStep, miningSubscribe, addSession, removeSession, sessionID
<1>2. \/ sessions' = sessions
      \/ \E v \in {d, NoClient} : sessions' = [sessions EXCEPT ![sessionID(d)] = v]
  BY DEF SessionStep, miningSubscribe, addSession, removeSession, removed
<1>3. \A i \in IDs : sessions'[i] = c => sessions[i] = c
  BY <1>2, <1>i, <1>t, SessionsAssumption
<1>4. c \in authorized => sessions'[sessionID(c)] = sessions[sessionID(c)]
  <2> SUFFICES ASSUME c \in authorized PROVE sessions'[sessionID(c)] = sessions[sessionID(c)]
    OBVIOUS
  <2>1. subs[c] # 0
    BY DEF KeysOwned
  <2>2. sessionID(d) # sessionID(c)
    BY <2>1, OwnID
  <2> QED
    BY <2>2, <1>2, <1>i, <1>t
<1> QED
  BY <1>1, <1>3, <1>4 DEF Served

(* A step of the client's own goroutine keeps it served: it logs in under   *)
(* an ID of its own, and gives up its connection only with its entry.       *)
LEMMA ServedSelf ==
  ASSUME TypeOK, KeysOwned, UnbornOut, NEW c \in Clients, c \notin improper, c \notin improper',
         Served(c), Serve(c)
  PROVE  Served(c)'
<1>t. /\ subs \in [Clients -> 0..MaxSubscribes] /\ sessions \in [IDs -> Clients \cup {NoClient}]
      /\ conn \in [Clients -> Held \cup {"unborn", "closed", "done"}]
  BY DEF TypeOK, SessionsTypeOK
<1>i. sessionID(c) \in IDs
  BY <1>t, sessionIDType
<1>1. CASE Subscribe(c)
  <2>1. c \notin authorized' /\ conn'[c] = "open"
    BY <1>1 DEF Subscribe, miningSubscribe, connVars
  <2> QED
    BY <2>1 DEF Served
<1>2. CASE Authorize(c)
  <2>1. conn'[c] = "replying" /\ sessionID(c)' = sessionID(c)
    BY <1>2, <1>t DEF Authorize, Goes, addSession, sessionID
  <2>2. sessions'[sessionID(c)] = c
    BY <1>2, <1>t, <1>i DEF Authorize, addSession
  <2> QED
    BY <2>1, <2>2 DEF Served
<1>3. CASE FetchWork(c) \/ SendWork(c) \/ Fail(c) \/ Close(c) \/ Uncount(c)
  BY <1>3, <1>t, ServedQuiet DEF FetchWork, SendWork, Fail, Close, Uncount, Goes, Serving
<1>4. CASE Disconnect(c) \/ Flood(c) \/ RemoveSession(c)
  <2>1. conn'[c] \in {"failing", "leaked", "removed"}
    BY <1>4, <1>t DEF Disconnect, Flood, RemoveSession, Goes, afterRemove
  <2>2. sessions' = [sessions EXCEPT ![sessionID(c)] = NoClient]
    BY <1>4 DEF Disconnect, Flood, RemoveSession, removeSession, removed
  <2>3. \A i \in IDs : sessions'[i] # c
    BY <2>2, <1>t, <1>i, SessionsAssumption DEF KeysOwned
  <2> QED
    BY <2>1, <2>3 DEF Served, Serving
<1> QED
  BY <1>1, <1>2, <1>3, <1>4 DEF Serve, Cleanup

(* Every step keeps every proper client served.                             *)
LEMMA ServedStep ==
  TypeOK /\ KeysOwned /\ UnbornOut /\ ProperClientsServed /\ [Next]_vars => ProperClientsServed'
<1> SUFFICES ASSUME TypeOK, KeysOwned, UnbornOut, ProperClientsServed, [Next]_vars,
                    NEW c \in Clients \ improper'
             PROVE  Served(c)'
  BY DEF ProperClientsServed, Served
<1>t. SessionsTypeOK /\ conn \in [Clients -> Held \cup {"unborn", "closed", "done"}]
  BY DEF TypeOK
<1>p. improper \subseteq improper'
  BY SessionSteps DEF SessionStep, miningSubscribe, addSession, removeSession, sessionVars
<1>s. c \notin improper /\ Served(c)
  BY <1>p DEF ProperClientsServed, Served
<1>1. ASSUME NEW d \in Clients, Serve(d), c # d PROVE Served(c)'
  <2>1. conn'[c] = conn[c]
    BY <1>1, <1>t DEF Serve, Cleanup, Subscribe, Authorize, FetchWork, SendWork, Disconnect, Fail,
       Flood, RemoveSession, Close, Uncount, Goes, connVars
  <2>2. UNCHANGED sessionVars \/ SessionStep(d)
    BY <1>1 DEF Serve, Cleanup, Subscribe, Authorize, FetchWork, SendWork, Disconnect, Fail, Flood,
       RemoveSession, Close, Uncount, SessionStep
  <2> QED
    BY <2>1, <2>2, <1>1, <1>s, <1>t, ServedQuiet, ServedOther
<1>2. ASSUME Serve(c) PROVE Served(c)'
  BY <1>2, <1>s, ServedSelf
<1>3. ASSUME NEW d \in Clients, Accept(d) PROVE Served(c)'
  <2>1. UNCHANGED sessionVars
    BY <1>3 DEF Accept
  <2>2. conn'[c] = conn[c] \/ (conn[c] = "unborn" /\ conn'[c] = "open")
    BY <1>3, <1>t DEF Accept, Goes
  <2> QED
    BY <2>1, <2>2, <1>s, ServedQuiet DEF Serving
<1>4. CASE CountRead \/ CountWrite \/ Notify \/ ConcurrentMapAccess \/ UNCHANGED vars
  <2>1. UNCHANGED sessionVars /\ conn'[c] = conn[c]
    BY <1>4 DEF CountRead, CountWrite, Notify, BroadcastFirst, FetchTemplates, Broadcast, broadcastWork, NotifyOne, BroadcastEnds,
       ConcurrentMapAccess, vars, connVars
  <2> QED
    BY <2>1, <1>s, ServedQuiet
<1> QED
  BY <1>1, <1>2, <1>3, <1>4 DEF Next, Listen

(* The inductive invariant of the session map.                              *)
SessionInv == TypeOK /\ KeysOwned /\ UnbornOut /\ ProperClientsServed

LEMMA SessionInvHolds == Init => SessionInv
<1> SUFFICES ASSUME Init PROVE SessionInv
  OBVIOUS
<1>1. TypeOK
  BY InitTyped
<1>2. authorized = {} /\ \A i \in IDs : sessions[i] = NoClient
  BY DEF Init, SessionsInit
<1>3. KeysOwned
  BY <1>2, SessionsAssumption DEF KeysOwned, IDs
<1>4. UnbornOut /\ ProperClientsServed
  BY <1>2, SessionsAssumption DEF UnbornOut, ProperClientsServed
<1> QED
  BY <1>1, <1>3, <1>4 DEF SessionInv

LEMMA SessionInvKept == SessionInv /\ [Next]_vars => SessionInv'
<1>1. TypeOK /\ [Next]_vars => TypeOK'
  BY SessionsTyped, ConnStepTyped, FlagsStepTyped, WorkStepTyped, TypeParts, PTL
<1> QED
  BY <1>1, KeysStep, UnbornStep, ServedStep DEF SessionInv

(* For any number of clients that log in without an ID, subscribe again,    *)
(* fail or flood: a client that subscribes once and then authorizes stays   *)
(* in the session map while it is served and leaves it with its connection. *)
THEOREM ProperServed == Spec => []ProperClientsServed
<1>1. SessionInv => ProperClientsServed
  BY DEF SessionInv
<1> QED
  BY <1>1, SessionInvHolds, SessionInvKept, PTL DEF Spec

(***************************************************************************)
(* Broadcasts                                                              *)
(***************************************************************************)
(* While a broadcast is under way, a client that was waiting for work when  *)
(* it began either has not moved and is still to be visited, or has got the *)
(* work that is sent.                                                       *)
Reached(c) ==
  /\ c \in authorized
  /\ conn[c] \in Serving => /\ conn[c] = "open"
                            /\ sessionID(c) \in toNotify \/ last[c] = sending

Reaching == notifier = "range" => \A c \in present \ improper : Reached(c)

(* A step of another client, or of the listener, changes nothing of it.     *)
LEMMA ReachedByOthers ==
  ASSUME SessionInv, Reaching, notifier = "range", NEW d \in Clients, Serve(d) \/ Accept(d),
         NEW c \in present' \ improper', c # d
  PROVE  Reached(c)'
<1>t. /\ subs \in [Clients -> 0..MaxSubscribes] /\ last \in [Clients -> 0..MaxWork]
      /\ conn \in [Clients -> Held \cup {"unborn", "closed", "done"}]
      /\ present \subseteq Clients
  BY DEF SessionInv, TypeOK, SessionsTypeOK
<1>1. /\ conn'[c] = conn[c] /\ subs'[c] = subs[c] /\ last'[c] = last[c]
      /\ authorized \subseteq authorized' /\ improper \subseteq improper'
      /\ toNotify \subseteq toNotify' /\ sending' = sending /\ present' \subseteq present
  <2>1. CASE Subscribe(d) \/ Authorize(d)
    BY <2>1, <1>t DEF Subscribe, Authorize, miningSubscribe, addSession, Goes, connVars, workVars
  <2>2. CASE Disconnect(d) \/ Flood(d) \/ RemoveSession(d)
    BY <2>2, <1>t DEF Disconnect, Flood, RemoveSession, removeSession, Goes, workVars
  <2>3. CASE FetchWork(d) \/ SendWork(d) \/ Fail(d) \/ Close(d) \/ Uncount(d) \/ Accept(d)
    BY <2>3, <1>t DEF FetchWork, SendWork, Fail, Close, Uncount, Accept, Goes, sessionVars,
       workVars
  <2> QED
    BY <2>1, <2>2, <2>3 DEF Serve, Cleanup
<1>2. sessionID(c)' = sessionID(c)
  BY <1>1 DEF sessionID
<1>3. Reached(c)
  BY <1>1 DEF Reaching
<1> QED
  BY <1>1, <1>2, <1>3 DEF Reached

(* What the client does itself takes it out of those that are awaited.      *)
LEMMA ReachedBySelf ==
  ASSUME SessionInv, Reaching, notifier = "range", NEW c \in present' \ improper',
         c \in Clients, Serve(c) \/ Accept(c)
  PROVE  Reached(c)'
<1>t. conn \in [Clients -> Held \cup {"unborn", "closed", "done"}]
  BY DEF SessionInv, TypeOK
<1>1. c \in present
  BY DEF Serve, Cleanup, Subscribe, Authorize, FetchWork, SendWork, Disconnect, Fail, Flood,
     RemoveSession, Close, Uncount, Accept, workVars
<1>2. improper \subseteq improper' /\ authorized \subseteq authorized'
  BY DEF Serve, Cleanup, Subscribe, Authorize, FetchWork, SendWork, Disconnect, Fail, Flood,
     RemoveSession, Close, Uncount, Accept, miningSubscribe, addSession, removeSession, sessionVars
<1>3. Reached(c)
  BY <1>1, <1>2 DEF Reaching
<1>4. ~Subscribe(c) /\ ~Authorize(c) /\ ~Accept(c)
  BY <1>t, <1>3 DEF Subscribe, miningSubscribe, Authorize, Accept, Goes, Reached, UnbornOut,
     SessionInv
<1>5. ~FetchWork(c) /\ ~SendWork(c)
  BY <1>t, <1>3 DEF FetchWork, SendWork, Goes, Reached, Serving
<1>6. conn'[c] \notin Serving
  BY <1>t, <1>4, <1>5 DEF Serve, Cleanup, Disconnect, Fail, Flood, RemoveSession, Close, Uncount,
     Goes, Serving, afterRemove
<1> QED
  BY <1>2, <1>3, <1>6 DEF Reached

(* Every step of the server keeps the awaited clients reached.              *)
LEMMA ReachingStep == SessionInv /\ Reaching /\ [Next]_vars => Reaching'
<1> SUFFICES ASSUME SessionInv, Reaching, [Next]_vars, notifier' = "range",
                    NEW c \in present' \ improper'
             PROVE  Reached(c)'
  BY DEF Reaching
<1>t. /\ subs \in [Clients -> 0..MaxSubscribes] /\ last \in [Clients -> 0..MaxWork]
      /\ conn \in [Clients -> Held \cup {"unborn", "closed", "done"}]
      /\ present \subseteq Clients /\ authorized \subseteq Clients
      /\ sessions \in [IDs -> Clients \cup {NoClient}]
  BY DEF SessionInv, TypeOK, SessionsTypeOK
<1>1. ASSUME NEW d \in Clients, Serve(d) \/ Accept(d) PROVE Reached(c)'
  <2>1. notifier = "range"
    BY <1>1 DEF Serve, Cleanup, Subscribe, Authorize, FetchWork, SendWork, Disconnect, Fail,
       Flood, RemoveSession, Close, Uncount, Accept, workVars
  <2> QED
    BY <1>1, <2>1, ReachedByOthers, ReachedBySelf
<1>2. CASE CountRead \/ CountWrite \/ ConcurrentMapAccess \/ UNCHANGED vars
  BY <1>2 DEF CountRead, CountWrite, ConcurrentMapAccess, vars, sessionVars, connVars, workVars,
     Reaching, Reached, sessionID
<1>3. CASE BroadcastFirst \/ Broadcast
  <2>1. /\ toNotify' = toVisit /\ c \in authorized /\ conn[c] = "open"
        /\ UNCHANGED <<sessionVars, conn>>
    BY <1>3 DEF BroadcastFirst, Broadcast, broadcastWork, connVars
  <2>2. UNCHANGED <<subs, authorized, improper>> /\ sessionID(c)' = sessionID(c)
    BY <2>1 DEF sessionVars, sessionID
  <2>3. sessions[sessionID(c)] = c /\ sessionID(c) \in IDs
    BY <1>t, <2>1, <2>2, sessionIDType DEF SessionInv, ProperClientsServed, Serving
  <2>4. sessionID(c) \in toVisit
    BY <1>t, <2>1, <2>3, SessionsAssumption DEF toVisit
  <2> QED
    BY <2>1, <2>2, <2>4 DEF Reached
<1>4. CASE NotifyOne
  <2>1. PICK i \in toNotify :
          /\ toNotify' = toNotify \ {i}
          /\ last' = IF sessions[i] \in Connected
                     THEN [last EXCEPT ![sessions[i]] = sending]
                     ELSE last
    BY <1>4 DEF NotifyOne
  <2>2. /\ UNCHANGED <<subs, authorized, improper, conn, sending, present>>
        /\ sessionID(c)' = sessionID(c) /\ notifier = "range"
    BY <1>4 DEF NotifyOne, sessionVars, connVars, sessionID
  <2>3. Reached(c)
    BY <2>2 DEF Reaching
  <2>4. ASSUME conn[c] \in Serving, i = sessionID(c) PROVE last'[c] = sending
    <3>1. sessions[i] = c
      BY <1>t, <2>2, <2>3, <2>4 DEF Reached, SessionInv, ProperClientsServed
    <3>2. c \in Connected
      BY <1>t, <2>2, <2>4 DEF Connected, Held
    <3> QED
      BY <1>t, <2>1, <2>2, <3>1, <3>2
  <2>5. last[c] = sending => last'[c] = sending
    BY <1>t, <2>1, <2>2
  <2> QED
    BY <2>1, <2>2, <2>3, <2>4, <2>5 DEF Reached
<1>5. CASE FetchTemplates \/ BroadcastEnds
  BY <1>5 DEF FetchTemplates, BroadcastEnds
<1> QED
  BY <1>1, <1>2, <1>3, <1>4, <1>5 DEF Next, Listen, Notify

(* notifyAllSessions, which ranges over the map without a lock while        *)
(* clients log in and out, reaches every client that subscribed once before *)
(* its login, was waiting for work when the broadcast began and is still    *)
(* served (server.go:64-112).                                               *)
THEOREM BroadcastReaches == Spec => []BroadcastReachesAll
<1>1. Init => Reaching
  BY DEF Init, Reaching
<1>2. SessionInv /\ Reaching => BroadcastReachesAll
  BY DEF Reaching, Reached, BroadcastReachesAll
<1> QED
  BY <1>1, <1>2, SessionInvHolds, SessionInvKept, ReachingStep, PTL DEF Spec

(***************************************************************************)
(* The limit on connections                                                *)
(***************************************************************************)
(* The connections that openNewConnection has yet to take off the counter.  *)
Counted == {c \in Clients : conn[c] \in Held \cup {"closed"}}

(* Until an update is lost the counter is right, but for the connection the *)
(* listener has accepted and not counted yet.                               *)
Uncounted == IF listener = "accept" THEN 0 ELSE 1

CountRight ==
  /\ IsFiniteSet(Counted)
  /\ ~torn => /\ numberOfConnections = Cardinality(Counted) - Uncounted
              /\ Cardinality(Counted) <= MaxConnections + 1

(* A step that keeps the counter, the listener's place and the counted      *)
(* connections keeps the count right.                                       *)
LEMMA CountQuiet ==
  ASSUME CountRight, Counted' = Counted, UNCHANGED <<numberOfConnections, torn>>,
         Uncounted' = Uncounted
  PROVE  CountRight'
  BY DEF CountRight

LEMMA CountStep == TypeOK /\ CountRight /\ [Next]_vars => CountRight'
<1> SUFFICES ASSUME TypeOK, CountRight, [Next]_vars PROVE CountRight'
  OBVIOUS
<1>t. /\ conn \in [Clients -> Held \cup {"unborn", "closed", "done"}]
      /\ numberOfConnections \in Int /\ listenerRead \in Int /\ torn \in BOOLEAN
      /\ clientRead \in [Clients -> Int] /\ listener \in {"accept", "read", "write"}
      /\ MaxConnections \in Nat
  BY StratumAssumption DEF TypeOK
<1>c. IsFiniteSet(Counted) /\ Cardinality(Counted) \in Nat
  BY FS_CardinalityType DEF CountRight
<1>1. ASSUME NEW c \in Clients, Accept(c) PROVE CountRight'
  <2>1. /\ conn[c] = "unborn" /\ conn' = [conn EXCEPT ![c] = "open"]
        /\ listener = "accept" /\ listener' = "read" /\ numberOfConnections <= MaxConnections
        /\ UNCHANGED <<numberOfConnections, torn>>
    BY <1>1, <1>t DEF Accept, Goes, full
  <2>2. Counted' = Counted \cup {c} /\ c \notin Counted
    BY <1>t, <2>1 DEF Counted, Held, Serving
  <2>3. IsFiniteSet(Counted') /\ Cardinality(Counted') = Cardinality(Counted) + 1
    BY <1>c, <2>2, FS_AddElement
  <2>4. Uncounted = 0 /\ Uncounted' = 1
    BY <2>1 DEF Uncounted
  <2>5. CASE torn
    BY <2>1, <2>3, <2>5 DEF CountRight
  <2>6. CASE ~torn
    <3>1. numberOfConnections = Cardinality(Counted)
      BY <1>c, <2>4, <2>6 DEF CountRight
    <3>2. /\ numberOfConnections' = Cardinality(Counted') - Uncounted'
          /\ Cardinality(Counted') <= MaxConnections + 1
      BY <1>c, <1>t, <2>1, <2>3, <2>4, <3>1
    <3> QED
      BY <2>3, <3>2 DEF CountRight
  <2> QED
    BY <2>5, <2>6
<1>2. CASE CountRead
  <2>1. Counted' = Counted /\ Uncounted' = Uncounted
    BY <1>2 DEF CountRead, connVars, Counted, Uncounted
  <2> QED
    BY <1>2, <2>1, CountQuiet DEF CountRead
<1>3. CASE CountWrite
  <2>1. Counted' = Counted
    BY <1>3 DEF CountWrite, connVars, Counted
  <2>2. CASE torn'
    BY <1>c, <2>1, <2>2 DEF CountRight
  <2>3. CASE ~torn'
    <3>1. ~torn /\ numberOfConnections' = numberOfConnections + 1
      BY <1>3, <2>3 DEF CountWrite
    <3>2. Uncounted = 1 /\ Uncounted' = 0
      BY <1>3 DEF CountWrite, Uncounted
    <3>3. /\ numberOfConnections = Cardinality(Counted) - 1
          /\ Cardinality(Counted) <= MaxConnections + 1
      BY <3>1, <3>2 DEF CountRight
    <3>4. numberOfConnections' = Cardinality(Counted)' - Uncounted'
      BY <1>c, <1>t, <2>1, <3>1, <3>2, <3>3
    <3> QED
      BY <1>c, <2>1, <3>3, <3>4 DEF CountRight
  <2> QED
    BY <2>2, <2>3
<1>4. ASSUME NEW c \in Clients, Uncount(c) PROVE CountRight'
  <2>1. /\ conn[c] = "closed" /\ conn' = [conn EXCEPT ![c] = "done"]
        /\ numberOfConnections' = clientRead[c] - 1
        /\ torn' = (torn \/ clientRead[c] # numberOfConnections)
        /\ UNCHANGED listener
    BY <1>4 DEF Uncount, Goes
  <2>2. Counted' = Counted \ {c} /\ c \in Counted
    BY <1>t, <2>1 DEF Counted, Held, Serving
  <2>3. IsFiniteSet(Counted') /\ Cardinality(Counted') = Cardinality(Counted) - 1
    BY <1>c, <2>2, FS_RemoveElement
  <2>4. Uncounted' = Uncounted /\ Uncounted \in {0, 1}
    BY <2>1 DEF Uncounted
  <2>5. CASE torn'
    BY <2>3, <2>5 DEF CountRight
  <2>6. CASE ~torn'
    <3>1. ~torn /\ numberOfConnections' = numberOfConnections - 1
      BY <2>1, <2>6
    <3>2. /\ numberOfConnections' = Cardinality(Counted') - Uncounted'
          /\ Cardinality(Counted') <= MaxConnections + 1
      BY <1>c, <1>t, <2>3, <2>4, <3>1 DEF CountRight
    <3> QED
      BY <2>3, <3>2 DEF CountRight
  <2> QED
    BY <2>5, <2>6
<1>5. ASSUME NEW c \in Clients, Serve(c), ~Uncount(c) PROVE CountRight'
  <2>1. UNCHANGED countVars
    BY <1>5 DEF Serve, Cleanup, Subscribe, Authorize, FetchWork, SendWork, Disconnect, Fail,
       Flood, RemoveSession, Close
  <2>2. \A d \in Clients : conn'[d] \in Held \cup {"closed"} <=> conn[d] \in Held \cup {"closed"}
    BY <1>5, <1>t DEF Serve, Cleanup, Subscribe, Authorize, FetchWork, SendWork, Disconnect, Fail,
       Flood, RemoveSession, Close, Goes, Held, Serving, connVars, afterRemove
  <2> QED
    BY <2>1, <2>2, CountQuiet DEF countVars, Counted, Uncounted
<1>6. CASE Notify \/ ConcurrentMapAccess \/ UNCHANGED vars
  <2>1. UNCHANGED <<conn, numberOfConnections, torn, listener>>
    BY <1>6 DEF Notify, BroadcastFirst, FetchTemplates, Broadcast, broadcastWork, NotifyOne,
       BroadcastEnds, ConcurrentMapAccess, vars, connVars, countVars
  <2> QED
    BY <2>1, CountQuiet DEF Counted, Uncounted
<1> QED
  BY <1>1, <1>2, <1>3, <1>4, <1>5, <1>6 DEF Next, Listen

(* Until an update of the counter is lost to the race, no more connections  *)
(* are open than config.MaxConnections and one, for any number of clients   *)
(* (network.go:41, 76, 88).                                                 *)
THEOREM LimitHolds == Spec => []LimitUnlessTorn
<1>1. Init => CountRight
  <2> SUFFICES ASSUME Init PROVE CountRight
    OBVIOUS
  <2>1. Counted = {} /\ Uncounted = 0 /\ numberOfConnections = 0
    BY DEF Init, Counted, Held, Serving, Uncounted
  <2> QED
    BY <2>1, FS_EmptySet, StratumAssumption DEF CountRight
<1>2. CountRight => LimitUnlessTorn
  <2> SUFFICES ASSUME CountRight, ~torn PROVE Cardinality(Connected) <= MaxConnections + 1
    BY DEF LimitUnlessTorn
  <2>1. Connected \in SUBSET Counted /\ IsFiniteSet(Counted)
    BY DEF Connected, Counted, CountRight
  <2>2. /\ Cardinality(Connected) <= Cardinality(Counted)
        /\ Cardinality(Connected) \in Nat /\ Cardinality(Counted) \in Nat
    BY <2>1, FS_Subset, FS_CardinalityType
  <2> QED
    BY <2>2, StratumAssumption DEF CountRight
<1>3. TypeOK /\ [Next]_vars => TypeOK'
  BY SessionsTyped, ConnStepTyped, FlagsStepTyped, WorkStepTyped, TypeParts, PTL
<1> QED
  BY <1>1, <1>2, <1>3, InitTyped, CountStep, PTL DEF Spec
=============================================================================
