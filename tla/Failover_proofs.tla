-------------------------- MODULE Failover_proofs ---------------------------
(***************************************************************************)
(* RPC failover, for any number of chains, nodes and restore loops.        *)
(***************************************************************************)
EXTENDS Failover, TLAPS

(* NodeCount is a number, and node 0 exists.                                *)
LEMMA NodesType ==
  ASSUME NEW c \in Chains
  PROVE  NodeCount[c] \in Nat /\ NodeCount[c] > 0 /\ 0 \in Nodes(c) /\ Nodes(c) \subseteq Nat
BY FailoverAssumption DEF Nodes

(* nextNode stays within the nodes of the chain.                            *)
LEMMA FollowingType ==
  ASSUME NEW c \in Chains, NEW i \in Nodes(c) PROVE following(c, i) \in Nodes(c)
BY NodesType DEF following, Nodes

(* PoolServer.Start leaves a state of the right type.                       *)
LEMMA InitTyped == Init => TypeOK
<1> SUFFICES ASSUME Init PROVE TypeOK
  OBVIOUS
<1>1. IndexOK
  BY NodesType DEF Init, IndexOK
<1>2. /\ DOMAIN healthy = Chains /\ \A c \in Chains : healthy[c] \subseteq Nodes(c)
      /\ DOMAIN cached = Chains /\ \A c \in Chains : cached[c] \in Nodes(c)
  BY NodesType DEF Init
<1>3. sleeping \in [Chains -> Nat] /\ restoring \in [Chains -> Nat]
  BY DEF Init
<1>4. /\ at \in {"boot", "idle", "dead", "recover", "search", "next", "check"}
      /\ outcome \in {"none", "ok", "error"}
      /\ toCheck \subseteq Chains
      /\ raced \subseteq Chains
  BY DEF Init
<1>5. chain \in Chains /\ nodesChecked \in 0..(NodeCount[chain] + 1)
  BY NodesType, FailoverAssumption DEF Init
<1>6. /\ at \in {"next", "check"} => nodesChecked \in 1..NodeCount[chain]
      /\ at = "search" => nodesChecked <= NodeCount[chain]
  BY DEF Init
<1>7. booting \in BOOLEAN
  BY DEF Init
<1>8. start \in Nodes(chain) /\ probed \subseteq Nodes(chain)
  BY NodesType, FailoverAssumption DEF Init
<1> QED
  BY <1>1, <1>2, <1>3, <1>4, <1>5, <1>6, <1>7, <1>8 DEF TypeOK

(* Every step keeps the types, the loops' stores of 0 included.             *)
LEMMA NextTyped == TypeOK /\ [Next]_vars => TypeOK'
<1> SUFFICES ASSUME TypeOK, [Next]_vars PROVE TypeOK'
  OBVIOUS
<1> USE NodesType, FollowingType
<1>1. CASE Fetch
  <2>1. booting' \in BOOLEAN
    BY <1>1 DEF Fetch
  <2> QED
    BY <1>1, <2>1 DEF Fetch, TypeOK, IndexOK, loopVars, searchVars
<1>2. CASE CheckActive
  BY <1>2 DEF CheckActive, TypeOK, IndexOK, loopVars, searchVars
<1>3. CASE SearchTurn
  BY <1>3 DEF SearchTurn, Ends, TypeOK, IndexOK, loopVars
<1>4. CASE nextNode
  BY <1>4 DEF nextNode, TypeOK, IndexOK, loopVars, searchVars
<1>5. CASE CheckNode
  BY <1>5 DEF CheckNode, launched, TypeOK, IndexOK
<1>6. CASE Retry
  BY <1>6 DEF Retry, Ends, TypeOK, IndexOK, loopVars, searchVars
<1>7. ASSUME NEW c \in Chains, LoopSeesPrimary(c) PROVE TypeOK'
  BY <1>7 DEF LoopSeesPrimary, TypeOK, IndexOK, searchVars
<1>8. ASSUME NEW c \in Chains, RestorePrimary(c) PROVE TypeOK'
  BY <1>8 DEF RestorePrimary, TypeOK, IndexOK, searchVars
<1>9. CASE Flap
  BY <1>9 DEF Flap, TypeOK, IndexOK, loopVars, searchVars
<1>10. CASE UNCHANGED vars
  BY <1>10 DEF vars, loopVars, searchVars, TypeOK, IndexOK
<1> QED
  BY <1>1, <1>2, <1>3, <1>4, <1>5, <1>6, <1>7, <1>8, <1>9, <1>10 DEF Next, Pool, Loop

(* clients[activeIndex] never panics: the index is one of the chain's nodes *)
(* although the search and the loops write it without a lock.               *)
THEOREM Typing == Spec => []TypeOK
BY InitTyped, NextTyped, PTL DEF Spec

(* Where a search stands: the k-th node after the one it started from.      *)
After(c, s, k) == IF s + k < NodeCount[c] THEN s + k ELSE s + k - NodeCount[c]

(* The search has moved nodesChecked nodes; the move under way is not done. *)
Moved == IF at = "next" THEN nodesChecked - 1 ELSE nodesChecked

(* While no loop has cut into a search: it is where its counter says, has   *)
(* asked the nodes it passed, and the loop that watches over the node it    *)
(* started from is still there.                                             *)
SearchOnCourse ==
  Searching(chain) /\ chain \notin raced =>
    /\ activeIndex[chain] = After(chain, start, Moved)
    /\ at = "next" => read = activeIndex[chain]
    /\ start # 0 => Loops(chain) > 0

AskedSoFar ==
  Searching(chain) /\ chain \notin raced =>
    \A j \in 1..(IF at = "search" THEN nodesChecked ELSE nodesChecked - 1) :
      After(chain, start, j) \in probed

(* One nextNode is one place further.                                      *)
LEMMA AfterFollows ==
  ASSUME NEW c \in Chains, NEW s \in Nodes(c), NEW k \in 0..(NodeCount[c] - 1)
  PROVE  following(c, After(c, s, k)) = After(c, s, k + 1)
BY NodesType DEF following, After, Nodes

(* A full turn ends where it began and passes every node.                   *)
LEMMA AfterAll ==
  ASSUME NEW c \in Chains, NEW s \in Nodes(c)
  PROVE  /\ After(c, s, 0) = s
         /\ After(c, s, NodeCount[c]) = s
         /\ \A n \in Nodes(c) : \E j \in 1..NodeCount[c] : After(c, s, j) = n
<1>1. After(c, s, 0) = s /\ After(c, s, NodeCount[c]) = s
  BY NodesType DEF After, Nodes
<1>2. ASSUME NEW n \in Nodes(c) PROVE \E j \in 1..NodeCount[c] : After(c, s, j) = n
  <2>1. CASE n > s
    <3>1. n - s \in 1..NodeCount[c] /\ After(c, s, n - s) = n
      BY <2>1, NodesType DEF After, Nodes
    <3> QED
      BY <3>1
  <2>2. CASE n <= s
    <3>1. n - s + NodeCount[c] \in 1..NodeCount[c] /\ After(c, s, n - s + NodeCount[c]) = n
      BY <2>2, NodesType DEF After, Nodes
    <3> QED
      BY <3>1
  <2> QED
    BY <2>1, <2>2, NodesType DEF Nodes
<1> QED
  BY <1>1, <1>2
(* Every step keeps a search on its course and a manager watched.  Each     *)
(* needs the other: a search starts from a watched index, and a failed one  *)
(* leaves the index where it started.                                       *)
LEMMA WatchedStep ==
  TypeOK /\ SearchOnCourse /\ OffPrimaryIsWatched /\ [Next]_vars
    => SearchOnCourse' /\ OffPrimaryIsWatched'
<1> SUFFICES ASSUME TypeOK, SearchOnCourse, OffPrimaryIsWatched, [Next]_vars
             PROVE  SearchOnCourse' /\ OffPrimaryIsWatched'
  OBVIOUS
<1> USE DEF Loops, Searching
<1>t. /\ chain \in Chains
      /\ \A c \in Chains : activeIndex[c] \in Nodes(c) /\ NodeCount[c] \in Nat
      /\ sleeping \in [Chains -> Nat] /\ restoring \in [Chains -> Nat]
      /\ start \in Nodes(chain)
      /\ DOMAIN activeIndex = Chains
      /\ toCheck \subseteq Chains
      /\ at \in {"next", "check"} => nodesChecked \in 1..NodeCount[chain]
      /\ at = "search" => nodesChecked \in 0..NodeCount[chain]
  BY NodesType DEF TypeOK, IndexOK
<1>1. CASE Fetch
  BY <1>1, <1>t DEF Fetch, SearchOnCourse, OffPrimaryIsWatched, Moved, loopVars, searchVars
<1>2. CASE CheckActive
  <2>1. PICK c \in toCheck :
          /\ toCheck' = toCheck \ {c}
          /\ IF activeIndex[c] \in healthy[c]
             THEN UNCHANGED <<at, searchVars>>
             ELSE /\ at' = "search"
                  /\ chain' = c
                  /\ nodesChecked' = 0
                  /\ start' = activeIndex[c]
    BY <1>2 DEF CheckActive
  <2>2. at = "recover" /\ UNCHANGED <<activeIndex, sleeping, restoring, raced>>
    BY <1>2 DEF CheckActive, loopVars
  <2>3. CASE UNCHANGED <<at, searchVars>>
    BY <2>2, <2>3 DEF SearchOnCourse, OffPrimaryIsWatched, searchVars
  <2>4. CASE at' = "search" /\ chain' = c /\ nodesChecked' = 0 /\ start' = activeIndex[c]
    <3>1. After(c, activeIndex[c], 0) = activeIndex[c]
      BY <1>t, AfterAll
    <3>2. c \notin raced /\ activeIndex[c] # 0 => sleeping[c] + restoring[c] > 0
      BY <2>2, <1>t DEF OffPrimaryIsWatched
    <3>3. SearchOnCourse'
      BY <2>2, <2>4, <3>1, <3>2 DEF SearchOnCourse, Moved, After
    <3>4. OffPrimaryIsWatched'
      BY <2>2, <2>4 DEF OffPrimaryIsWatched
    <3> QED
      BY <3>3, <3>4
  <2> QED
    BY <2>1, <2>3, <2>4
<1>3. CASE SearchTurn
  <2>1. /\ at = "search"
        /\ nodesChecked' = nodesChecked + 1
        /\ UNCHANGED <<activeIndex, sleeping, restoring, raced, chain, start>>
    BY <1>3 DEF SearchTurn, loopVars
  <2>2. CASE nodesChecked + 1 > NodeCount[chain]
    <3>1. nodesChecked = NodeCount[chain]
      BY <2>1, <2>2, <1>t
    <3>2. at' \in {"dead", "idle"}
      BY <1>3, <2>1, <2>2 DEF SearchTurn, Ends
    <3>3. chain \notin raced => activeIndex[chain] = start /\ (start # 0 => Loops(chain) > 0)
      BY <2>1, <3>1, <1>t, AfterAll DEF SearchOnCourse, Moved
    <3>4. OffPrimaryIsWatched'
      BY <2>1, <3>2, <3>3, <1>t DEF OffPrimaryIsWatched
    <3> QED
      BY <3>2, <3>4 DEF SearchOnCourse
  <2>3. CASE ~(nodesChecked + 1 > NodeCount[chain])
    <3>1. at' = "next" /\ read' = activeIndex[chain]
      BY <1>3, <2>1, <2>3 DEF SearchTurn
    <3>2. Moved' = Moved
      BY <2>1, <3>1, <1>t DEF Moved
    <3> QED
      BY <2>1, <3>1, <3>2 DEF SearchOnCourse, OffPrimaryIsWatched, After
  <2> QED
    BY <2>2, <2>3
<1>4. CASE nextNode
  <2>1. /\ at = "next" /\ at' = "check"
        /\ activeIndex' = [activeIndex EXCEPT ![chain] = following(chain, read)]
        /\ UNCHANGED <<sleeping, restoring, raced, chain, start, nodesChecked>>
    BY <1>4 DEF nextNode, loopVars, searchVars
  <2>2. chain \notin raced =>
          following(chain, read) = After(chain, start, nodesChecked)
    <3>1. nodesChecked - 1 \in 0..(NodeCount[chain] - 1) /\ (nodesChecked - 1) + 1 = nodesChecked
      BY <2>1, <1>t
    <3>2. chain \notin raced => read = After(chain, start, nodesChecked - 1)
      BY <2>1 DEF SearchOnCourse, Moved
    <3>3. following(chain, After(chain, start, nodesChecked - 1))
            = After(chain, start, (nodesChecked - 1) + 1)
      BY <3>1, <1>t, AfterFollows
    <3> QED
      BY <3>1, <3>2, <3>3
  <2>3. activeIndex'[chain] = following(chain, read)
    BY <2>1, <1>t
  <2>4. SearchOnCourse'
    BY <2>1, <2>2, <2>3 DEF SearchOnCourse, Moved, After
  <2>5. OffPrimaryIsWatched'
    BY <2>1, <1>t DEF OffPrimaryIsWatched
  <2> QED
    BY <2>4, <2>5
<1>5. CASE CheckNode
  <2>1. /\ at = "check"
        /\ UNCHANGED <<activeIndex, restoring, raced, chain, start, nodesChecked>>
    BY <1>5 DEF CheckNode
  <2>2. CASE at' = "recover" /\ sleeping' = [sleeping EXCEPT ![chain] = @ + launched]
    <3>1. OffPrimaryIsWatched'
      BY <2>1, <2>2, <1>t DEF OffPrimaryIsWatched, launched
    <3> QED
      BY <2>2, <3>1 DEF SearchOnCourse
  <2>3. CASE at' = "search" /\ sleeping' = sleeping
    BY <2>1, <2>3 DEF SearchOnCourse, OffPrimaryIsWatched, Moved, After
  <2> QED
    BY <1>5, <2>2, <2>3 DEF CheckNode
<1>6. CASE Retry
  BY <1>6, <1>t DEF Retry, Ends, SearchOnCourse, OffPrimaryIsWatched, loopVars, searchVars
<1>7. ASSUME NEW c \in Chains, LoopSeesPrimary(c)
      PROVE  SearchOnCourse' /\ OffPrimaryIsWatched'
  <2>1. \A d \in Chains : sleeping'[d] + restoring'[d] = sleeping[d] + restoring[d]
    BY <1>7, <1>t DEF LoopSeesPrimary
  <2>2. UNCHANGED <<activeIndex, at, searchVars, raced>>
    BY <1>7 DEF LoopSeesPrimary
  <2> QED
    BY <2>1, <2>2, <1>t DEF SearchOnCourse, OffPrimaryIsWatched, Moved, After, searchVars
<1>8. ASSUME NEW c \in Chains, RestorePrimary(c)
      PROVE  SearchOnCourse' /\ OffPrimaryIsWatched'
  <2>1. /\ restoring' = [restoring EXCEPT ![c] = @ - 1]
        /\ activeIndex' = [activeIndex EXCEPT ![c] = 0]
        /\ raced' = IF at \in {"search", "next", "check"} /\ chain = c THEN raced \cup {c} ELSE raced
        /\ UNCHANGED <<sleeping, at, chain, nodesChecked, read, start>>
    BY <1>8 DEF RestorePrimary, searchVars
  <2>2. SearchOnCourse'
    <3>1. CASE chain = c
      BY <2>1, <3>1 DEF SearchOnCourse
    <3>2. CASE chain # c
      BY <2>1, <3>2, <1>t DEF SearchOnCourse, Moved, After
    <3> QED
      BY <3>1, <3>2
  <2>3. OffPrimaryIsWatched'
    BY <2>1, <1>t DEF OffPrimaryIsWatched
  <2> QED
    BY <2>2, <2>3
<1>9. CASE Flap
  BY <1>9 DEF Flap, SearchOnCourse, OffPrimaryIsWatched, Moved, After, loopVars, searchVars
<1>10. CASE UNCHANGED vars
  BY <1>10 DEF vars, SearchOnCourse, OffPrimaryIsWatched, Moved, After, loopVars, searchVars
<1> QED
  BY <1>1, <1>2, <1>3, <1>4, <1>5, <1>6, <1>7, <1>8, <1>9, <1>10 DEF Next, Pool, Loop

(* A manager that is off its primary node, with no search under way, has a  *)
(* restore loop, unless a loop once stored 0 into the middle of a search.   *)
THEOREM OffPrimaryWatched == Spec => [](SearchOnCourse /\ OffPrimaryIsWatched)
<1>1. Init => SearchOnCourse /\ OffPrimaryIsWatched
  BY DEF Init, SearchOnCourse, OffPrimaryIsWatched, Searching
<1>2. TypeOK /\ SearchOnCourse /\ OffPrimaryIsWatched /\ [Next]_vars
        => (SearchOnCourse /\ OffPrimaryIsWatched)'
  BY WatchedStep
<1> QED
  BY <1>1, <1>2, Typing, PTL DEF Spec
(* A node the search has asked in vain stays asked; the node it asks next   *)
(* is the one its course says.                                              *)
LEMMA AskedStep ==
  TypeOK /\ SearchOnCourse /\ AskedSoFar /\ [Next]_vars => AskedSoFar'
<1> SUFFICES ASSUME TypeOK, SearchOnCourse, AskedSoFar, [Next]_vars PROVE AskedSoFar'
  OBVIOUS
<1> USE DEF Searching
<1>t. /\ chain \in Chains
      /\ at \in {"next", "check", "search"} => nodesChecked \in Nat
  BY NodesType DEF TypeOK
<1>1. CASE Fetch
  BY <1>1 DEF Fetch, AskedSoFar, searchVars
<1>2. CASE CheckActive
  <2>1. at = "recover" /\ (at' = at \/ (at' = "search" /\ nodesChecked' = 0))
    BY <1>2 DEF CheckActive, searchVars
  <2> QED
    BY <2>1 DEF AskedSoFar
<1>3. CASE SearchTurn
  <2>1. /\ at = "search"
        /\ at' \in {"dead", "idle", "next"}
        /\ nodesChecked' = nodesChecked + 1
        /\ UNCHANGED <<raced, chain, start, probed>>
    BY <1>3 DEF SearchTurn, Ends
  <2> QED
    BY <2>1, <1>t DEF AskedSoFar, After
<1>4. CASE nextNode
  BY <1>4 DEF nextNode, AskedSoFar, After, searchVars
<1>5. CASE CheckNode
  <2>1. at = "check" /\ UNCHANGED <<raced, chain, start, nodesChecked>>
    BY <1>5 DEF CheckNode
  <2>2. CASE at' = "recover"
    BY <2>2 DEF AskedSoFar
  <2>3. CASE at' = "search" /\ probed' = probed \cup {activeIndex[chain]}
    <3> SUFFICES ASSUME chain \notin raced, NEW j \in 1..nodesChecked
                 PROVE  After(chain, start, j) \in probed'
      BY <2>1, <2>3 DEF AskedSoFar, After
    <3>1. CASE j = nodesChecked
      BY <2>1, <2>3, <3>1 DEF SearchOnCourse, Moved
    <3>2. CASE j \in 1..(nodesChecked - 1)
      BY <2>1, <2>3, <3>2 DEF AskedSoFar
    <3> QED
      BY <3>1, <3>2, <2>1, <1>t
  <2> QED
    BY <1>5, <2>2, <2>3 DEF CheckNode
<1>6. CASE Retry
  BY <1>6 DEF Retry, Ends, AskedSoFar, searchVars
<1>7. ASSUME NEW c \in Chains, LoopSeesPrimary(c) PROVE AskedSoFar'
  BY <1>7 DEF LoopSeesPrimary, AskedSoFar, After, searchVars
<1>8. ASSUME NEW c \in Chains, RestorePrimary(c) PROVE AskedSoFar'
  <2>1. raced \subseteq raced' /\ UNCHANGED <<at, searchVars>>
    BY <1>8 DEF RestorePrimary
  <2> QED
    BY <2>1 DEF AskedSoFar, After, searchVars
<1>9. CASE Flap
  BY <1>9 DEF Flap, AskedSoFar, After, searchVars
<1>10. CASE UNCHANGED vars
  BY <1>10 DEF vars, AskedSoFar, After, searchVars
<1> QED
  BY <1>1, <1>2, <1>3, <1>4, <1>5, <1>6, <1>7, <1>8, <1>9, <1>10 DEF Next, Pool, Loop

(* FindHealthyNode gives up only after a full turn: it has asked every node *)
(* and is back where it started, unless a loop cut into a search.           *)
THEOREM FailedSearchComplete == Spec => []FailedSearchIsComplete
<1>1. Init => AskedSoFar
  BY DEF Init, AskedSoFar, Searching
<1>2. TypeOK /\ SearchOnCourse /\ AskedSoFar /\ [Next]_vars => AskedSoFar'
  BY AskedStep
<1>3. TypeOK /\ SearchOnCourse /\ AskedSoFar => FailedSearchIsComplete
  <2> SUFFICES ASSUME TypeOK, SearchOnCourse, AskedSoFar, at = "search",
                      nodesChecked = NodeCount[chain], chain \notin raced
               PROVE  probed = Nodes(chain) /\ activeIndex[chain] = start
    BY DEF FailedSearchIsComplete
  <2>1. chain \in Chains /\ start \in Nodes(chain) /\ probed \subseteq Nodes(chain)
    BY DEF TypeOK
  <2>2. activeIndex[chain] = start
    BY <2>1, AfterAll DEF SearchOnCourse, Searching, Moved
  <2>3. ASSUME NEW n \in Nodes(chain) PROVE n \in probed
    <3>1. PICK j \in 1..NodeCount[chain] : After(chain, start, j) = n
      BY <2>1, AfterAll
    <3> QED
      BY <3>1 DEF AskedSoFar, Searching
  <2> QED
    BY <2>1, <2>2, <2>3
<1> QED
  BY <1>1, <1>2, <1>3, Typing, OffPrimaryWatched, PTL DEF Spec
=============================================================================
