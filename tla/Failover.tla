------------------------------ MODULE Failover ------------------------------
(***************************************************************************)
(* RPC failover: rpc.Manager of every chain (rpc/manager.go) and the pool  *)
(* goroutine that uses it when a block template cannot be fetched          *)
(* (pool/work.go, pool/nodes.go).  A search for a healthy node and the     *)
(* loops that return to the primary share activeIndex without a lock: the  *)
(* increment of nextNode is a read and a write.  Nodes fail and come back  *)
(* at any time.                                                            *)
(***************************************************************************)
EXTENDS Integers, FiniteSets

CONSTANTS
  Chains,       \* the configured chains
  Primary,      \* BlockChainOrder[0]
  NodeCount,    \* [Chains -> number of nodes]
  MaxLoops      \* bound: restore loops of a chain alive at once

ASSUME FailoverAssumption ==
  /\ Primary \in Chains
  /\ NodeCount \in [Chains -> Nat \ {0}]
  /\ MaxLoops \in Nat

Nodes(c) == 0..(NodeCount[c] - 1)

VARIABLES
  healthy,      \* external: [Chains -> nodes that answer getblocktemplate]
  activeIndex,  \* Manager.activeIndex
  cached,       \* index of the client kept in pool.activeNodes[chain].RPC
  sleeping,     \* restore loops in their sleep
  restoring,    \* restore loops that saw the primary answer
  at,           \* where the pool goroutine stands
  toCheck,      \* chains whose manager is still to be checked
  chain,        \* the chain being checked
  nodesChecked, \* FindHealthyNode's counter
  booting,      \* this fetch is the one of Start
  read,         \* what nextNode has read of activeIndex
  outcome,      \* of the last fetch: "none", "ok" or "error"
  start,        \* history: activeIndex at the start of the search
  probed,       \* history: nodes that failed the search's check
  raced         \* history, never cleared: chains of which a loop restored the primary
                \* while a search was under way

loopVars == <<sleeping, restoring>>
searchVars == <<chain, nodesChecked, read, start, probed>>
vars == <<healthy, activeIndex, cached, loopVars, at, toCheck, searchVars, booting, outcome, raced>>

Loops(c) == sleeping[c] + restoring[c]

Init ==
  /\ healthy \in [Chains -> SUBSET UNION {Nodes(c) : c \in Chains}]
  /\ \A c \in Chains : healthy[c] \subseteq Nodes(c)
  /\ activeIndex = [c \in Chains |-> 0]
  /\ cached = activeIndex
  /\ sleeping = [c \in Chains |-> 0]
  /\ restoring = [c \in Chains |-> 0]
  /\ at = "boot"
  /\ toCheck = {}
  /\ chain = Primary
  /\ nodesChecked = 0
  /\ read = 0
  /\ booting = TRUE
  /\ outcome = "none"
  /\ start = 0
  /\ probed = {}
  /\ raced = {}

(* fetchAllBlockTemplatesFromRPC through the client cached at start-up; an  *)
(* aux chain that does not answer is skipped.                               *)
Fetched == cached[Primary] \in healthy[Primary]

(* fetchRpcBlockTemplatesAndCacheWork, the first try: once in Start, where  *)
(* an error is a panic, then for every block notification, where it is      *)
(* logged.                                                                  *)
Fetch ==
  /\ at \in {"boot", "idle"}
  /\ booting' = (at = "boot")
  /\ IF Fetched
     THEN outcome' = "ok" /\ at' = "idle" /\ UNCHANGED toCheck
     ELSE outcome' = "none" /\ at' = "recover" /\ toCheck' = Chains
  /\ UNCHANGED <<healthy, activeIndex, cached, loopVars, searchVars, raced>>

(* The fetch ends: back to the notifications, or the panic of Start.        *)
Ends(o) ==
  /\ outcome' = o
  /\ at' = IF booting /\ o = "error" THEN "dead" ELSE "idle"
  /\ toCheck' = {}
  /\ UNCHANGED booting

(* PoolServer.CheckAndRecoverRPCs: the managers in the order of a Go map.   *)
CheckActive ==
  /\ at = "recover"
  /\ \E c \in toCheck :
       /\ toCheck' = toCheck \ {c}
       /\ IF activeIndex[c] \in healthy[c]
          THEN UNCHANGED <<at, searchVars>>
          ELSE /\ Loops(c) < MaxLoops
               /\ at' = "search"
               /\ chain' = c
               /\ nodesChecked' = 0
               /\ start' = activeIndex[c]
               /\ probed' = {}
               /\ UNCHANGED read
  /\ UNCHANGED <<healthy, activeIndex, cached, loopVars, booting, outcome, raced>>

(* FindHealthyNode: give up, or read activeIndex for nextNode.              *)
SearchTurn ==
  /\ at = "search"
  /\ nodesChecked' = nodesChecked + 1
  /\ IF nodesChecked' > NodeCount[chain]
     THEN Ends("error") /\ UNCHANGED read
     ELSE /\ at' = "next"
          /\ read' = activeIndex[chain]
          /\ UNCHANGED <<outcome, toCheck, booting>>
  /\ UNCHANGED <<healthy, activeIndex, cached, loopVars, chain, start, probed, raced>>

following_OffByOne(c, i) == IF i < NodeCount[c] THEN i + 1 ELSE 0
following_Sticks(c, i) == IF i < NodeCount[c] - 1 THEN i + 1 ELSE i
following(c, i) == IF i < NodeCount[c] - 1 THEN i + 1 ELSE 0

nextNode ==
  /\ at = "next"
  /\ activeIndex' = [activeIndex EXCEPT ![chain] = following(chain, read)]
  /\ at' = "check"
  /\ UNCHANGED <<healthy, cached, loopVars, toCheck, searchVars, booting, outcome, raced>>

(* checkActiveNodeHealth; the first node that answers ends the search and   *)
(* starts one more loop.                                                    *)
launched_OffPrimary == IF start = 0 THEN 0 ELSE 1
launched == 1

CheckNode ==
  /\ at = "check"
  /\ IF activeIndex[chain] \in healthy[chain]
     THEN /\ at' = "recover"
          /\ sleeping' = [sleeping EXCEPT ![chain] = @ + launched]
          /\ UNCHANGED probed
     ELSE /\ at' = "search"
          /\ probed' = probed \cup {activeIndex[chain]}
          /\ UNCHANGED sleeping
  /\ UNCHANGED <<healthy, activeIndex, cached, restoring, toCheck, chain, nodesChecked, read,
                 start, booting, outcome, raced>>

(* All managers are fine: the second and last try.                          *)
Retry ==
  /\ at = "recover"
  /\ toCheck = {}
  /\ Ends(IF Fetched THEN "ok" ELSE "error")
  /\ UNCHANGED <<healthy, activeIndex, cached, loopVars, searchVars, raced>>

(* A restore loop wakes up and CheckPrimary answers; later it restores.     *)
CheckPrimary_Active(c) == activeIndex[c] \in healthy[c]
CheckPrimary(c) == 0 \in healthy[c]

LoopSeesPrimary(c) ==
  /\ sleeping[c] > 0
  /\ CheckPrimary(c)
  /\ sleeping' = [sleeping EXCEPT ![c] = @ - 1]
  /\ restoring' = [restoring EXCEPT ![c] = @ + 1]
  /\ UNCHANGED <<healthy, activeIndex, cached, at, toCheck, searchVars, booting, outcome, raced>>

Searching(c) == at \in {"search", "next", "check"} /\ chain = c

RestorePrimary(c) ==
  /\ restoring[c] > 0
  /\ restoring' = [restoring EXCEPT ![c] = @ - 1]
  /\ activeIndex' = [activeIndex EXCEPT ![c] = 0]
  /\ raced' = IF Searching(c) THEN raced \cup {c} ELSE raced
  /\ UNCHANGED <<healthy, cached, sleeping, at, toCheck, searchVars, booting, outcome>>

(* External: a node goes down or comes back.                                *)
Flap ==
  /\ \E c \in Chains : \E n \in Nodes(c) :
       healthy' = [healthy EXCEPT ![c] = IF n \in @ THEN @ \ {n} ELSE @ \cup {n}]
  /\ UNCHANGED <<activeIndex, cached, loopVars, at, toCheck, searchVars, booting, outcome, raced>>

Pool == Fetch \/ CheckActive \/ SearchTurn \/ nextNode \/ CheckNode \/ Retry
Loop(c) == LoopSeesPrimary(c) \/ RestorePrimary(c)

Next == Pool \/ (\E c \in Chains : Loop(c)) \/ Flap

(* Goroutines proceed, RPC calls time out (rpc.go:32) and block             *)
(* notifications keep coming; the nodes promise nothing.                    *)
Spec == Init /\ [][Next]_vars /\ WF_vars(Pool) /\ \A c \in Chains : WF_vars(Loop(c))

(***************************************************************************)
(* Properties                                                              *)
(***************************************************************************)
(* Every index is one of the chain's nodes, so clients[activeIndex] never   *)
(* panics, whatever the search and the loops overwrite of each other.       *)
IndexOK ==
  /\ DOMAIN activeIndex = Chains
  /\ \A c \in Chains : activeIndex[c] \in Nodes(c)
  /\ at = "next" => read \in Nodes(chain)

TypeOK ==
  /\ IndexOK
  /\ DOMAIN healthy = Chains /\ \A c \in Chains : healthy[c] \subseteq Nodes(c)
  /\ DOMAIN cached = Chains /\ \A c \in Chains : cached[c] \in Nodes(c)
  /\ sleeping \in [Chains -> Nat]
  /\ restoring \in [Chains -> Nat]
  /\ at \in {"boot", "idle", "dead", "recover", "search", "next", "check"}
  /\ toCheck \subseteq Chains
  /\ chain \in Chains
  /\ nodesChecked \in 0..(NodeCount[chain] + 1)
  /\ at \in {"next", "check"} => nodesChecked \in 1..NodeCount[chain]
  /\ at = "search" => nodesChecked <= NodeCount[chain]
  /\ booting \in BOOLEAN
  /\ outcome \in {"none", "ok", "error"}
  /\ start \in Nodes(chain)
  /\ probed \subseteq Nodes(chain)
  /\ raced \subseteq Chains

(* FindHealthyNode gives up only after it has asked every node, and leaves  *)
(* activeIndex where it was, unless a loop restored the chain's primary in  *)
(* the middle of this search or of an earlier one.                          *)
FailedSearchIsComplete ==
  at = "search" /\ nodesChecked = NodeCount[chain] /\ chain \notin raced =>
    probed = Nodes(chain) /\ activeIndex[chain] = start

(* A manager off its primary node, with no search under way, has a loop     *)
(* that will bring it back, unless a loop ever restored that chain's        *)
(* primary in the middle of a search.                                       *)
OffPrimaryIsWatched ==
  \A c \in Chains \ raced :
    activeIndex[c] # 0 /\ ~Searching(c) => Loops(c) > 0

(* The loop CheckAndRecoverRPCs launches does its work: once the primary    *)
(* node stays up, the manager is back on it.                                *)
LoopReturnsToPrimary ==
  \A c \in Chains :
    <>[](0 \in healthy[c]) => (Loops(c) > 0 ~> activeIndex[c] = 0)

(***************************************************************************)
(* What the comments say and the code does not do                          *)
(***************************************************************************)
(* manager.go:43 "Launch loop to eventually get us back to the primary      *)
(* node": once the primary node stays up, the manager is on it again and    *)
(* again, wherever its searches ended.                                      *)
BackToPrimary ==
  \A c \in Chains : <>[](0 \in healthy[c]) => []<>(activeIndex[c] = 0)

(* README.md:16 "RPC failover for high availability": after the managers    *)
(* have found healthy nodes the second fetch goes to one of them.           *)
RetryUsesRecoveredNode ==
  [][Retry /\ activeIndex[Primary] \in healthy[Primary] => outcome' = "ok"]_vars
=============================================================================
