----------------------------- MODULE MCFailover -----------------------------
(* A primary chain with two or three nodes and an aux chain with one.       *)
EXTENDS Failover

MCChains == {"ltc", "doge"}
MCThreeNodes == [c \in MCChains |-> IF c = "ltc" THEN 3 ELSE 1]
MCTwoNodes == [c \in {"ltc"} |-> 2]
=============================================================================
