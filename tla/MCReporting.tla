---------------------------- MODULE MCReporting -----------------------------
(* One miner with two workers and a share of each.  Ticks are tenths of a   *)
(* second.  The clock stands on both sides of the window, the stale limit   *)
(* and the hour, at moments that are no whole seconds apart, and two hours  *)
(* after a row that is in the query of a history but in none of its slots.  *)
EXTENDS Reporting

MCSubmissions == {1, 2}
MCMiners == {"m1"}
MCWorkers == {"w1", "w2"}
MCMinerOf == [w \in MCWorkers |-> "m1"]
MCWorkerOf == [s \in MCSubmissions |-> IF s = 1 THEN "w1" ELSE "w2"]
MCDifficulty == [s \in MCSubmissions |-> s]
MCInstants == {0, 1805, 36605, 73000}
=============================================================================
