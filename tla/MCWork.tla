------------------------------- MODULE MCWork -------------------------------
(* The notification goroutine and the goroutine of one miner, one new block *)
(* and job IDs up to four: enough for a lost increment to reissue an ID.    *)
EXTENDS Work
=============================================================================
