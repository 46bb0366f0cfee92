----------------------------- MODULE MCPayouts ------------------------------
(* A pool that mines litecoin and dogecoin for two miners: a dogecoin block *)
(* and a litecoin block, four shares of which two have the same time.       *)
EXTENDS PayoutManager

MCChains == {"ltc", "doge"}
MCOrder == <<"ltc", "doge">>
MCAccounts == {"m1", "m2", "op"}
MCBlocks == {[id |-> 1, chain |-> "doge", miner |-> "m1", created |-> 2, reward |-> 10],
             [id |-> 2, chain |-> "ltc",  miner |-> "m2", created |-> 4, reward |-> 10]}
MCOneBlock == {b \in MCBlocks : b.id = 1}
MCShares == {[id |-> 1, miner |-> "m1", score |-> 1, created |-> 2],
             [id |-> 2, miner |-> "m2", score |-> 1, created |-> 2],
             [id |-> 3, miner |-> "m2", score |-> 3, created |-> 3],
             [id |-> 4, miner |-> "m1", score |-> 1, created |-> 1]}
MCTwoShares == {s \in MCShares : s.id < 3}
MCRecipients == [c \in MCChains |-> <<[address |-> "op", percentage |-> 20]>>]
ASSUME MCFeesAssumption == FeesWithinReward

MCRewardTo == [c \in MCChains |-> IF c = "ltc" THEN {"op", "other"} ELSE {"other"}]
MCMinimum == [c \in MCChains |-> 4]
MCSettings == [a \in {"op"} |-> 2]
MCWallets == {"L1", "D1", "L2", "D2", "O"}
MCParts == [a \in MCAccounts |-> CASE a = "m1" -> <<"L1", "D1">>
                                   [] a = "m2" -> <<"L2", "D2">>
                                   [] OTHER    -> <<"O">>]
(* Two logins with wallets of their own for litecoin, one for dogecoin.     *)
MCSharedParts == [MCParts EXCEPT !["m2"] = <<"L2", "D1">>]
=============================================================================
