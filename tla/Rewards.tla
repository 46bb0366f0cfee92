------------------------------ MODULE Rewards -------------------------------
(***************************************************************************)
(* One pass of RunManager (payouts/manager.go) up to the payouts:          *)
(* unlockBlocks asks the chains about the pending blocks, every block that *)
(* is confirmed is rewarded (pool recipients first, then the miners by the *)
(* scheme of module Schemes), and only then are the new statuses saved.    *)
(***************************************************************************)
EXTENDS Schemes

CONSTANTS
  PoolRewardRecipients, \* [Chains -> Seq([address, percentage])], in per cent
  RewardTo,             \* [Chains -> the reward addresses of the chain's nodes]
  RemoteInit            \* what the chains may say of a block at the start

ASSUME RewardsAssumption ==
  /\ PoolRewardRecipients \in
       [Chains -> Seq([address : Accounts, percentage : Nat])]
  /\ RemoteInit \subseteq {"immature", "generate", "orphan", "mismatch"}

Statuses == {"pending", "orphaned", "confirmed"}

VARIABLES
  status,       \* blocks.status
  remote,       \* external: what the block's chain says of it
  local,        \* blocks of this pass, with the status found for each
  toReward,     \* blocks.GetConfirmed() not yet handled
  rcpt,         \* index of the next pool recipient
  toSave,       \* blocks of this pass not yet saved
  attempts      \* history: calls of calculateBlockRewards per block

passVars == <<local, toReward, rcpt, toSave>>
rewardsVars == <<status, remote, passVars, attempts>>

NoBlocks == [b \in {} |-> "pending"]

(* The switch on the category of the coinbase transaction.                  *)
classifyBlock_DefaultConfirms(r) == IF r = "immature" THEN "pending" ELSE "confirmed"
classifyBlock(r) ==
  CASE r = "immature" -> "pending"
    [] r = "generate" -> "confirmed"
    [] OTHER          -> "orphaned"

(* External: a coinbase matures, or its block leaves the best chain, from   *)
(* where it can come back.  A block whose coinbase hash is not the one      *)
(* recorded ("mismatch") stays so.                                          *)
Mature ==
  /\ \E b \in Blocks, r \in {"generate", "orphan"} :
       /\ remote[b] = "immature" \/ (remote[b] = "orphan" /\ r = "generate")
       /\ remote' = [remote EXCEPT ![b] = r]
  /\ UNCHANGED <<pc, faults, ledgerVars, schemeVars, status, passVars, attempts>>

(* unlockBlocks.  A confirmation hash that differs from the chain's makes   *)
(* the whole pass fail, as does any failed query; nothing was written yet.  *)
(* The list of pending blocks can be cut short like any list of rows.       *)
PendingBlocks_AnyStatus == Blocks
PendingBlocks_NotConfirmed == {b \in Blocks : status[b] # "confirmed"}
PendingBlocks == {b \in Blocks : status[b] = "pending"}

Unlock ==
  /\ pc = "sleep"
  /\ \/ \E list \in SUBSET PendingBlocks :
          /\ \A b \in list : remote[b] # "mismatch"
          /\ Charge(list # PendingBlocks)
          /\ local' = [b \in list |-> classifyBlock(remote[b])]
          /\ toReward' = {b \in list : local'[b] = "confirmed"}
          /\ pc' = "rewards"
     \/ /\ \/ \E b \in PendingBlocks : remote[b] = "mismatch" /\ faults' = faults
           \/ Charge(TRUE)
        /\ UNCHANGED <<pc, local, toReward>>
  /\ UNCHANGED <<ledgerVars, schemeVars, status, remote, rcpt, toSave, attempts>>

(* The next confirmed block; PendingBlocksForPool does not order them.      *)
StartReward ==
  /\ pc = "rewards"
  /\ \E b \in toReward :
       /\ cur' = b
       /\ remaining' = b.reward
       /\ toReward' = toReward \ {b}
       /\ attempts' = [attempts EXCEPT ![b] = @ + 1]
  /\ rcpt' = 1
  /\ pc' = "pool"
  /\ UNCHANGED <<faults, ledgerVars, scheme, shares, blockReward, loopVars, credited,
                 status, remote, local, toSave>>

(* One turn of the loop of calculatePoolReward.  A recipient that is the    *)
(* reward address of the active node is not credited: the coins are there.  *)
CreditRecipient ==
  /\ pc = "pool"
  /\ rcpt <= Len(PoolRewardRecipients[cur.chain])
  /\ LET recipient == PoolRewardRecipients[cur.chain][rcpt]
         amount    == (recipient.percentage * cur.reward) \div 100
     IN  /\ remaining' = remaining - amount
         /\ \E node \in RewardTo[cur.chain] :
              IF recipient.address = node
              THEN UNCHANGED <<pc, ledgerVars, faults, credited>>
              ELSE \E o \in AddOutcome :
                     /\ Credit(cur.chain, recipient.address, amount, o)
                     /\ pc' = IF AddFailed(o) THEN "next" ELSE pc
  /\ rcpt' = rcpt + 1
  /\ UNCHANGED <<scheme, shares, cur, blockReward, loopVars, status, remote, local,
                 toReward, toSave, attempts>>

PoolRewardDone ==
  /\ pc = "pool"
  /\ rcpt > Len(PoolRewardRecipients[cur.chain])
  /\ pc' = "scheme"
  /\ UNCHANGED <<faults, ledgerVars, schemeVars, rewardsVars>>

(* The end of the loop body: whatever happened, go on with the next block.  *)
(* The locals of calculateBlockRewards are gone.                            *)
NextReward ==
  /\ pc = "next"
  /\ ClearLocals
  /\ pc' = "rewards"
  /\ UNCHANGED <<faults, ledgerVars, scheme, shares, credited, rewardsVars>>

RewardsDone ==
  /\ pc = "rewards"
  /\ toReward = {}
  /\ toSave' = DOMAIN local
  /\ pc' = "save"
  /\ UNCHANGED <<faults, ledgerVars, schemeVars, status, remote, local, toReward, rcpt,
                 attempts>>

(* Blocks.Update for one block of the pass; an error is only logged.        *)
updatedStatus_NotInUpdate(b) == status[b]
updatedStatus(b) == local[b]

SaveBlock ==
  /\ pc = "save"
  /\ \E b \in toSave, o \in Outcome :
       /\ Charge(o # "ok")
       /\ status' = IF Applied(o) THEN [status EXCEPT ![b] = updatedStatus(b)] ELSE status
       /\ toSave' = toSave \ {b}
  /\ UNCHANGED <<pc, ledgerVars, schemeVars, remote, local, toReward, rcpt, attempts>>

SaveDone ==
  /\ pc = "save"
  /\ toSave = {}
  /\ local' = NoBlocks
  /\ pc' = "payouts"
  /\ UNCHANGED <<faults, ledgerVars, schemeVars, status, remote, toReward, rcpt, toSave,
                 attempts>>

RewardsInit ==
  /\ status = [b \in Blocks |-> "pending"]
  /\ remote \in [Blocks -> RemoteInit]
  /\ local = NoBlocks
  /\ toReward = {}
  /\ rcpt = 1
  /\ toSave = {}
  /\ attempts = [b \in Blocks |-> 0]
=============================================================================
