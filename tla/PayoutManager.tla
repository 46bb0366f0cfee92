---------------------------- MODULE PayoutManager ---------------------------
(***************************************************************************)
(* The payout service: the goroutine of payouts.RunManager as the          *)
(* composition of Rewards and Payer over one ledger, with crashes of the   *)
(* process between any two of its steps.  The database (balances, changes, *)
(* shares, status, recorded) and the chains (remote, sentTo) survive.      *)
(***************************************************************************)
EXTENDS Rewards, Payer, Functions

vars == <<pc, faults, ledgerVars, schemeVars, rewardsVars, payerVars>>

Init ==
  /\ pc = "sleep"
  /\ LedgerInit
  /\ SchemesInit
  /\ RewardsInit
  /\ PayerInit

(* A pass of the manager: the steps of the rewards leave the payer's state  *)
(* alone and the other way round.                                           *)
SchemeStep ==
  \/ StartScheme \/ FetchPage \/ VisitShare \/ EndPage \/ Award \/ CreditMiner
  \/ DeleteSharesBefore

RewardStep ==
  \/ Unlock \/ StartReward \/ CreditRecipient \/ PoolRewardDone
  \/ NextReward \/ RewardsDone \/ SaveBlock \/ SaveDone

PayerStep == SelectDue \/ SendMany \/ RecordPayment \/ ResetBalance

Manager ==
  \/ SchemeStep /\ UNCHANGED <<rewardsVars, payerVars>>
  \/ RewardStep /\ UNCHANGED payerVars
  \/ PayerStep  /\ UNCHANGED <<schemeVars, rewardsVars>>

(* The process dies and is started again: the locals of RunManager are gone *)
(* and the loop begins with its sleep.                                      *)
Crash ==
  /\ pc # "sleep"
  /\ Charge(TRUE)
  /\ pc' = "sleep"
  /\ ClearLocals
  /\ local' = NoBlocks
  /\ toReward' = {}
  /\ rcpt' = 1
  /\ toSave' = {}
  /\ ClearPayout
  /\ UNCHANGED <<ledgerVars, scheme, shares, credited, status, remote, attempts, sentTo,
                 recorded>>

Environment == Mature /\ UNCHANGED payerVars

Next == Manager \/ Environment \/ Crash

(* The goroutine is never blocked for ever: every call it makes is bounded  *)
(* by a timeout or ends with an error, so its next step is taken at last.   *)
Spec == Init /\ [][Next]_vars /\ WF_vars(Manager)

(***************************************************************************)
(* Types                                                                   *)
(***************************************************************************)
InReward == {"pool", "scheme", "page", "share", "award", "credit", "next"}
InPayout == {"payouts", "send", "record", "reset"}
Steps == {"sleep", "rewards", "save"} \cup InReward \cup InPayout

LedgerTypes ==
  /\ faults \in 0..MaxFaults
  /\ balances \in [Rows -> Int]
  /\ changes \in [Rows -> Int]
  /\ credited \in [Rows -> Int]

SchemeTypes ==
  /\ scheme \in {"SOLO", "PPLNS", "PROP"}
  /\ shares \subseteq ShareRows
  /\ page \subseteq ShareRows
  /\ cur \in Blocks \cup {NoBlock}
  /\ pc \in InReward => cur \in Blocks
  /\ pc \in {"page", "share", "award"} => scheme # "SOLO"
  /\ remaining \in Int
  /\ blockReward \in Int
  /\ before \in Nat
  /\ awards \in [Accounts -> Int]
  /\ accumulated \in Nat
  /\ scheme = "PROP" /\ toCredit # {} => accumulated > 0
  /\ cutoff \in Nat
  /\ toCredit \subseteq Accounts
  /\ counted \subseteq ShareRows

FlagTypes == inclusive \in BOOLEAN /\ full \in BOOLEAN

RewardTypes ==
  /\ status \in [Blocks -> Statuses]
  /\ remote \in [Blocks -> {"immature", "generate", "orphan", "mismatch"}]
  /\ DOMAIN local \subseteq Blocks
  /\ local \in [DOMAIN local -> Statuses]
  /\ toReward \subseteq DOMAIN local
  /\ toSave \subseteq DOMAIN local
  /\ pc \notin InReward \cup {"rewards"} => toReward = {}
  /\ pc # "save" => toSave = {}
  /\ pc \in InPayout \cup {"sleep"} => local = NoBlocks
  /\ rcpt \in Nat \ {0}
  /\ attempts \in [Blocks -> Nat]

PayerTypes ==
  /\ DOMAIN due \subseteq Rows
  /\ due \in [DOMAIN due -> Nat]
  /\ toSend \subseteq Chains
  /\ toRecord \subseteq DOMAIN due
  /\ row \in DOMAIN due \cup {NoRow}
  /\ pc = "reset" => row \in DOMAIN due
  /\ sentTo \in [Purses -> Nat]
  /\ recorded \in [Purses -> Nat]

(* The variables of the manager, the tables and the chains have their types, *)
(* and a computation has a block, a recipient and a row where the code uses *)
(* one.                                                                     *)
TypeOK ==
  /\ pc \in Steps
  /\ LedgerTypes
  /\ SchemeTypes
  /\ FlagTypes
  /\ RewardTypes
  /\ PayerTypes

(***************************************************************************)
(* Safety                                                                  *)
(***************************************************************************)
(* Rows whose wallet no other row of the chain shares.                      *)
Sole(r) == \A q \in Rows : Purse(q) = Purse(r) => q = r

SoleRows == {r \in Rows : Sole(r)}

(* What was taken off a row so far.                                         *)
Spent(r) == credited[r] - balances[r]

(* Whatever fails and whenever the process dies, a balance is only ever     *)
(* reset for coins that a node has really sent to the miner's wallet        *)
(* (payer.go resets after SendMany and after the payment is recorded).      *)
NoUnpaidReset == \A r \in Rows : Sole(r) => Spent(r) <= sentTo[Purse(r)]

(* The payments table never claims more than the nodes have sent, although  *)
(* a row is inserted again for every repeated payout (payer.go:50).         *)
RecordedWasSent ==
  \A r \in Rows : Sole(r) => recorded[Purse(r)] <= sentTo[Purse(r)]

(* Why the two hold: once its chain's transaction is out, a row still to be *)
(* recorded or reset is covered by coins nobody else accounts for.          *)
PayoutOrder ==
  /\ pc \in {"record", "reset"} => toSend = {}
  /\ pc = "reset" => row \notin toRecord

CoveredBy(r, coins) ==
  /\ Spent(r) <= coins
  /\ recorded[Purse(r)] <= coins
  /\ pc \in {"send", "record", "reset"} /\ r \in toRecord /\ r[1] \notin toSend =>
       /\ Spent(r) + due[r] <= coins
       /\ recorded[Purse(r)] + due[r] <= coins
  /\ pc = "reset" /\ row = r => Spent(r) + due[r] <= coins

PaidCover == \A r \in Rows : Sole(r) => CoveredBy(r, sentTo[Purse(r)])

(* A row is never driven below zero, although the amount subtracted was     *)
(* read before the sends (payer.go:23, payer.go:64).                        *)
BalancesNonNegative == \A r \in Rows : balances[r] >= 0

(* AddAmount is two statements without a transaction (balance.go:44, 67):   *)
(* the log and the balance of a row can part, but only by a failure or a    *)
(* crash each.                                                              *)
TornRowsBounded == Cardinality({r \in Rows : changes[r] # balances[r]}) <= faults

(* A block is rewarded again only when saving its status failed or the      *)
(* process died before it (manager.go:50).                                  *)
RewardedOncePerFault == \A b \in Blocks : attempts[b] <= 1 + faults

(* All that is credited on a chain, fees and miners together, is within the *)
(* rewards of the blocks, once per attempt, whatever the scheme rounds.     *)
CreditedOn(c) == [a \in Accounts |-> credited[<<c, a>>]]
RewardsOn(c)  == [b \in Blocks |-> IF b.chain = c THEN attempts[b] * b.reward ELSE 0]

CreditedWithinRewards ==
  \A c \in Chains : SumFunction(CreditedOn(c)) <= SumFunction(RewardsOn(c))

(* What an operator has to see to, for nothing in the code does: the fees   *)
(* configured for a chain (rewards.go:30-31) add up to 100 per cent at the  *)
(* most.                                                                    *)
Fees(c) == [i \in DOMAIN PoolRewardRecipients[c] |-> PoolRewardRecipients[c][i].percentage]
FeesWithinReward == \A c \in Chains : SumFunction(Fees(c)) <= 100

(* Only a block that its chain confirmed is rewarded or saved as confirmed, *)
(* although the chain goes on while the pass runs on what unlockBlocks read. *)
OnlyConfirmedRewarded ==
  \A b \in Blocks : attempts[b] > 0 \/ status[b] = "confirmed" => remote[b] = "generate"

(* Why these hold: the blocks of a pass stay pending until they are saved,  *)
(* what was found confirmed stays confirmed, and an attempt that no status  *)
(* and no running pass accounts for has cost a failure.                     *)
PassBlocks ==
  /\ \A b \in DOMAIN local : pc # "save" => status[b] = "pending"
  /\ \A b \in toSave : status[b] = "pending"
  /\ \A b \in DOMAIN local : local[b] = "confirmed" => remote[b] = "generate"
  /\ \A b \in toReward : local[b] = "confirmed"

RewardAccounted(b) ==
  \/ status[b] # "pending"
  \/ /\ b \in DOMAIN local
     /\ local[b] = "confirmed"
     /\ b \notin toReward
     /\ pc = "save" => b \in toSave

AttemptBound ==
  \A b \in Blocks : /\ attempts[b] <= 1 + faults
                    /\ ~RewardAccounted(b) => attempts[b] <= faults

(* Between two passes without a failure every wallet has got exactly what   *)
(* was taken off its balance, and exactly that is recorded.                 *)
SettledWhenIdle ==
  faults = 0 /\ pc = "sleep" =>
    \A r \in Rows : Sole(r) => /\ sentTo[Purse(r)] = Spent(r)
                               /\ recorded[Purse(r)] = Spent(r)

(* A status is final: a block decided once is not looked at again.          *)
StatusFinal ==
  [][\A b \in Blocks : status[b] # "pending" => status'[b] = status[b]]_vars

(* Under PROP no share is deleted that was not counted for the block just   *)
(* rewarded, page after page, unless a failure cut a page short: but for    *)
(* shares that share their time with a counted one, which the strict start  *)
(* of the next page passes over (prop.go:56, manager.go:42).                *)
DeletedWereCounted ==
  [][scheme = "PROP" /\ faults = 0 =>
       \A s \in shares \ shares' : \E t \in counted : t.created = s.created]_vars

(* Why AccountBook is kept: nothing changes a row between its selection and *)
(* its reset, so what is due is what the row is owed, and a row reset was   *)
(* recorded before.                                                         *)
DueIsOwed ==
  /\ pc = "send" => toRecord = DOMAIN due
  /\ pc \in {"send", "record", "reset"} =>
       \A r \in toRecord : due[r] = balances[r] /\ due[r] > 0
  /\ pc = "reset" => due[row] = balances[row] /\ due[row] > 0

RecordedCover ==
  \A r \in SoleRows :
    /\ Spent(r) <= recorded[Purse(r)]
    /\ pc = "reset" /\ row = r => Spent(r) + due[r] <= recorded[Purse(r)]

(* The books of the rows with a wallet of their own are kept as AccountBook *)
(* promises: through failures and restarts a pass only sends, records and   *)
(* resets what a row is owed at that moment, in that order.                 *)
Book == INSTANCE AccountBook WITH
          Owners   <- SoleRows,
          credited <- [r \in SoleRows |-> credited[r]],
          sent     <- [r \in SoleRows |-> sentTo[Purse(r)]],
          recorded <- [r \in SoleRows |-> recorded[Purse(r)]],
          settled  <- [r \in SoleRows |-> Spent(r)]

KeepsAccountBook == Book!Spec

(***************************************************************************)
(* What comments and messages of the code say and the code does not do     *)
(***************************************************************************)
(* payer.go:63 "Paid balance to miner": every payment recorded was sent,    *)
(* also where two logins of the pool name the same wallet for a chain.      *)
PaidBalanceToMiner == \A p \in Purses : recorded[p] <= sentTo[p]

(* pplns.go:60 "we awarded more than we have": the scheme gives up a block  *)
(* only when the awards exceed the reward.                                  *)
OverflowMeansOverspent ==
  scheme = "PPLNS" /\ pc = "next" /\ remaining <= 0 =>
    SumFunction(awards) > blockReward

(***************************************************************************)
(* Liveness                                                                *)
(***************************************************************************)
NoMismatch == \A b \in Blocks : remote[b] # "mismatch"

(* A block that its chain has decided gets a final status at last, unless a *)
(* block whose coinbase does not match ends every pass (unlock.go:65).      *)
DecidedIsSaved ==
  \A b \in Blocks :
    NoMismatch /\ remote[b] \in {"generate", "orphan"} ~> status[b] # "pending"

(* A balance over the threshold is paid out at last, under the same premise. *)
BalancePaidOut ==
  \A r \in Rows : NoMismatch /\ balances[r] >= Threshold(r) ~> balances[r] < Threshold(r)
=============================================================================
