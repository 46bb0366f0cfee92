------------------------ MODULE PayoutManager_proofs ------------------------
(* Proofs about the payout service, for any chains, accounts, blocks,       *)
(* shares, fees, schemes, thresholds and number of failures.                *)
EXTENDS PayoutManager, FiniteSetTheorems, Sums_proofs, TLAPS

(* Integer division keeps the rewards integers.                             *)
LEMMA DivInt == \A i \in Int, n \in Nat \ {0} : i \div n \in Int
  BY SMT

LEMMA MulInt == \A i, j \in Int : i * j \in Int
  BY SMT

LEMMA ElementOf ==
  ASSUME NEW S, NEW s \in Seq(S), NEW i \in 1..Len(s)
  PROVE  s[i] \in S
  OBVIOUS

(* AddAmount keeps the two tables well typed and the faults within bounds.  *)
LEMMA AddAmountTypes ==
  ASSUME LedgerTypes,
         NEW c \in Chains, NEW a \in Accounts, NEW amount \in Int, NEW o \in AddOutcome,
         AddAmount(c, a, amount, o)
  PROVE  /\ faults' \in 0..MaxFaults
         /\ balances' \in [Rows -> Int]
         /\ changes' \in [Rows -> Int]
  BY LedgerAssumption DEF LedgerTypes, AddAmount, Charge, Rows

LEMMA CreditTypes ==
  ASSUME LedgerTypes,
         NEW c \in Chains, NEW a \in Accounts, NEW amount \in Int, NEW o \in AddOutcome,
         Credit(c, a, amount, o)
  PROVE  LedgerTypes'
<1>1. AddAmount(c, a, amount, o)
  BY DEF Credit
<1>2. credited' \in [Rows -> Int]
  BY DEF Credit, LedgerTypes, Rows
<1> QED BY <1>1, <1>2, AddAmountTypes DEF LedgerTypes

LEMMA ChargeTypes ==
  ASSUME LedgerTypes, NEW failed \in BOOLEAN, Charge(failed),
         UNCHANGED <<ledgerVars, credited>>
  PROVE  LedgerTypes'
  BY LedgerAssumption DEF LedgerTypes, Charge, ledgerVars

(***************************************************************************)
(* Type correctness                                                        *)
(***************************************************************************)
(* The steps of a scheme.                                                   *)
LEMMA SchemeStepTypes ==
  ASSUME TypeOK, SchemeStep, UNCHANGED <<rewardsVars, payerVars>>
  PROVE  TypeOK'
<1> USE DEF TypeOK
<1>p. pc \in InReward /\ pc' \in InReward
  <2>1. CASE StartScheme
    BY <2>1 DEF remainingReward, StartScheme, InReward
  <2>2. CASE FetchPage
    BY <2>2 DEF FetchPage, InReward
  <2>3. CASE VisitShare
    BY <2>3 DEF VisitShare, VisitPPLNS, VisitPROP, InReward
  <2>4. CASE EndPage
    BY <2>4 DEF EndPage, InReward
  <2>5. CASE Award
    BY <2>5 DEF Award, InReward
  <2>6. CASE CreditMiner \/ DeleteSharesBefore
    BY <2>6 DEF CreditMiner, DeleteSharesBefore, InReward
  <2> QED BY <2>1, <2>2, <2>3, <2>4, <2>5, <2>6 DEF SchemeStep
<1>a. RewardTypes'
  BY <1>p DEF RewardTypes, rewardsVars, passVars, InReward, InPayout
<1>b. PayerTypes'
  BY <1>p DEF PayerTypes, payerVars, payoutVars, InReward
<1>s. pc' \in Steps
  BY <1>p DEF Steps
<1>c. FlagTypes'
  <2>1. CASE StartScheme
    BY <2>1 DEF remainingReward, StartScheme, FlagTypes
  <2>2. CASE FetchPage
    BY <2>2 DEF FetchPage, FlagTypes
  <2>3. CASE VisitShare \/ EndPage \/ Award \/ CreditMiner \/ DeleteSharesBefore
    BY <2>3 DEF VisitShare, EndPage, Award, CreditMiner, DeleteSharesBefore, FlagTypes,
                schemeVars, loopVars
  <2> QED BY <2>1, <2>2, <2>3 DEF SchemeStep
<1>1. CASE StartScheme
  <2>2. LedgerTypes'
    BY <1>1 DEF remainingReward, StartScheme, LedgerTypes, ledgerVars
  <2>3. SchemeTypes'
    <3>1. /\ cur \in Blocks /\ cur.miner \in Accounts /\ cur.created \in Nat
          /\ NoAwards \in [Accounts -> Int]
      BY <1>1, SchemesAssumption DEF remainingReward, StartScheme, SchemeTypes, InReward, NoAwards
    <3>2. awards' \in [Accounts -> Int]
      <4>1. CASE scheme = "SOLO"
        <5>1. awards' = [NoAwards EXCEPT ![cur.miner] = remaining]
          BY <1>1, <4>1 DEF remainingReward, StartScheme
        <5> QED BY <3>1, <5>1 DEF SchemeTypes
      <4>2. CASE scheme # "SOLO"
        BY <1>1, <3>1, <4>2 DEF remainingReward, StartScheme
      <4> QED BY <4>1, <4>2
    <3> QED BY <1>1, <3>1, <3>2 DEF remainingReward, StartScheme, SchemeTypes, InReward
  <2> QED BY <1>s, <1>a, <1>b, <1>c, <2>2, <2>3
<1>2. CASE FetchPage
  <2>2. LedgerTypes'
    BY <1>2, LedgerAssumption DEF FetchPage, LedgerTypes, ledgerVars, Charge
  <2>3. SchemeTypes'
    <3>1. SharesBefore \subseteq ShareRows
      BY DEF SharesBefore, SchemeTypes
    <3>2. CASE pc' = "next"
      BY <1>2, <3>2 DEF FetchPage, SchemeTypes, InReward
    <3>3. CASE pc' # "next"
      <4>1. PICK p \in Pages(SharesBefore) :
              /\ page' = p
              /\ IF p = {}
                 THEN before' = before
                 ELSE \E s \in p : /\ \A t \in p : s.created <= t.created
                                   /\ before' = s.created
        BY <1>2, <3>3 DEF FetchPage
      <4>2. p \subseteq ShareRows
        BY <3>1 DEF Pages
      <4>3. before' \in Nat
        BY <4>1, <4>2, SchemesAssumption DEF SchemeTypes
      <4>4. /\ pc' = "share"
            /\ cur \in Blocks
            /\ scheme # "SOLO"
            /\ UNCHANGED <<scheme, shares, cur, remaining, blockReward, awards,
                           accumulated, cutoff, toCredit, counted>>
        BY <1>2, <3>3 DEF FetchPage, SchemeTypes, InReward
      <4> QED BY <4>1, <4>2, <4>3, <4>4 DEF SchemeTypes, InReward
    <3> QED BY <3>2, <3>3
  <2> QED BY <1>s, <1>a, <1>b, <1>c, <2>2, <2>3
<1>3. CASE VisitShare
  <2>1. PICK s \in page : /\ page' = page \ {s}
                          /\ IF scheme = "PPLNS" THEN VisitPPLNS(s) ELSE VisitPROP(s)
    BY <1>3 DEF VisitShare
  <2>2. /\ s.miner \in Accounts
        /\ s.score \in Nat \ {0}
        /\ s.created \in Nat
    BY <2>1, SchemesAssumption DEF SchemeTypes
  <2>3. pc' \in {"share", "next"}
    BY <1>3, <2>1 DEF VisitShare, VisitPPLNS, VisitPROP
  <2>4. LedgerTypes'
    BY <1>3 DEF VisitShare, LedgerTypes, ledgerVars
  <2>5. SchemeTypes'
    <3>1. CASE scheme = "PPLNS"
      <4> DEFINE score == IF accumulated + s.score >= NWindow
                          THEN NWindow - accumulated ELSE s.score
                 reward == (score * blockReward) \div NWindow
      <4>1. score \in Int /\ blockReward \in Int
        BY <2>2, SchemesAssumption DEF SchemeTypes
      <4>2. reward \in Int
        <5> HIDE DEF score
        <5> QED BY <4>1, DivInt, MulInt, SchemesAssumption
      <4>3. /\ awards' = [awards EXCEPT ![s.miner] = @ + reward]
            /\ remaining' = remaining - reward
            /\ toCredit' = toCredit \cup {s.miner}
            /\ UNCHANGED <<accumulated, cutoff>>
        BY <2>1, <3>1 DEF VisitPPLNS
      <4> HIDE DEF reward
      <4>4. awards' \in [Accounts -> Int] /\ remaining' \in Int
        BY <4>2, <4>3, <2>2 DEF SchemeTypes
      <4> QED BY <1>3, <2>1, <2>2, <3>1, <4>3, <4>4 DEF SchemeTypes, InReward, VisitShare
    <3>2. CASE scheme # "PPLNS"
      <4>1. VisitPROP(s)
        BY <2>1, <3>2
      <4>2. /\ awards' \in [Accounts -> Int]
            /\ accumulated' \in Nat \ {0}
            /\ cutoff' \in Nat
        BY <4>1, <2>2 DEF VisitPROP, SchemeTypes
      <4> QED BY <1>3, <2>1, <2>2, <4>1, <4>2 DEF SchemeTypes, InReward, VisitShare, VisitPROP
    <3> QED BY <3>1, <3>2
  <2> QED BY <1>s, <1>a, <1>b, <1>c, <2>4, <2>5
<1>4. CASE EndPage
  <2> QED BY <1>4, <1>p, <1>s, <1>a, <1>b, <1>c
      DEF InReward, EndPage, LedgerTypes, SchemeTypes, ledgerVars, schemeVars, loopVars
<1>5. CASE Award
  <2>1. pc' \in {"credit", "next"}
    BY <1>5 DEF Award
  <2>2. LedgerTypes'
    BY <1>5 DEF Award, LedgerTypes, ledgerVars
  <2>3. awards' \in [Accounts -> Int]
    <3>1. CASE scheme = "PPLNS" \/ toCredit = {}
      BY <1>5, <3>1 DEF Award, SchemeTypes, InReward
    <3>2. CASE scheme # "PPLNS" /\ toCredit # {} /\ scheme = "PROP"
      <4>1. awards' = [a \in Accounts |-> (awards[a] * blockReward) \div accumulated]
        BY <1>5, <3>2 DEF Award
      <4>2. accumulated \in Nat \ {0}
        BY <3>2 DEF SchemeTypes
      <4>3. \A a \in Accounts : (awards[a] * blockReward) \div accumulated \in Int
        BY <4>2, DivInt, MulInt DEF SchemeTypes
      <4> QED BY <4>1, <4>3
    <3> QED BY <1>5, <3>1, <3>2 DEF Award, SchemeTypes, InReward
  <2>4. SchemeTypes'
    BY <1>5, <2>1, <2>3 DEF Award, SchemeTypes, InReward
  <2> QED BY <1>s, <1>a, <1>b, <1>c, <2>2, <2>4
<1>6. CASE CreditMiner
  <2>1. PICK a \in toCredit, o \in AddOutcome :
          /\ Credit(cur.chain, a, awards[a], o)
          /\ toCredit' = toCredit \ {a}
          /\ pc' = IF AddFailed(o) THEN "next" ELSE pc
    BY <1>6 DEF CreditMiner
  <2>2. pc = "credit" /\ cur.chain \in Chains /\ a \in Accounts /\ awards[a] \in Int
    BY <1>6, SchemesAssumption DEF CreditMiner, SchemeTypes, InReward
  <2>3. LedgerTypes'
    BY <2>1, <2>2, CreditTypes
  <2>4. SchemeTypes'
    BY <1>6, <2>1, <2>2 DEF CreditMiner, SchemeTypes, InReward
  <2> QED BY <1>s, <1>a, <1>b, <1>c, <2>3, <2>4
<1>7. CASE DeleteSharesBefore
  <2>1. LedgerTypes'
    BY <1>7, LedgerAssumption
    DEF DeleteSharesBefore, Charge, LedgerTypes, ledgerVars
  <2>2. SchemeTypes' /\ pc' = "next"
    BY <1>7 DEF DeleteSharesBefore, SchemeTypes, InReward, loopVars
  <2> QED BY <1>s, <1>a, <1>b, <1>c, <2>1, <2>2
<1> QED BY <1>1, <1>2, <1>3, <1>4, <1>5, <1>6, <1>7 DEF SchemeStep

(* The steps of a pass around the schemes.                                  *)
LEMMA RewardStepTypes ==
  ASSUME TypeOK, RewardStep, UNCHANGED payerVars
  PROVE  TypeOK'
<1> USE DEF TypeOK
<1>a. ASSUME pc' # "reset" PROVE PayerTypes'
  BY <1>a DEF PayerTypes, payerVars, payoutVars
<1>b. ASSUME UNCHANGED <<inclusive, full>> PROVE FlagTypes'
  BY <1>b DEF FlagTypes
<1>1. CASE Unlock
  <2>1. pc' \in {"sleep", "rewards"} /\ UNCHANGED schemeVars
    BY <1>1 DEF Unlock
  <2>2. LedgerTypes'
    BY <1>1, LedgerAssumption DEF Unlock, Charge, LedgerTypes, ledgerVars, schemeVars
  <2>3. SchemeTypes' /\ UNCHANGED <<inclusive, full>>
    BY <2>1 DEF SchemeTypes, InReward, InPayout, schemeVars, loopVars
  <2>4. RewardTypes'
    <3>1. CASE pc' = "sleep"
      BY <1>1, <3>1 DEF Unlock, RewardTypes, InReward, InPayout
    <3>2. CASE pc' = "rewards"
      <4>1. PICK list \in SUBSET PendingBlocks :
              /\ local' = [b \in list |-> classifyBlock(remote[b])]
              /\ toReward' = {b \in list : local'[b] = "confirmed"}
        BY <1>1, <3>2 DEF Unlock
      <4>2. DOMAIN local' = list /\ list \subseteq Blocks
        BY <4>1 DEF PendingBlocks
      <4>3. local' \in [DOMAIN local' -> Statuses]
        BY <4>1, <4>2 DEF classifyBlock, Statuses
      <4>4. toSave = {}
        BY <1>1 DEF Unlock, RewardTypes, InReward, InPayout
      <4> QED BY <1>1, <4>1, <4>2, <4>3, <4>4 DEF Unlock, RewardTypes, InReward, InPayout
    <3> QED BY <2>1, <3>1, <3>2
  <2> QED BY <1>a, <1>b, <2>1, <2>2, <2>3, <2>4 DEF Steps, InReward, InPayout
<1>2. CASE StartReward
  <2>1. PICK b \in toReward : /\ cur' = b
                              /\ remaining' = b.reward
                              /\ toReward' = toReward \ {b}
                              /\ attempts' = [attempts EXCEPT ![b] = @ + 1]
    BY <1>2 DEF StartReward
  <2>2. b \in Blocks /\ b.reward \in Nat
    BY <2>1, SchemesAssumption DEF RewardTypes
  <2>3. LedgerTypes'
    BY <1>2 DEF StartReward, LedgerTypes, ledgerVars
  <2>4. SchemeTypes' /\ UNCHANGED <<inclusive, full>>
    BY <1>2, <2>1, <2>2 DEF StartReward, SchemeTypes, InReward, InPayout, loopVars
  <2>5. RewardTypes'
    BY <1>2, <2>1, <2>2 DEF StartReward, RewardTypes, InReward, InPayout
  <2>6. pc' = "pool"
    BY <1>2 DEF StartReward
  <2> QED BY <1>a, <1>b, <2>3, <2>4, <2>5, <2>6 DEF Steps, InReward, InPayout
<1>3. CASE CreditRecipient
  <2> DEFINE recipient == PoolRewardRecipients[cur.chain][rcpt]
             amount    == (recipient.percentage * cur.reward) \div 100
  <2>1. cur \in Blocks /\ cur.chain \in Chains /\ cur.reward \in Nat
    BY <1>3, SchemesAssumption DEF CreditRecipient, SchemeTypes, InReward, InPayout
  <2>2. PoolRewardRecipients[cur.chain] \in Seq([address : Accounts, percentage : Nat])
    BY <2>1, RewardsAssumption
  <2>3. rcpt \in 1..Len(PoolRewardRecipients[cur.chain])
    BY <1>3, <2>2 DEF CreditRecipient, RewardTypes, InReward, InPayout
  <2>4. recipient \in [address : Accounts, percentage : Nat]
    BY <2>2, <2>3, ElementOf
  <2>5. recipient.address \in Accounts /\ recipient.percentage \in Nat
    BY <2>4
  <2>6. amount \in Int
    <3> HIDE DEF recipient
    <3> QED BY <2>1, <2>5, DivInt, MulInt
  <2>7. /\ remaining' = remaining - amount
        /\ \/ UNCHANGED <<pc, ledgerVars, faults, credited>>
           \/ \E o \in AddOutcome :
                /\ Credit(cur.chain, recipient.address, amount, o)
                /\ pc' = IF AddFailed(o) THEN "next" ELSE pc
    BY <1>3 DEF CreditRecipient
  <2>8. pc = "pool" /\ pc' \in {"pool", "next"}
    BY <1>3, <2>7 DEF CreditRecipient
  <2>9. LedgerTypes'
    <3> HIDE DEF amount, recipient
    <3>1. CASE UNCHANGED <<pc, ledgerVars, faults, credited>>
      BY <3>1 DEF LedgerTypes, ledgerVars
    <3>2. ASSUME NEW o \in AddOutcome,
                 Credit(cur.chain, recipient.address, amount, o)
          PROVE  LedgerTypes'
      BY <2>1, <2>5, <2>6, <3>2, CreditTypes
    <3> QED BY <2>7, <3>1, <3>2
  <2>10. SchemeTypes' /\ UNCHANGED <<inclusive, full>>
    <3> HIDE DEF amount, recipient
    <3> QED BY <1>3, <2>1, <2>6, <2>7, <2>8 DEF CreditRecipient, SchemeTypes, InReward, InPayout, loopVars
  <2>11. RewardTypes'
    BY <1>3 DEF CreditRecipient, RewardTypes, InReward, InPayout
  <2> QED BY <1>a, <1>b, <2>8, <2>9, <2>10, <2>11 DEF Steps, InReward, InPayout
<1>4. CASE PoolRewardDone
  <2>1. LedgerTypes' /\ SchemeTypes' /\ RewardTypes' /\ UNCHANGED <<inclusive, full>>
    BY <1>4 DEF PoolRewardDone, LedgerTypes, SchemeTypes, InReward, InPayout, RewardTypes, InReward, InPayout, ledgerVars,
                schemeVars, loopVars, rewardsVars, passVars
  <2>2. pc' = "scheme"
    BY <1>4 DEF PoolRewardDone
  <2> QED BY <1>a, <1>b, <2>1, <2>2 DEF Steps, InReward, InPayout
<1>5. CASE NextReward
  <2>1. LedgerTypes' /\ RewardTypes'
    BY <1>5 DEF NextReward, LedgerTypes, RewardTypes, InReward, InPayout, ledgerVars, rewardsVars, passVars
  <2>2. SchemeTypes'
    BY <1>5 DEF NextReward, ClearLocals, SchemeTypes, InReward, InPayout, NoAwards
  <2>3. FlagTypes'
    BY <1>5 DEF NextReward, ClearLocals, FlagTypes
  <2>4. pc' = "rewards"
    BY <1>5 DEF NextReward
  <2> QED BY <1>a, <2>1, <2>2, <2>3, <2>4 DEF Steps, InReward, InPayout
<1>6. CASE RewardsDone
  <2>1. LedgerTypes' /\ SchemeTypes' /\ UNCHANGED <<inclusive, full>>
    BY <1>6 DEF RewardsDone, LedgerTypes, SchemeTypes, InReward, InPayout, ledgerVars, schemeVars, loopVars
  <2>2. RewardTypes' /\ pc' = "save"
    BY <1>6 DEF RewardsDone, RewardTypes, InReward, InPayout
  <2> QED BY <1>a, <1>b, <2>1, <2>2 DEF Steps, InReward, InPayout
<1>7. CASE SaveBlock
  <2>1. LedgerTypes'
    BY <1>7, LedgerAssumption DEF SaveBlock, updatedStatus, Charge, LedgerTypes, ledgerVars, schemeVars
  <2>2. SchemeTypes' /\ UNCHANGED <<inclusive, full>> /\ pc' = "save"
    BY <1>7 DEF SaveBlock, updatedStatus, SchemeTypes, InReward, InPayout, schemeVars, loopVars
  <2>3. RewardTypes'
    BY <1>7 DEF SaveBlock, updatedStatus, RewardTypes, InReward, InPayout, Applied
  <2> QED BY <1>a, <1>b, <2>1, <2>2, <2>3 DEF Steps, InReward, InPayout
<1>8. CASE SaveDone
  <2>1. LedgerTypes' /\ SchemeTypes' /\ UNCHANGED <<inclusive, full>> /\ pc' = "payouts"
    BY <1>8 DEF SaveDone, LedgerTypes, SchemeTypes, InReward, InPayout, ledgerVars, schemeVars, loopVars
  <2>2. RewardTypes'
    BY <1>8 DEF SaveDone, RewardTypes, InReward, InPayout, NoBlocks
  <2> QED BY <1>a, <1>b, <2>1, <2>2 DEF Steps, InReward, InPayout
<1> QED BY <1>1, <1>2, <1>3, <1>4, <1>5, <1>6, <1>7, <1>8 DEF RewardStep

(* A row's wallet is one of the wallets, so its purse is one of the purses. *)
LEMMA PurseType ==
  ASSUME NEW r \in Rows
  PROVE  /\ findBalanceAddress(r) \in Wallets
         /\ Purse(r) \in Purses
         /\ r = <<r[1], r[2]>>
         /\ r[1] \in Chains
         /\ r[2] \in Accounts
<1>1. r = <<r[1], r[2]>> /\ r[1] \in Chains /\ r[2] \in Accounts
  BY DEF Rows
<1>2. Parts[r[2]] \in Seq(Wallets) /\ BlockChainOrder \in Seq(Chains)
  BY <1>1, PayerAssumption
<1>3. Len(Parts[r[2]]) \in {1, Len(BlockChainOrder)}
  BY <1>1, PayerAssumption
<1>4. chainIndex(r[1]) \in DOMAIN BlockChainOrder
  BY <1>1, PayerAssumption DEF chainIndex
<1>5. chainIndex(r[1]) \in 1..Len(BlockChainOrder)
  BY <1>2, <1>4
<1>6. Len(BlockChainOrder) \in Nat /\ Len(Parts[r[2]]) \in Nat
  BY <1>2
<1>7. findBalanceAddress(r) \in Wallets
  <2>1. CASE Len(BlockChainOrder) > 1 /\ Len(Parts[r[2]]) > 1
    <3>1. chainIndex(r[1]) \in 1..Len(Parts[r[2]])
      BY <1>3, <1>5, <1>6, <2>1
    <3> QED BY <1>2, <2>1, <3>1, ElementOf DEF findBalanceAddress
  <2>2. CASE ~(Len(BlockChainOrder) > 1 /\ Len(Parts[r[2]]) > 1)
    <3>1. Len(BlockChainOrder) >= 1
      <4>1. \A n \in Nat : \A i \in 1..n : n >= 1
        OBVIOUS
      <4> QED BY <4>1, <1>5, <1>6
    <3>2. Len(Parts[r[2]]) >= 1
      BY <1>3, <3>1
    <3>3. 1 \in 1..Len(Parts[r[2]])
      BY <1>6, <3>2
    <3> QED BY <1>2, <2>2, <3>3, ElementOf DEF findBalanceAddress
  <2> QED BY <2>1, <2>2
<1> QED BY <1>1, <1>7 DEF Purse, Purses

LEMMA ThresholdType ==
  ASSUME NEW r \in Rows
  PROVE  Threshold(r) \in Nat \ {0}
  BY PurseType, PayerAssumption DEF Threshold

(* The amount a transaction pays to a wallet is due to a row of the wallet. *)
LEMMA TransactionType ==
  ASSUME PayerTypes, NEW c \in Chains, NEW tx \in Transactions(c)
  PROVE  /\ \A w \in DOMAIN tx : tx[w] \in Nat
         /\ \A r \in DOMAIN due : r[1] = c => findBalanceAddress(r) \in DOMAIN tx
         /\ \A w \in DOMAIN tx : \E r \in DOMAIN due :
              r[1] = c /\ findBalanceAddress(r) = w /\ tx[w] = due[r]
  BY DEF Transactions, PayerTypes

(* The steps of a payout.                                                   *)
LEMMA PayerStepTypes ==
  ASSUME TypeOK, PayerStep, UNCHANGED <<schemeVars, rewardsVars>>
  PROVE  TypeOK'
<1> USE DEF TypeOK
<1>p. pc \in InPayout /\ pc' \in InPayout \cup {"sleep"}
  BY DEF PayerStep, SelectDue, SendMany, sendSucceeded, RecordPayment, ResetBalance,
     AfterReset, NextRow, PayoutEnds, InPayout
<1>a. RewardTypes' /\ SchemeTypes'
  BY <1>p DEF RewardTypes, SchemeTypes, schemeVars, loopVars, rewardsVars, passVars,
              InPayout, InReward
<1>b. FlagTypes'
  BY DEF FlagTypes, schemeVars, loopVars
<1>s. pc' \in Steps
  BY <1>p DEF Steps
<1>c. UNCHANGED credited
  BY DEF schemeVars
<1>d. ASSUME ClearPayout, pc' = "sleep", UNCHANGED <<sentTo, recorded>>
      PROVE  PayerTypes'
  BY <1>d DEF ClearPayout, PayerTypes, NoDue
<1>1. CASE SelectDue
  <2>1. LedgerTypes'
    BY <1>1, <1>c, LedgerAssumption DEF SelectDue, PayoutEnds, Charge, LedgerTypes, ledgerVars
  <2>2. PayerTypes'
    <3>1. ASSUME NEW rows \in SUBSET OverThreshold,
                 due' = [r \in rows |-> balances[r]],
                 toSend' = {r[1] : r \in rows},
                 toRecord' = rows, row' = NoRow, pc' # "reset",
                 UNCHANGED <<sentTo, recorded>>
          PROVE  PayerTypes'
      <4>1. \A r \in rows : r \in Rows /\ balances[r] \in Nat
        BY <3>1, ThresholdType DEF OverThreshold, LedgerTypes
      <4>2. toSend' \subseteq Chains
        BY <3>1, <4>1, PurseType
      <4> QED BY <3>1, <4>1, <4>2 DEF PayerTypes
    <3> QED BY <1>1, <3>1, <1>d DEF SelectDue, PayoutEnds
  <2> QED BY <1>a, <1>b, <1>s, <2>1, <2>2
<1>2. CASE SendMany
  <2>1. PICK c \in toSend, o \in Outcome :
          /\ Charge(o # "ok")
          /\ IF Applied(o)
             THEN \E tx \in Transactions(c) :
                    sentTo' = [p \in Purses |->
                                 IF p[1] = c /\ p[2] \in DOMAIN tx
                                 THEN sentTo[p] + tx[p[2]] ELSE sentTo[p]]
             ELSE sentTo' = sentTo
          /\ IF o = "ok"
             THEN /\ toSend' = toSend \ {c}
                  /\ pc' = IF toSend' = {} THEN "record" ELSE pc
                  /\ UNCHANGED <<due, toRecord, row>>
             ELSE /\ ClearPayout
                  /\ pc' = "sleep"
    BY <1>2 DEF SendMany, sendSucceeded, PayoutEnds
  <2>2. LedgerTypes'
    BY <1>2, <1>c, <2>1, LedgerAssumption DEF SendMany, sendSucceeded, PayoutEnds, Charge, LedgerTypes, ledgerVars
  <2>3. sentTo' \in [Purses -> Nat]
    BY <2>1, TransactionType DEF PayerTypes
  <2>4. recorded' = recorded /\ pc = "send"
    BY <1>2 DEF SendMany, sendSucceeded, PayoutEnds
  <2>5. PayerTypes'
    BY <2>1, <2>3, <2>4 DEF PayerTypes, ClearPayout, NoDue
  <2> QED BY <1>a, <1>b, <1>s, <2>2, <2>5
<1>3. CASE RecordPayment
  <2>1. PICK r \in toRecord, o \in Outcome :
          /\ Charge(o # "ok")
          /\ recorded' = IF Applied(o)
                         THEN [recorded EXCEPT ![Purse(r)] = @ + due[r]]
                         ELSE recorded
          /\ IF o = "ok"
             THEN /\ row' = r
                  /\ toRecord' = toRecord \ {r}
                  /\ pc' = "reset"
                  /\ UNCHANGED <<due, toSend>>
             ELSE /\ ClearPayout
                  /\ pc' = "sleep"
    BY <1>3 DEF RecordPayment, PayoutEnds
  <2>2. LedgerTypes'
    BY <1>3, <1>c, <2>1, LedgerAssumption
    DEF RecordPayment, PayoutEnds, Charge, LedgerTypes, ledgerVars
  <2>3. r \in Rows /\ due[r] \in Nat /\ Purse(r) \in Purses
    BY <2>1, PurseType DEF PayerTypes
  <2>4. recorded' \in [Purses -> Nat]
    BY <2>1, <2>3 DEF PayerTypes
  <2>5. sentTo' = sentTo
    BY <1>3 DEF RecordPayment, PayoutEnds
  <2>6. PayerTypes'
    BY <2>1, <2>4, <2>5 DEF PayerTypes, ClearPayout, NoDue
  <2> QED BY <1>a, <1>b, <1>s, <2>2, <2>6
<1>4. CASE ResetBalance
  <2>1. row \in Rows /\ due[row] \in Nat
    BY <1>4 DEF ResetBalance, AfterReset, NextRow, PayoutEnds, PayerTypes
  <2>2. PICK o \in AddOutcome : AddAmount(row[1], row[2], -due[row], o)
    BY <1>4 DEF ResetBalance, AfterReset, NextRow, PayoutEnds
  <2>3. LedgerTypes'
    <3>1. row[1] \in Chains /\ row[2] \in Accounts /\ -due[row] \in Int
      BY <2>1, PurseType
    <3> QED BY <1>c, <2>2, <3>1, AddAmountTypes DEF LedgerTypes
  <2>4. PayerTypes'
    BY <1>4, <1>d DEF ResetBalance, AfterReset, NextRow, PayoutEnds, PayerTypes
  <2> QED BY <1>a, <1>b, <1>s, <2>3, <2>4
<1> QED BY <1>1, <1>2, <1>3, <1>4 DEF PayerStep

LEMMA InitTypes ==
  ASSUME Init PROVE TypeOK
<1>1. LedgerTypes
  BY LedgerAssumption DEF Init, LedgerInit, SchemesInit, LedgerTypes
<1>2. SchemeTypes
  BY DEF Init, SchemesInit, SchemeTypes, NoAwards, InReward
<1>3. FlagTypes
  BY DEF Init, SchemesInit, FlagTypes
<1>4. RewardTypes
  <2>1. remote \in [Blocks -> {"immature", "generate", "orphan", "mismatch"}]
    BY RewardsAssumption DEF Init, RewardsInit
  <2> QED BY <2>1
  DEF Init, RewardsInit, RewardTypes, NoBlocks, Statuses, InReward, InPayout
<1>5. PayerTypes
  BY DEF Init, PayerInit, PayerTypes, NoDue
<1> QED BY <1>1, <1>2, <1>3, <1>4, <1>5 DEF TypeOK, Init, Steps

LEMMA NextTypes ==
  ASSUME TypeOK, [Next]_vars PROVE TypeOK'
<1>1. CASE Manager
  BY <1>1, SchemeStepTypes, RewardStepTypes, PayerStepTypes DEF Manager
<1>2. CASE Environment
  <2>1. UNCHANGED <<pc, faults, ledgerVars, schemeVars, status, passVars, attempts,
                    payerVars>>
    BY <1>2 DEF Environment, Mature
  <2>2. LedgerTypes' /\ SchemeTypes'
    BY <2>1 DEF TypeOK, LedgerTypes, SchemeTypes, ledgerVars, schemeVars, loopVars
  <2>3. PayerTypes'
    BY <2>1 DEF TypeOK, PayerTypes, payerVars, payoutVars
  <2>4. FlagTypes'
    BY <2>1 DEF TypeOK, FlagTypes, schemeVars, loopVars
  <2>5. RewardTypes'
    BY <1>2, <2>1 DEF TypeOK, RewardTypes, Environment, Mature, passVars
  <2> QED BY <2>1, <2>2, <2>3, <2>4, <2>5 DEF TypeOK
<1>3. CASE Crash
  <2>1. LedgerTypes'
    BY <1>3, LedgerAssumption DEF TypeOK, Crash, Charge, LedgerTypes, ledgerVars
  <2>2. SchemeTypes'
    BY <1>3 DEF TypeOK, Crash, ClearLocals, SchemeTypes, NoAwards, InReward
  <2>3. FlagTypes'
    BY <1>3 DEF Crash, ClearLocals, FlagTypes
  <2>4. RewardTypes'
    BY <1>3 DEF TypeOK, Crash, RewardTypes, NoBlocks, InReward, InPayout
  <2>5. PayerTypes' /\ pc' = "sleep"
    BY <1>3 DEF TypeOK, Crash, ClearPayout, PayerTypes, NoDue
  <2> QED BY <2>1, <2>2, <2>3, <2>4, <2>5 DEF TypeOK, Steps
<1>4. CASE UNCHANGED vars
  <2>1. LedgerTypes' /\ SchemeTypes'
    BY <1>4 DEF TypeOK, vars, LedgerTypes, SchemeTypes, ledgerVars, schemeVars, loopVars
  <2>2. PayerTypes'
    BY <1>4 DEF TypeOK, vars, PayerTypes, payerVars, payoutVars
  <2>3. RewardTypes'
    BY <1>4 DEF TypeOK, vars, RewardTypes, rewardsVars, passVars
  <2>4. FlagTypes'
    BY <1>4 DEF TypeOK, vars, FlagTypes, schemeVars, loopVars
  <2> QED BY <1>4, <2>1, <2>2, <2>3, <2>4 DEF TypeOK, vars
<1> QED BY <1>1, <1>2, <1>3, <1>4 DEF Next

(* Type correctness of the payout service.                                  *)
THEOREM Typing == Spec => []TypeOK
<1>1. Init => TypeOK
  BY InitTypes
<1>2. TypeOK /\ [Next]_vars => TypeOK'
  BY NextTypes
<1> QED BY <1>1, <1>2, PTL DEF Spec

(***************************************************************************)
(* No balance is reset, and no payment recorded, for coins not sent        *)
(***************************************************************************)
IPaid == TypeOK /\ PayoutOrder /\ PaidCover

(* The recipient and the fee that CreditRecipient is about.                 *)
LEMMA RecipientTypes ==
  ASSUME TypeOK, CreditRecipient
  PROVE  LET recipient == PoolRewardRecipients[cur.chain][rcpt]
             amount    == (recipient.percentage * cur.reward) \div 100
         IN  /\ cur \in Blocks /\ cur.chain \in Chains /\ cur.reward \in Nat
             /\ rcpt \in 1..Len(PoolRewardRecipients[cur.chain])
             /\ recipient.address \in Accounts /\ recipient.percentage \in Nat
             /\ amount \in Int
<1> DEFINE recipient == PoolRewardRecipients[cur.chain][rcpt]
           amount    == (recipient.percentage * cur.reward) \div 100
<1>1. cur \in Blocks /\ cur.chain \in Chains /\ cur.reward \in Nat
  BY SchemesAssumption DEF CreditRecipient, TypeOK, SchemeTypes, InReward
<1>2. PoolRewardRecipients[cur.chain] \in Seq([address : Accounts, percentage : Nat])
  BY <1>1, RewardsAssumption
<1>3. rcpt \in 1..Len(PoolRewardRecipients[cur.chain])
  BY <1>2 DEF CreditRecipient, TypeOK, RewardTypes
<1>4. recipient \in [address : Accounts, percentage : Nat]
  BY <1>2, <1>3, ElementOf
<1>5. recipient.address \in Accounts /\ recipient.percentage \in Nat
  BY <1>4
<1>6. amount \in Int
  <2> HIDE DEF recipient
  <2> QED BY <1>1, <1>5, DivInt, MulInt
<1> QED BY <1>1, <1>3, <1>5, <1>6

LEMMA CreditSpent ==
  ASSUME LedgerTypes,
         NEW c \in Chains, NEW a \in Accounts, NEW amount \in Int, NEW o \in AddOutcome,
         Credit(c, a, amount, o), NEW r \in Rows
  PROVE  Spent(r)' = Spent(r)
  BY DEF Credit, AddAmount, Spent, LedgerTypes, Rows

(* Rewards move the credits and the balances together.                      *)
LEMMA RewardsSpent ==
  ASSUME TypeOK, SchemeStep \/ RewardStep, NEW r \in Rows
  PROVE  Spent(r)' = Spent(r)
<1>1. CASE CreditMiner
  <2>1. PICK a \in toCredit, o \in AddOutcome : Credit(cur.chain, a, awards[a], o)
    BY <1>1 DEF CreditMiner
  <2>2. cur.chain \in Chains /\ a \in Accounts /\ awards[a] \in Int
    BY <1>1, SchemesAssumption DEF CreditMiner, TypeOK, SchemeTypes, InReward
  <2> QED BY <2>1, <2>2, CreditSpent DEF TypeOK
<1>2. CASE CreditRecipient
  <2> DEFINE recipient == PoolRewardRecipients[cur.chain][rcpt]
             amount    == (recipient.percentage * cur.reward) \div 100
  <2>1. cur.chain \in Chains /\ cur.reward \in Nat
    BY <1>2, SchemesAssumption DEF CreditRecipient, TypeOK, SchemeTypes, InReward
  <2>2. PoolRewardRecipients[cur.chain] \in Seq([address : Accounts, percentage : Nat])
    BY <2>1, RewardsAssumption
  <2>3. rcpt \in 1..Len(PoolRewardRecipients[cur.chain])
    BY <1>2, <2>2 DEF CreditRecipient, TypeOK, RewardTypes
  <2>4. recipient \in [address : Accounts, percentage : Nat]
    BY <2>2, <2>3, ElementOf
  <2>5. recipient.address \in Accounts /\ recipient.percentage \in Nat
    BY <2>4
  <2>6. amount \in Int
    <3> HIDE DEF recipient
    <3> QED BY <2>1, <2>5, DivInt, MulInt
  <2>7. \/ UNCHANGED <<ledgerVars, credited>>
        \/ \E o \in AddOutcome : Credit(cur.chain, recipient.address, amount, o)
    BY <1>2 DEF CreditRecipient
  <2> HIDE DEF recipient, amount
  <2>8. ASSUME NEW o \in AddOutcome, Credit(cur.chain, recipient.address, amount, o)
        PROVE  Spent(r)' = Spent(r)
    BY <2>1, <2>5, <2>6, <2>8, CreditSpent DEF TypeOK
  <2>9. CASE UNCHANGED <<ledgerVars, credited>>
    BY <2>9 DEF Spent, ledgerVars
  <2> QED BY <2>7, <2>8, <2>9
<1>3. CASE SchemeStep /\ ~CreditMiner
  BY <1>3 DEF SchemeStep, StartScheme, FetchPage, VisitShare, EndPage, Award,
              DeleteSharesBefore, schemeVars, ledgerVars, Spent
<1>4. CASE RewardStep /\ ~CreditRecipient
  BY <1>4 DEF RewardStep, Unlock, StartReward, PoolRewardDone, NextReward, RewardsDone,
              SaveBlock, SaveDone, schemeVars, ledgerVars, Spent
<1> QED BY <1>1, <1>2, <1>3, <1>4

(* A step that neither spends, sends nor records, and is in no payout.      *)
LEMMA QuietStep ==
  ASSUME IPaid,
         UNCHANGED <<sentTo, recorded>>,
         \A r \in Rows : Spent(r)' = Spent(r),
         pc' \notin {"send", "record", "reset"}
  PROVE  PayoutOrder' /\ PaidCover'
  BY DEF IPaid, PayoutOrder, PaidCover, CoveredBy, Sole, Purse

(* The steps of a payout.                                                   *)
LEMMA PayerStepPaid ==
  ASSUME IPaid, PayerStep, UNCHANGED <<schemeVars, rewardsVars>>
  PROVE  PayoutOrder' /\ PaidCover'
<1> USE DEF IPaid, TypeOK
<1>a. UNCHANGED credited
  BY DEF schemeVars
<1>b. \A r \in Rows : /\ Spent(r) \in Int
                      /\ Purse(r) \in Purses
                      /\ sentTo[Purse(r)] \in Nat
                      /\ recorded[Purse(r)] \in Nat
  BY PurseType DEF LedgerTypes, PayerTypes, Spent
<1>c. \A r \in DOMAIN due : due[r] \in Nat /\ r \in Rows
  BY DEF PayerTypes
<1>1. CASE SelectDue
  <2>1. UNCHANGED <<sentTo, recorded, ledgerVars>> /\ pc' \in {"sleep", "send"}
    BY <1>1 DEF SelectDue, PayoutEnds
  <2>2. \A r \in Rows : Spent(r)' = Spent(r)
    BY <1>a, <2>1 DEF Spent, ledgerVars
  <2>3. CASE pc' = "sleep"
    BY <2>1, <2>2, <2>3, QuietStep
  <2>4. CASE pc' = "send"
    <3>1. \A r \in toRecord' : r[1] \in toSend'
      BY <1>1, <2>4 DEF SelectDue, PayoutEnds
    <3> QED BY <2>1, <2>2, <2>4, <3>1 DEF PayoutOrder, PaidCover, CoveredBy, Sole, Purse
  <2> QED BY <2>1, <2>3, <2>4
<1>2. CASE SendMany
  <2>1. PICK c \in toSend, o \in Outcome :
          /\ IF Applied(o)
             THEN \E tx \in Transactions(c) :
                    sentTo' = [p \in Purses |->
                                 IF p[1] = c /\ p[2] \in DOMAIN tx
                                 THEN sentTo[p] + tx[p[2]] ELSE sentTo[p]]
             ELSE sentTo' = sentTo
          /\ IF o = "ok"
             THEN /\ toSend' = toSend \ {c}
                  /\ pc' = IF toSend' = {} THEN "record" ELSE pc
                  /\ UNCHANGED <<due, toRecord, row>>
             ELSE /\ ClearPayout
                  /\ pc' = "sleep"
    BY <1>2 DEF SendMany, sendSucceeded, PayoutEnds
  <2>2. pc = "send" /\ UNCHANGED <<ledgerVars, recorded>> /\ c \in Chains
    BY <1>2, <2>1 DEF SendMany, sendSucceeded, PayoutEnds, PayerTypes
  <2>3. \A r \in Rows : Spent(r)' = Spent(r)
    BY <1>a, <2>2 DEF Spent, ledgerVars
  <2>4. \A r \in Rows : sentTo'[Purse(r)] \in Nat /\ sentTo[Purse(r)] <= sentTo'[Purse(r)]
    <3>1. CASE Applied(o)
      <4>1. PICK tx \in Transactions(c) :
              sentTo' = [p \in Purses |->
                           IF p[1] = c /\ p[2] \in DOMAIN tx
                           THEN sentTo[p] + tx[p[2]] ELSE sentTo[p]]
        BY <2>1, <3>1
      <4>2. \A w \in DOMAIN tx : tx[w] \in Nat
        BY <2>2, TransactionType
      <4> QED BY <1>b, <4>1, <4>2
    <3>2. CASE ~Applied(o)
      BY <1>b, <2>1, <3>2
    <3> QED BY <3>1, <3>2
  <2>5. CASE o # "ok"
    BY <1>b, <2>1, <2>2, <2>3, <2>4, <2>5 DEF PayoutOrder, PaidCover, CoveredBy, Sole, Purse
  <2>6. CASE o = "ok"
    <3>1. PICK tx \in Transactions(c) :
            sentTo' = [p \in Purses |->
                         IF p[1] = c /\ p[2] \in DOMAIN tx
                         THEN sentTo[p] + tx[p[2]] ELSE sentTo[p]]
      BY <2>1, <2>6 DEF Applied
    <3>2. /\ toSend' = toSend \ {c}
          /\ pc' \in {"send", "record"}
          /\ pc' = "record" => toSend' = {}
          /\ UNCHANGED <<due, toRecord, row>>
      BY <2>1, <2>2, <2>6
    <3>3. ASSUME NEW r \in Rows, Sole(r), r \in toRecord, r[1] = c
          PROVE  sentTo'[Purse(r)] = sentTo[Purse(r)] + due[r]
      <4>1. r \in DOMAIN due /\ findBalanceAddress(r) \in DOMAIN tx
        BY <2>2, <3>3, TransactionType DEF PayerTypes
      <4>2. PICK q \in DOMAIN due :
              r[1] = q[1] /\ findBalanceAddress(q) = findBalanceAddress(r)
              /\ tx[findBalanceAddress(r)] = due[q]
        BY <2>2, <3>3, <4>1, TransactionType
      <4>3. q = r
        BY <1>c, <3>3, <4>2 DEF Sole, Purse
      <4>4. Purse(r)[1] = c /\ Purse(r)[2] = findBalanceAddress(r)
        BY <3>3 DEF Purse
      <4> QED BY <1>b, <3>1, <4>1, <4>2, <4>3, <4>4
    <3>4. ASSUME NEW r \in Rows, Sole(r)
          PROVE  CoveredBy(r, sentTo[Purse(r)])'
      <4>1. CoveredBy(r, sentTo[Purse(r)])
        BY <3>4 DEF PaidCover
      <4>2. CASE r \in toRecord /\ r[1] \notin toSend'
        <5>1. due[r] \in Nat
          BY <1>c, <4>2 DEF PayerTypes
        <5>2. CASE r[1] = c
          BY <1>b, <2>2, <2>3, <2>4, <3>2, <3>3, <3>4, <4>1, <4>2, <5>1, <5>2
          DEF CoveredBy, Purse
        <5>3. CASE r[1] # c
          BY <1>b, <2>2, <2>3, <2>4, <3>2, <4>1, <4>2, <5>1, <5>3 DEF CoveredBy, Purse
        <5> QED BY <5>2, <5>3
      <4>3. CASE ~(r \in toRecord /\ r[1] \notin toSend')
        BY <1>b, <2>2, <2>3, <2>4, <3>2, <4>1, <4>3 DEF CoveredBy, Purse
      <4> QED BY <4>2, <4>3
    <3> QED BY <3>2, <3>4 DEF PayoutOrder, PaidCover, Sole, Purse
  <2> QED BY <2>5, <2>6
<1>3. CASE RecordPayment
  <2>1. PICK r0 \in toRecord, o \in Outcome :
          /\ recorded' = IF Applied(o)
                         THEN [recorded EXCEPT ![Purse(r0)] = @ + due[r0]]
                         ELSE recorded
          /\ IF o = "ok"
             THEN /\ row' = r0
                  /\ toRecord' = toRecord \ {r0}
                  /\ pc' = "reset"
                  /\ UNCHANGED <<due, toSend>>
             ELSE /\ ClearPayout
                  /\ pc' = "sleep"
    BY <1>3 DEF RecordPayment, PayoutEnds
  <2>2. pc = "record" /\ toSend = {} /\ UNCHANGED <<ledgerVars, sentTo>>
    BY <1>3 DEF RecordPayment, PayoutEnds, PayoutOrder
  <2>3. \A r \in Rows : Spent(r)' = Spent(r)
    BY <1>a, <2>2 DEF Spent, ledgerVars
  <2>4. r0 \in DOMAIN due /\ r0 \in Rows /\ due[r0] \in Nat
    BY <1>c, <2>1 DEF PayerTypes
  <2>5. ASSUME NEW r \in Rows, Sole(r)
        PROVE  CoveredBy(r, sentTo[Purse(r)])'
    <3>1. CoveredBy(r, sentTo[Purse(r)])
      BY <2>5 DEF PaidCover
    <3>2. CASE r = r0
      <4>1. /\ Spent(r) + due[r] <= sentTo[Purse(r)]
            /\ recorded[Purse(r)] + due[r] <= sentTo[Purse(r)]
        BY <2>1, <2>2, <3>1, <3>2 DEF CoveredBy
      <4>2. recorded'[Purse(r)] <= sentTo[Purse(r)]
        BY <1>b, <2>1, <2>4, <3>1, <3>2, <4>1 DEF CoveredBy, PayerTypes
      <4> QED BY <2>1, <2>2, <2>3, <3>1, <3>2, <4>1, <4>2 DEF CoveredBy, Purse
    <3>3. CASE r # r0
      <4>1. Purse(r) # Purse(r0)
        BY <2>4, <2>5, <3>3 DEF Sole
      <4>2. recorded'[Purse(r)] = recorded[Purse(r)]
        BY <1>b, <2>1, <4>1 DEF PayerTypes
      <4> QED BY <2>1, <2>2, <2>3, <3>1, <3>3, <4>2 DEF CoveredBy, Purse
    <3> QED BY <3>2, <3>3
  <2>6. PayoutOrder'
    BY <2>1, <2>2 DEF PayoutOrder
  <2> QED BY <2>5, <2>6 DEF PaidCover, Sole, Purse
<1>4. CASE ResetBalance
  <2>1. row \in DOMAIN due /\ row \in Rows /\ due[row] \in Nat
    BY <1>4, <1>c DEF ResetBalance, AfterReset, NextRow, PayoutEnds, PayerTypes
  <2>2. pc = "reset" /\ toSend = {} /\ row \notin toRecord
    BY <1>4 DEF ResetBalance, AfterReset, NextRow, PayoutEnds, PayoutOrder
  <2>3. PICK o \in AddOutcome :
          /\ AddAmount(row[1], row[2], -due[row], o)
          /\ IF AddFailed(o) \/ toRecord = {}
             THEN /\ ClearPayout
                  /\ pc' = "sleep"
             ELSE /\ row' = NoRow
                  /\ pc' = "record"
                  /\ UNCHANGED <<due, toSend, toRecord>>
    BY <1>4 DEF ResetBalance, AfterReset, NextRow, PayoutEnds
  <2>4. UNCHANGED <<sentTo, recorded>>
    BY <1>4 DEF ResetBalance, AfterReset, NextRow, PayoutEnds
  <2>5. balances' = balances \/ balances' = [balances EXCEPT ![row] = @ + -due[row]]
    BY <2>1, <2>3, PurseType DEF AddAmount
  <2>6. ASSUME NEW r \in Rows, Sole(r)
        PROVE  CoveredBy(r, sentTo[Purse(r)])'
    <3>1. CoveredBy(r, sentTo[Purse(r)])
      BY <2>6 DEF PaidCover
    <3>2. CASE r = row
      <4>1. Spent(r)' <= sentTo[Purse(r)]
        BY <1>a, <1>b, <2>1, <2>2, <2>5, <3>1, <3>2 DEF CoveredBy, Spent, LedgerTypes
      <4> QED BY <2>2, <2>3, <2>4, <3>1, <3>2, <4>1 DEF CoveredBy, Purse
    <3>3. CASE r # row
      <4>1. Spent(r)' = Spent(r)
        BY <1>a, <2>1, <2>5, <3>3 DEF Spent, LedgerTypes
      <4> QED BY <2>2, <2>3, <2>4, <3>1, <4>1 DEF CoveredBy, Purse
    <3> QED BY <3>2, <3>3
  <2>7. PayoutOrder'
    BY <2>2, <2>3 DEF PayoutOrder
  <2> QED BY <2>6, <2>7 DEF PaidCover, Sole, Purse
<1> QED BY <1>1, <1>2, <1>3, <1>4 DEF PayerStep

LEMMA PaidInvariance == Spec => []IPaid
<1>1. Init => IPaid
  <2> SUFFICES ASSUME Init PROVE PayoutOrder /\ PaidCover
    BY InitTypes DEF IPaid
  <2>1. PayoutOrder
    BY DEF Init, PayoutOrder
  <2>2. ASSUME NEW r \in Rows PROVE CoveredBy(r, sentTo[Purse(r)])
    BY PurseType DEF Init, LedgerInit, SchemesInit, PayerInit, CoveredBy, Spent
  <2> QED BY <2>1, <2>2 DEF PaidCover
<1>2. IPaid /\ [Next]_vars => IPaid'
  <2> SUFFICES ASSUME IPaid, [Next]_vars PROVE PayoutOrder' /\ PaidCover'
    BY NextTypes DEF IPaid
  <2> USE DEF IPaid
  <2>1. CASE SchemeStep /\ UNCHANGED <<rewardsVars, payerVars>>
    <3>1. pc' \notin {"send", "record", "reset"}
      BY <2>1 DEF SchemeStep, StartScheme, FetchPage, VisitShare, VisitPPLNS, VisitPROP,
                  EndPage, Award, CreditMiner, DeleteSharesBefore
    <3> QED BY <2>1, <3>1, RewardsSpent, QuietStep DEF payerVars
  <2>2. CASE RewardStep /\ UNCHANGED payerVars
    <3>1. pc' \notin {"send", "record", "reset"}
      BY <2>2 DEF RewardStep, Unlock, StartReward, CreditRecipient, PoolRewardDone,
                  NextReward, RewardsDone, SaveBlock, SaveDone
    <3> QED BY <2>2, <3>1, RewardsSpent, QuietStep DEF payerVars
  <2>3. CASE PayerStep /\ UNCHANGED <<schemeVars, rewardsVars>>
    BY <2>3, PayerStepPaid
  <2>4. CASE Crash
    <3>1. \A r \in Rows : Spent(r)' = Spent(r)
      BY <2>4 DEF Crash, Spent, ledgerVars
    <3> QED BY <2>4, <3>1, QuietStep DEF Crash
  <2>5. CASE Environment \/ UNCHANGED vars
    <3>1. UNCHANGED <<pc, ledgerVars, credited, payerVars>>
      BY <2>5 DEF Environment, Mature, vars, schemeVars
    <3> QED BY <3>1 DEF PayoutOrder, PaidCover, CoveredBy, Sole, Purse, Spent, ledgerVars,
                        payerVars, payoutVars
  <2> QED BY <2>1, <2>2, <2>3, <2>4, <2>5 DEF Next, Manager
<1> QED BY <1>1, <1>2, PTL DEF Spec

(* Whatever calls fail, whatever answers are lost and whenever the process  *)
(* dies, no balance is taken off a row without coins sent to its wallet.    *)
THEOREM NoUnpaidResetHolds == Spec => []NoUnpaidReset
<1>1. IPaid => NoUnpaidReset
  BY DEF IPaid, PaidCover, CoveredBy, NoUnpaidReset
<1> QED BY <1>1, PaidInvariance, PTL

(* Nor does the payments table ever claim coins that were not sent.         *)
THEOREM RecordedWasSentHolds == Spec => []RecordedWasSent
<1>1. IPaid => RecordedWasSent
  BY DEF IPaid, PaidCover, CoveredBy, RecordedWasSent
<1> QED BY <1>1, PaidInvariance, PTL

(***************************************************************************)
(* Blocks: final statuses, confirmed rewards, one attempt per failure      *)
(***************************************************************************)
IBlocks == TypeOK /\ PassBlocks /\ OnlyConfirmedRewarded /\ AttemptBound

(* A step that leaves the blocks alone, within a pass.                      *)
LEMMA BlocksUntouched ==
  ASSUME IBlocks, UNCHANGED <<status, remote, local, toReward, toSave, attempts>>,
         faults' \in Nat, faults <= faults', pc' = pc \/ (pc # "save" /\ pc' # "save")
  PROVE  PassBlocks' /\ OnlyConfirmedRewarded' /\ AttemptBound'
<1>1. PassBlocks' /\ OnlyConfirmedRewarded'
  BY DEF IBlocks, PassBlocks, OnlyConfirmedRewarded
<1>2. \A b \in Blocks : RewardAccounted(b)' <=> RewardAccounted(b)
  BY DEF RewardAccounted
<1>3. \A b \in Blocks : attempts[b] \in Nat
  BY DEF IBlocks, TypeOK, RewardTypes
<1>4. faults \in Nat
  BY DEF IBlocks, TypeOK, LedgerTypes
<1> QED BY <1>1, <1>2, <1>3, <1>4 DEF IBlocks, AttemptBound

LEMMA BlocksInductive ==
  ASSUME IBlocks, [Next]_vars
  PROVE  PassBlocks' /\ OnlyConfirmedRewarded' /\ AttemptBound'
<1> USE DEF IBlocks
<1>a. TypeOK'
  BY NextTypes
<1>b. \A b \in Blocks : attempts[b] \in Nat
  BY DEF TypeOK, RewardTypes
<1>c. faults \in Nat /\ faults' \in Nat
  BY <1>a, LedgerAssumption DEF TypeOK, LedgerTypes
<1>d. faults <= faults'
  <2>1. CASE SchemeStep
    <3>1. CASE FetchPage
      BY <1>c, <3>1 DEF FetchPage, Charge
    <3>2. CASE CreditMiner \/ DeleteSharesBefore
      <4>1. PICK failed \in BOOLEAN : Charge(failed)
        BY <3>2, Zenon DEF CreditMiner, DeleteSharesBefore, Credit, AddAmount, AddFailed
      <4> QED BY <1>c, <4>1 DEF Charge
    <3>3. CASE StartScheme \/ VisitShare \/ EndPage \/ Award
      <4>1. faults' = faults
        BY <3>3 DEF remainingReward, StartScheme, VisitShare, EndPage, Award
      <4> QED BY <1>c, <4>1
    <3> QED BY <2>1, <3>1, <3>2, <3>3 DEF SchemeStep
  <2>2. CASE RewardStep
    BY <1>c, <2>2 DEF RewardStep, Unlock, StartReward, CreditRecipient, PoolRewardDone,
       NextReward, RewardsDone, SaveBlock, SaveDone, Credit, AddAmount, Charge
  <2>3. CASE PayerStep
    BY <1>c, <2>3 DEF PayerStep, SelectDue, SendMany, sendSucceeded, RecordPayment, ResetBalance,
     AfterReset, NextRow, PayoutEnds,
       AddAmount, Charge
  <2>4. CASE Environment \/ Crash \/ UNCHANGED vars
    BY <1>c, <2>4 DEF Environment, Mature, Crash, Charge, vars
  <2> QED BY <2>1, <2>2, <2>3, <2>4 DEF Next, Manager
<1>1. CASE SchemeStep /\ UNCHANGED <<rewardsVars, payerVars>>
  <2>1. pc # "save" /\ pc' # "save"
    BY <1>1 DEF SchemeStep, StartScheme, FetchPage, VisitShare, VisitPPLNS, VisitPROP,
                EndPage, Award, CreditMiner, DeleteSharesBefore
  <2> QED BY <1>1, <1>c, <1>d, <2>1, BlocksUntouched DEF rewardsVars, passVars
<1>2. CASE PayerStep /\ UNCHANGED <<schemeVars, rewardsVars>>
  <2>1. pc # "save" /\ pc' # "save"
    BY <1>2 DEF PayerStep, SelectDue, SendMany, sendSucceeded, RecordPayment, ResetBalance,
     AfterReset, NextRow, PayoutEnds
  <2> QED BY <1>2, <1>c, <1>d, <2>1, BlocksUntouched DEF rewardsVars, passVars
<1>3. CASE Unlock
  <2>1. CASE pc' = "sleep"
    BY <1>3, <1>c, <1>d, <2>1, BlocksUntouched DEF Unlock
  <2>2. CASE pc' = "rewards"
    <3>1. PICK list \in SUBSET PendingBlocks :
            /\ \A b \in list : remote[b] # "mismatch"
            /\ local' = [b \in list |-> classifyBlock(remote[b])]
            /\ toReward' = {b \in list : local'[b] = "confirmed"}
      BY <1>3, <2>2 DEF Unlock
    <3>2. /\ pc = "sleep" /\ local = NoBlocks /\ toSave = {} /\ toReward = {}
          /\ UNCHANGED <<status, remote, toSave, attempts>>
      BY <1>3 DEF Unlock, TypeOK, RewardTypes, InReward, InPayout
    <3>3. \A b \in list : status[b] = "pending"
      BY DEF PendingBlocks
    <3>4. \A b \in list : local'[b] = "confirmed" => remote[b] = "generate"
      BY <3>1 DEF classifyBlock
    <3>5. PassBlocks' /\ OnlyConfirmedRewarded'
      BY <2>2, <3>1, <3>2, <3>3, <3>4 DEF PassBlocks, OnlyConfirmedRewarded
    <3>6. \A b \in Blocks : RewardAccounted(b) => RewardAccounted(b)'
      BY <3>2 DEF RewardAccounted, NoBlocks
    <3>7. AttemptBound'
      BY <1>b, <1>c, <1>d, <3>2, <3>6 DEF AttemptBound
    <3> QED BY <3>5, <3>7
  <2> QED BY <1>3, <2>1, <2>2 DEF Unlock
<1>4. CASE StartReward
  <2>1. PICK b0 \in toReward : /\ toReward' = toReward \ {b0}
                               /\ attempts' = [attempts EXCEPT ![b0] = @ + 1]
    BY <1>4 DEF StartReward
  <2>2. /\ pc = "rewards" /\ pc' = "pool"
        /\ UNCHANGED <<faults, status, remote, local, toSave>>
    BY <1>4 DEF StartReward
  <2>3. b0 \in Blocks /\ b0 \in DOMAIN local /\ local[b0] = "confirmed"
        /\ status[b0] = "pending"
    BY <2>1, <2>2 DEF TypeOK, RewardTypes, PassBlocks
  <2>4. PassBlocks'
    BY <2>1, <2>2 DEF PassBlocks
  <2>5. OnlyConfirmedRewarded'
    BY <1>b, <2>1, <2>2, <2>3 DEF OnlyConfirmedRewarded, PassBlocks, TypeOK, RewardTypes
  <2>6. ASSUME NEW b \in Blocks
        PROVE  /\ attempts'[b] <= 1 + faults
               /\ ~RewardAccounted(b)' => attempts'[b] <= faults
    <3>1. CASE b = b0
      <4>1. ~RewardAccounted(b)
        BY <2>1, <2>3, <3>1 DEF RewardAccounted
      <4>2. RewardAccounted(b)'
        BY <2>1, <2>2, <2>3, <3>1 DEF RewardAccounted
      <4>3. attempts'[b] = attempts[b] + 1
        BY <2>1, <2>3, <3>1 DEF TypeOK, RewardTypes
      <4> QED BY <1>b, <1>c, <4>1, <4>2, <4>3 DEF AttemptBound
    <3>2. CASE b # b0
      <4>1. RewardAccounted(b) => RewardAccounted(b)'
        BY <2>1, <2>2, <3>2 DEF RewardAccounted
      <4>2. attempts'[b] = attempts[b]
        BY <2>1, <3>2 DEF TypeOK, RewardTypes
      <4> QED BY <4>1, <4>2 DEF AttemptBound
    <3> QED BY <3>1, <3>2
  <2> QED BY <2>2, <2>4, <2>5, <2>6 DEF AttemptBound
<1>5. CASE CreditRecipient \/ PoolRewardDone \/ NextReward
  <2>1. /\ pc # "save" /\ pc' # "save"
        /\ UNCHANGED <<status, remote, local, toReward, toSave, attempts>>
    BY <1>5 DEF CreditRecipient, PoolRewardDone, NextReward, rewardsVars, passVars
  <2> QED BY <1>c, <1>d, <2>1, BlocksUntouched
<1>6. CASE RewardsDone
  <2>1. /\ pc = "rewards" /\ pc' = "save" /\ toSave' = DOMAIN local
        /\ UNCHANGED <<faults, status, remote, local, toReward, attempts>>
    BY <1>6 DEF RewardsDone
  <2>2. PassBlocks' /\ OnlyConfirmedRewarded'
    BY <2>1 DEF PassBlocks, OnlyConfirmedRewarded
  <2>3. \A b \in Blocks : RewardAccounted(b) => RewardAccounted(b)'
    BY <2>1 DEF RewardAccounted
  <2> QED BY <2>1, <2>2, <2>3 DEF AttemptBound
<1>7. CASE SaveBlock
  <2>1. PICK b0 \in toSave, o \in Outcome :
          /\ Charge(o # "ok")
          /\ status' = IF Applied(o) THEN [status EXCEPT ![b0] = local[b0]] ELSE status
          /\ toSave' = toSave \ {b0}
    BY <1>7 DEF SaveBlock, updatedStatus
  <2>2. /\ pc = "save" /\ pc' = "save"
        /\ UNCHANGED <<remote, local, toReward, attempts>>
    BY <1>7 DEF SaveBlock, updatedStatus
  <2>3. b0 \in DOMAIN local /\ b0 \in Blocks /\ status[b0] = "pending"
    BY <2>1 DEF TypeOK, RewardTypes, PassBlocks
  <2>4. \A b \in Blocks : b # b0 => status'[b] = status[b]
    BY <2>1 DEF TypeOK, RewardTypes
  <2>5. PassBlocks'
    BY <2>1, <2>2, <2>4 DEF PassBlocks, TypeOK, RewardTypes
  <2>6. status'[b0] = local[b0] \/ (status'[b0] = "pending" /\ o = "failed")
    BY <2>1, <2>3 DEF TypeOK, RewardTypes, Applied
  <2>7. OnlyConfirmedRewarded'
    BY <2>2, <2>3, <2>4, <2>6 DEF OnlyConfirmedRewarded, PassBlocks
  <2>8. ASSUME NEW b \in Blocks
        PROVE  ~RewardAccounted(b)' => attempts[b] <= faults'
    <3>1. CASE b = b0 /\ o = "failed"
      <4>1. faults' = faults + 1
        BY <2>1, <3>1 DEF Charge
      <4> QED BY <1>b, <1>c, <4>1 DEF AttemptBound
    <3>2. CASE b = b0 /\ o # "failed"
      <4>1. status'[b] = local[b]
        BY <2>1, <2>3, <3>2 DEF TypeOK, RewardTypes, Applied
      <4>2. CASE local[b] = "pending"
        <5>1. ~RewardAccounted(b)
          BY <2>3, <3>2, <4>2 DEF RewardAccounted
        <5> QED BY <1>b, <1>c, <1>d, <5>1 DEF AttemptBound
      <4>3. CASE local[b] # "pending"
        BY <4>1, <4>3 DEF RewardAccounted
      <4> QED BY <4>2, <4>3
    <3>3. CASE b # b0
      <4>1. RewardAccounted(b) => RewardAccounted(b)'
        BY <2>1, <2>2, <2>4, <3>3 DEF RewardAccounted
      <4> QED BY <1>b, <1>c, <1>d, <4>1 DEF AttemptBound
    <3> QED BY <3>1, <3>2, <3>3
  <2>9. AttemptBound'
    BY <1>b, <1>c, <1>d, <2>2, <2>8 DEF AttemptBound
  <2> QED BY <2>5, <2>7, <2>9
<1>8. CASE SaveDone
  <2>1. /\ pc = "save" /\ pc' = "payouts" /\ toSave = {} /\ local' = NoBlocks
        /\ toReward = {}
        /\ UNCHANGED <<faults, status, remote, toReward, toSave, attempts>>
    BY <1>8 DEF SaveDone, TypeOK, RewardTypes, InReward
  <2>2. PassBlocks' /\ OnlyConfirmedRewarded'
    BY <2>1 DEF PassBlocks, OnlyConfirmedRewarded, NoBlocks
  <2>3. \A b \in Blocks : RewardAccounted(b) => RewardAccounted(b)'
    BY <2>1 DEF RewardAccounted
  <2> QED BY <2>1, <2>2, <2>3 DEF AttemptBound
<1>9. CASE Crash
  <2>1. /\ local' = NoBlocks /\ toReward' = {} /\ toSave' = {} /\ pc' = "sleep"
        /\ UNCHANGED <<status, remote, attempts>>
        /\ faults' = faults + 1
    BY <1>9 DEF Crash, Charge
  <2>2. PassBlocks' /\ OnlyConfirmedRewarded'
    BY <2>1 DEF PassBlocks, OnlyConfirmedRewarded, NoBlocks
  <2>3. AttemptBound'
    BY <1>b, <1>c, <2>1 DEF AttemptBound
  <2> QED BY <2>2, <2>3
<1>10. CASE Environment
  <2>1. /\ \A b \in Blocks : remote[b] = "generate" => remote'[b] = "generate"
        /\ UNCHANGED <<pc, faults, status, local, toReward, toSave, attempts>>
    BY <1>10 DEF Environment, Mature, passVars, TypeOK, RewardTypes
  <2>2. PassBlocks' /\ OnlyConfirmedRewarded'
    BY <2>1 DEF PassBlocks, OnlyConfirmedRewarded, TypeOK, RewardTypes
  <2>3. \A b \in Blocks : RewardAccounted(b)' <=> RewardAccounted(b)
    BY <2>1 DEF RewardAccounted
  <2> QED BY <2>1, <2>2, <2>3 DEF AttemptBound
<1>11. CASE UNCHANGED vars
  BY <1>11, <1>c, <1>d, BlocksUntouched DEF vars, rewardsVars, passVars
<1> QED BY <1>1, <1>2, <1>3, <1>4, <1>5, <1>6, <1>7, <1>8, <1>9, <1>10, <1>11
        DEF Next, Manager, RewardStep

LEMMA BlocksInvariance == Spec => []IBlocks
<1>1. Init => IBlocks
  <2> SUFFICES ASSUME Init PROVE PassBlocks /\ OnlyConfirmedRewarded /\ AttemptBound
    BY InitTypes DEF IBlocks
  <2> QED BY DEF Init, RewardsInit, LedgerInit, NoBlocks, PassBlocks,
                 OnlyConfirmedRewarded, AttemptBound
<1>2. IBlocks /\ [Next]_vars => IBlocks'
  BY NextTypes, BlocksInductive DEF IBlocks
<1> QED BY <1>1, <1>2, PTL DEF Spec

(* Rewards and the status "confirmed" go to blocks their chain confirmed.   *)
THEOREM OnlyConfirmedRewardedHolds == Spec => []OnlyConfirmedRewarded
<1>1. IBlocks => OnlyConfirmedRewarded
  BY DEF IBlocks
<1> QED BY <1>1, BlocksInvariance, PTL

(* A block is rewarded at most once more per failure or crash.              *)
THEOREM RewardedOncePerFaultHolds == Spec => []RewardedOncePerFault
<1>1. IBlocks => RewardedOncePerFault
  BY DEF IBlocks, AttemptBound, RewardedOncePerFault
<1> QED BY <1>1, BlocksInvariance, PTL

(* The status of a decided block never changes again.                       *)
THEOREM StatusFinalHolds == Spec => StatusFinal
<1>1. IBlocks /\ [Next]_vars =>
        [\A b \in Blocks : status[b] # "pending" => status'[b] = status[b]]_vars
  <2> SUFFICES ASSUME IBlocks, Next, NEW b \in Blocks, status[b] # "pending"
               PROVE  status'[b] = status[b]
    OBVIOUS
  <2>1. CASE SaveBlock
    <3>1. PICK b0 \in toSave, o \in Outcome :
            status' = IF Applied(o) THEN [status EXCEPT ![b0] = local[b0]] ELSE status
      BY <2>1 DEF SaveBlock, updatedStatus
    <3>2. b0 # b
      BY DEF IBlocks, PassBlocks
    <3> QED BY <3>1, <3>2 DEF IBlocks, TypeOK, RewardTypes
  <2>2. CASE ~SaveBlock
    <3>1. UNCHANGED status
      BY <2>2 DEF Next, Manager, RewardStep, Environment, Crash, Mature, Unlock,
         StartReward, CreditRecipient, PoolRewardDone, NextReward, RewardsDone, SaveDone,
         rewardsVars
    <3> QED BY <3>1
  <2> QED BY <2>1, <2>2
<1> QED BY <1>1, BlocksInvariance, PTL DEF Spec, StatusFinal

(***************************************************************************)
(* The log and the balances part once per failure                          *)
(***************************************************************************)
(* A step leaves the two tables alone or is one AddAmount.                  *)
LedgerStep ==
  \/ UNCHANGED ledgerVars /\ faults' \in {faults, faults + 1}
  \/ \E c \in Chains, a \in Accounts, amount \in Int, o \in AddOutcome :
       AddAmount(c, a, amount, o)

LEMMA LedgerSteps ==
  ASSUME TypeOK, [Next]_vars PROVE LedgerStep
<1>1. CASE CreditMiner
  <2>1. PICK a \in toCredit, o \in AddOutcome : Credit(cur.chain, a, awards[a], o)
    BY <1>1 DEF CreditMiner
  <2>2. cur.chain \in Chains /\ a \in Accounts /\ awards[a] \in Int
    BY <1>1, SchemesAssumption DEF CreditMiner, TypeOK, SchemeTypes, InReward
  <2>3. AddAmount(cur.chain, a, awards[a], o)
    BY <2>1 DEF Credit
  <2> QED BY <2>2, <2>3 DEF LedgerStep
<1>2. CASE CreditRecipient
  <2> DEFINE recipient == PoolRewardRecipients[cur.chain][rcpt]
             amount    == (recipient.percentage * cur.reward) \div 100
  <2>1. recipient.address \in Accounts /\ amount \in Int /\ cur.chain \in Chains
    BY <1>2, RecipientTypes
  <2>2. \/ UNCHANGED <<ledgerVars, faults>>
        \/ \E o \in AddOutcome : AddAmount(cur.chain, recipient.address, amount, o)
    BY <1>2 DEF CreditRecipient, Credit
  <2> HIDE DEF recipient, amount
  <2> QED BY <2>1, <2>2 DEF LedgerStep
<1>3. CASE ResetBalance
  <2>1. PICK o \in AddOutcome : AddAmount(row[1], row[2], -due[row], o)
    BY <1>3 DEF ResetBalance
  <2>2. row \in Rows /\ due[row] \in Nat
    BY <1>3 DEF ResetBalance, TypeOK, PayerTypes
  <2>3. row[1] \in Chains /\ row[2] \in Accounts /\ -due[row] \in Int
    BY <2>2 DEF Rows
  <2> QED BY <2>1, <2>3 DEF LedgerStep
<1>4. CASE SchemeStep /\ ~CreditMiner
  BY <1>4 DEF SchemeStep, StartScheme, FetchPage, VisitShare, EndPage, Award,
              DeleteSharesBefore, Charge, LedgerStep
<1>5. CASE RewardStep /\ ~CreditRecipient
  BY <1>5 DEF RewardStep, Unlock, StartReward, PoolRewardDone, NextReward, RewardsDone,
              SaveBlock, SaveDone, Charge, LedgerStep
<1>6. CASE PayerStep /\ ~ResetBalance
  BY <1>6 DEF PayerStep, SelectDue, SendMany, RecordPayment, Charge, LedgerStep
<1>7. CASE Environment \/ Crash \/ UNCHANGED vars
  BY <1>7 DEF Environment, Mature, Crash, vars, Charge, LedgerStep
<1> QED BY <1>1, <1>2, <1>3, <1>4, <1>5, <1>6, <1>7 DEF Next, Manager

LEMMA OneMore ==
  ASSUME NEW S, IsFiniteSet(S), NEW x
  PROVE  /\ IsFiniteSet(S \cup {x})
         /\ Cardinality(S \cup {x}) <= Cardinality(S) + 1
         /\ Cardinality(S \cup {x}) \in Nat
<1>1. Cardinality(S) \in Nat
  BY FS_CardinalityType
<1>2. /\ IsFiniteSet(S \cup {x})
      /\ Cardinality(S \cup {x}) = IF x \in S THEN Cardinality(S) ELSE Cardinality(S) + 1
  BY FS_AddElement
<1> QED BY <1>1, <1>2

TornRows == {r \in Rows : changes[r] # balances[r]}

ITorn == TypeOK /\ IsFiniteSet(TornRows) /\ TornRowsBounded

LEMMA TornInductive ==
  ASSUME ITorn, [Next]_vars PROVE ITorn'
<1> USE DEF ITorn
<1>t. /\ TypeOK' /\ LedgerTypes /\ faults \in Nat
      /\ Cardinality(TornRows) \in Nat /\ Cardinality(TornRows) <= faults
  BY NextTypes, LedgerAssumption, FS_CardinalityType
     DEF TypeOK, LedgerTypes, TornRowsBounded, TornRows
<1>s. ASSUME IsFiniteSet(TornRows'), Cardinality(TornRows') <= faults' PROVE ITorn'
  BY <1>t, <1>s DEF TornRowsBounded, TornRows
<1>1. CASE UNCHANGED ledgerVars /\ faults' \in {faults, faults + 1}
  <2>1. TornRows' = TornRows
    BY <1>1 DEF TornRows, ledgerVars
  <2> QED BY <1>t, <1>s, <1>1, <2>1
<1>2. ASSUME NEW c \in Chains, NEW a \in Accounts, NEW amount \in Int, NEW o \in AddOutcome,
             AddAmount(c, a, amount, o)
      PROVE  ITorn'
  <2>1. <<c, a>> \in Rows
    BY DEF Rows
  <2>2. CASE AddFailed(o)
    <3>1. TornRows' \in SUBSET (TornRows \cup {<<c, a>>}) /\ faults' = faults + 1
      BY <1>t, <1>2, <2>1, <2>2 DEF AddAmount, Charge, TornRows, LedgerTypes
    <3>2. /\ IsFiniteSet(TornRows \cup {<<c, a>>})
          /\ Cardinality(TornRows \cup {<<c, a>>}) <= Cardinality(TornRows) + 1
          /\ Cardinality(TornRows \cup {<<c, a>>}) \in Nat
      BY OneMore
    <3>3. /\ IsFiniteSet(TornRows')
          /\ Cardinality(TornRows') <= Cardinality(TornRows \cup {<<c, a>>})
          /\ Cardinality(TornRows') \in Nat
      BY <3>1, <3>2, FS_Subset, FS_CardinalityType
    <3>4. Cardinality(TornRows') <= faults'
      BY <1>t, <3>1, <3>2, <3>3
    <3> QED BY <1>s, <3>3, <3>4
  <2>3. CASE ~AddFailed(o)
    <3>1. o[1] = "ok" /\ o[2] = "ok"
      BY <2>3 DEF AddFailed, AddOutcome
    <3>2. /\ changes' = [changes EXCEPT ![<<c, a>>] = @ + amount]
          /\ balances' = [balances EXCEPT ![<<c, a>>] = @ + amount]
          /\ faults' = faults
      BY <1>2, <2>3, <3>1 DEF AddAmount, Charge, Applied
    <3>3. TornRows' = TornRows
      BY <1>t, <2>1, <3>2 DEF TornRows, LedgerTypes
    <3> QED BY <1>t, <1>s, <3>2, <3>3
  <2> QED BY <2>2, <2>3
<1> QED BY <1>1, <1>2, LedgerSteps DEF LedgerStep

(* AddAmount writes the log and the balance without a transaction           *)
(* (balance.go:44, 67): however many rows there are, no more of them        *)
(* disagree than calls have failed or the process has died.                 *)
THEOREM TornRowsBoundedHolds == Spec => []TornRowsBounded
<1>1. Init => ITorn
  <2> SUFFICES ASSUME Init PROVE ITorn
    OBVIOUS
  <2>1. TornRows = {} /\ faults = 0
    BY DEF Init, LedgerInit, TornRows
  <2> QED BY <2>1, InitTypes, FS_EmptySet DEF ITorn, TornRowsBounded, TornRows
<1>2. ITorn /\ [Next]_vars => ITorn'
  BY TornInductive
<1>3. ITorn => TornRowsBounded
  BY DEF ITorn
<1> QED BY <1>1, <1>2, <1>3, PTL DEF Spec

LEMMA FaultsGrow ==
  ASSUME TypeOK, [Next]_vars PROVE faults' >= faults
<1>1. faults \in Nat
  BY LedgerAssumption DEF TypeOK, LedgerTypes
<1>2. ASSUME NEW c, NEW a, NEW amount, NEW o, AddAmount(c, a, amount, o)
      PROVE  faults' \in {faults, faults + 1}
  BY <1>2 DEF AddAmount, Charge
<1>3. faults' \in {faults, faults + 1}
  BY <1>2, LedgerSteps DEF LedgerStep
<1> QED BY <1>1, <1>3

(***************************************************************************)
(* PROP: what is deleted was counted                                       *)
(***************************************************************************)
InScheme == {"page", "share", "award", "credit"}

Seen(s) == \E t \in page \cup counted : t.created = s.created

(* Every share as old as the block is counted, in the page, of the same     *)
(* time as one of these, or still ahead of the loop over the pages.         *)
PagesCover ==
  /\ cutoff <= cur.created
  /\ before <= cur.created
  /\ \A t \in page : t.created <= cur.created
  /\ pc # "share" => page = {}
  /\ pc = "share" /\ ~full => SharesBefore = {}
  /\ \A s \in shares : s.created <= cur.created =>
       Seen(s) \/ (pc \in {"page", "share"} /\ s \in SharesBefore)

IPages == TypeOK /\ (scheme = "PROP" /\ faults = 0 /\ pc \in InScheme => PagesCover)

LEMMA ShareTimes ==
  ASSUME TypeOK
  PROVE  /\ \A s \in shares \cup page : s \in ShareRows /\ s.created \in Nat
         /\ before \in Nat /\ cutoff \in Nat
         /\ pc \in InReward => cur \in Blocks /\ cur.created \in Nat
  BY SchemesAssumption DEF TypeOK, SchemeTypes

LEMMA FetchCovers ==
  ASSUME TypeOK, FetchPage, PagesCover, faults' = faults
  PROVE  PagesCover'
<1>1. PICK p \in Pages(SharesBefore) :
        /\ Complete(p, SharesBefore)
        /\ page' = p
        /\ full' = (Cardinality(p) = PageSize)
        /\ IF p = {}
           THEN before' = before
           ELSE \E s \in p : /\ \A t \in p : s.created <= t.created
                             /\ before' = s.created
  <2>1. faults \in Nat
    BY LedgerAssumption DEF TypeOK, LedgerTypes
  <2>2. ~Charge(TRUE)
    BY <2>1 DEF Charge
  <2> QED BY <2>1, <2>2 DEF FetchPage, Charge
<1>2. pc = "page" /\ pc' = "share" /\ inclusive' = FALSE
      /\ UNCHANGED <<shares, cur, cutoff, counted>>
  <2>1. ~Charge(TRUE)
    BY LedgerAssumption DEF Charge, TypeOK, LedgerTypes
  <2> QED BY <2>1 DEF FetchPage
<1>3. /\ \A s \in shares : s.created \in Nat
      /\ before \in Nat /\ cur.created \in Nat /\ page = {}
  BY <1>2, ShareTimes DEF InReward, PagesCover
<1>4. p \subseteq SharesBefore /\ \A s \in p, t \in SharesBefore \ p : s.created >= t.created
  BY DEF Pages
<1>5. SharesBefore \subseteq shares /\ \A s \in SharesBefore : s.created <= before
  BY <1>3 DEF SharesBefore
<1>6. \A s \in shares : s.created < before => s \in SharesBefore
  BY DEF SharesBefore
<1>7. \A s \in shares : s \in SharesBefore' <=> s.created < before'
  BY <1>2 DEF SharesBefore
<1>8. before' \in Nat /\ before' <= before
  BY <1>1, <1>3, <1>4, <1>5
<1>9. \A t \in p : before' <= t.created
  BY <1>1
<1>10. cutoff' <= cur.created' /\ before' <= cur.created'
       /\ \A t \in page' : t.created <= cur.created'
  BY <1>1, <1>2, <1>3, <1>4, <1>5, <1>8 DEF PagesCover
<1>11. ASSUME ~full' PROVE SharesBefore' = {}
  <2>1. p = SharesBefore
    BY <1>1, <1>11 DEF Complete
  <2>2. ASSUME NEW s \in shares, s.created < before' PROVE FALSE
    <3>1. s \in p
      BY <1>3, <1>6, <1>8, <2>1, <2>2
    <3> QED BY <1>3, <1>8, <1>9, <2>2, <3>1
  <2> QED BY <1>2, <1>7, <2>2 DEF SharesBefore
<1>12. ASSUME NEW s \in shares, s.created <= cur.created
       PROVE  Seen(s)' \/ s \in SharesBefore'
  <2>1. CASE s \in p
    BY <1>1, <2>1 DEF Seen
  <2>2. CASE s \in SharesBefore \ p
    <3>1. Cardinality(p) = PageSize
      BY <1>1, <2>2 DEF Complete
    <3>2. p # {}
      BY <3>1, FS_EmptySet, SchemesAssumption
    <3>3. PICK m \in p : before' = m.created
      BY <1>1, <3>2
    <3>4. s.created <= before'
      BY <1>4, <2>2, <3>3
    <3>5. CASE s.created = before'
      BY <1>1, <3>3, <3>5 DEF Seen
    <3>6. CASE s.created # before'
      BY <1>3, <1>7, <1>8, <3>4, <3>6
    <3> QED BY <3>5, <3>6
  <2>3. CASE s \notin SharesBefore
    <3>1. Seen(s)
      BY <1>2, <1>12, <2>3 DEF PagesCover
    <3> QED BY <1>2, <1>3, <3>1 DEF Seen
  <2> QED BY <2>1, <2>2, <2>3
<1> QED BY <1>2, <1>10, <1>11, <1>12 DEF PagesCover

LEMMA PagesInductive ==
  ASSUME IPages, [Next]_vars PROVE IPages'
<1> USE DEF IPages
<1>t. TypeOK'
  BY NextTypes
<1> SUFFICES ASSUME scheme' = "PROP", faults' = 0, pc' \in InScheme PROVE PagesCover'
  BY <1>t
<1>f. faults = 0
  BY FaultsGrow, LedgerAssumption DEF TypeOK, LedgerTypes
<1>u. scheme = "PROP"
  BY DEF Next, Manager, SchemeStep, StartScheme, FetchPage, VisitShare, EndPage, Award,
     CreditMiner, DeleteSharesBefore, RewardStep, Unlock, StartReward, CreditRecipient,
     PoolRewardDone, NextReward, RewardsDone, SaveBlock, SaveDone, Environment, Mature,
     Crash, schemeVars, vars
<1>q. ASSUME pc \in InScheme, pc \in {"page", "share"} <=> pc' \in {"page", "share"},
             pc' = "share" <=> pc = "share",
             UNCHANGED <<shares, cur, before, inclusive, page, full, cutoff, counted>>
      PROVE  PagesCover'
  <2>1. PagesCover
    BY <1>f, <1>u, <1>q
  <2>2. (SharesBefore' = SharesBefore) /\ \A s : Seen(s)' <=> Seen(s)
    BY <1>q DEF SharesBefore, Seen
  <2> QED BY <1>q, <2>1, <2>2 DEF PagesCover, InScheme
<1>1. CASE StartScheme
  <2>1. /\ pc' = "page" /\ page' = {} /\ cutoff' = 0 /\ before' = cur.created
        /\ inclusive' = TRUE /\ UNCHANGED <<shares, cur>>
    BY <1>1, <1>u DEF StartScheme
  <2>2. cur.created \in Nat /\ \A s \in shares : s.created \in Nat
    BY <1>1, ShareTimes DEF StartScheme, InReward
  <2> QED BY <2>1, <2>2 DEF PagesCover, SharesBefore
<1>2. CASE FetchPage
  <2>1. PagesCover
    BY <1>2, <1>f, <1>u DEF FetchPage, InScheme
  <2> QED BY <1>2, <1>f, <2>1, FetchCovers
<1>3. CASE VisitShare
  <2>1. PICK s \in page : /\ page' = page \ {s}
                          /\ counted' = counted \cup {s}
                          /\ VisitPROP(s)
    BY <1>3, <1>u DEF VisitShare
  <2>2. pc = "share" /\ UNCHANGED <<shares, cur, before, inclusive, full, pc>>
    BY <1>3, <2>1 DEF VisitShare, VisitPROP
  <2>3. PagesCover
    BY <2>2, <1>f, <1>u DEF InScheme
  <2>4. cutoff' <= cur.created
    BY <2>1, <2>3 DEF VisitPROP, PagesCover
  <2>5. (SharesBefore' = SharesBefore) /\ \A x : Seen(x)' <=> Seen(x)
    BY <2>1, <2>2 DEF SharesBefore, Seen
  <2>6. /\ before' <= cur'.created
        /\ \A t \in page' : t.created <= cur'.created
        /\ ~full' => SharesBefore' = {}
    BY <2>1, <2>2, <2>3, <2>5 DEF PagesCover
  <2>7. \A x \in shares' : x.created <= cur'.created => Seen(x)' \/ x \in SharesBefore'
    BY <2>2, <2>3, <2>5 DEF PagesCover
  <2> QED BY <2>2, <2>4, <2>6, <2>7 DEF PagesCover
<1>4. CASE EndPage
  <2>1. /\ pc = "share" /\ page = {} /\ pc' = IF full THEN "page" ELSE "award"
        /\ UNCHANGED <<shares, cur, before, inclusive, page, full, cutoff, counted>>
    BY <1>4 DEF EndPage, anotherPage, schemeVars, loopVars
  <2>2. PagesCover
    BY <2>1, <1>f, <1>u DEF InScheme
  <2>3. (SharesBefore' = SharesBefore) /\ \A x : Seen(x)' <=> Seen(x)
    BY <2>1 DEF SharesBefore, Seen
  <2> QED BY <2>1, <2>2, <2>3 DEF PagesCover
<1>5. CASE Award
  BY <1>5, <1>q DEF Award, InScheme
<1>6. CASE CreditMiner
  BY <1>6, <1>q DEF CreditMiner, InScheme
<1>7. CASE DeleteSharesBefore
  BY <1>7 DEF DeleteSharesBefore, InScheme
<1>8. CASE RewardStep \/ PayerStep \/ Crash
  BY <1>8 DEF RewardStep, Unlock, StartReward, CreditRecipient, PoolRewardDone, NextReward,
     RewardsDone, SaveBlock, SaveDone, PayerStep, SelectDue, SendMany, RecordPayment,
     ResetBalance, AfterReset, NextRow, PayoutEnds, Crash, InScheme
<1>9. CASE Environment \/ UNCHANGED vars
  BY <1>9, <1>q DEF Environment, Mature, vars, schemeVars, loopVars
<1> QED BY <1>1, <1>2, <1>3, <1>4, <1>5, <1>6, <1>7, <1>8, <1>9 DEF Next, Manager, SchemeStep

(* Without a fault so far, PROP deletes a share only if it was counted, or  *)
(* has the time of one that was, whatever the size of the pages and however *)
(* many shares the table held at first: the pages leave no gap              *)
(* (prop.go:24-57), and the cutoff is a time of a counted share             *)
(* (manager.go:42).  No code inserts shares, and neither does the model.    *)
THEOREM DeletedWereCountedHolds == Spec => DeletedWereCounted
<1>1. Init => IPages
  BY InitTypes DEF IPages, Init, InScheme
<1>2. IPages /\ [Next]_vars => IPages'
  BY PagesInductive
<1>3. IPages /\ [Next]_vars =>
        [scheme = "PROP" /\ faults = 0 =>
           \A s \in shares \ shares' : \E t \in counted : t.created = s.created]_vars
  <2> SUFFICES ASSUME IPages, Next, scheme = "PROP", faults = 0,
                      NEW s \in shares, s \notin shares'
               PROVE  \E t \in counted : t.created = s.created
    OBVIOUS
  <2>1. DeleteSharesBefore
    BY DEF Next, Manager, SchemeStep, StartScheme, FetchPage, VisitShare, EndPage, Award,
     CreditMiner, RewardStep, Unlock, StartReward, CreditRecipient,
     PoolRewardDone, NextReward, RewardsDone, SaveBlock, SaveDone, Environment, Mature,
     Crash, schemeVars
  <2>2. pc = "credit" /\ s.created < cutoff
    BY <2>1, ShareTimes DEF DeleteSharesBefore, IPages
  <2>3. PagesCover /\ s.created \in Nat /\ cutoff \in Nat /\ cur.created \in Nat
    BY <2>2, ShareTimes DEF IPages, InScheme, InReward
  <2>4. page = {} /\ Seen(s)
    BY <2>2, <2>3 DEF PagesCover
  <2> QED BY <2>4 DEF Seen
<1> QED BY <1>1, <1>2, <1>3, PTL DEF Spec, DeletedWereCounted

(***************************************************************************)
(* The books: the payout service implements AccountBook, keeps even books  *)
(* while nothing fails, lets no balance go below zero and credits no more  *)
(* than the rewards of the blocks                                          *)
(***************************************************************************)

IBook == IPaid /\ DueIsOwed /\ RecordedCover

LEMMA RowTypes ==
  ASSUME TypeOK, NEW r \in Rows
  PROVE  /\ Spent(r) \in Int
         /\ balances[r] \in Int
         /\ credited[r] \in Int
         /\ Purse(r) \in Purses
         /\ sentTo[Purse(r)] \in Nat
         /\ recorded[Purse(r)] \in Nat
  BY PurseType DEF TypeOK, LedgerTypes, PayerTypes, Spent

LEMMA SoleRow ==
  ASSUME NEW r \in SoleRows
  PROVE  r \in Rows /\ Sole(r)
  BY DEF SoleRows

(***************************************************************************)
(* The invariant                                                           *)
(***************************************************************************)
LEMMA QuietStepBook ==
  ASSUME IBook,
         UNCHANGED recorded,
         \A r \in Rows : Spent(r)' = Spent(r),
         pc' \notin {"send", "record", "reset"}
  PROVE  DueIsOwed' /\ RecordedCover'
  BY SoleRow DEF IBook, DueIsOwed, RecordedCover, SoleRows, Sole, Purse

LEMMA PayerStepBook ==
  ASSUME IBook, PayerStep, UNCHANGED <<schemeVars, rewardsVars>>
  PROVE  DueIsOwed' /\ RecordedCover'
<1> USE DEF IBook, IPaid, TypeOK
<1>a. UNCHANGED credited
  BY DEF schemeVars
<1>c. \A r \in DOMAIN due : due[r] \in Nat /\ r \in Rows
  BY DEF PayerTypes
<1>d. toRecord \subseteq DOMAIN due
  BY DEF PayerTypes
<1>1. CASE SelectDue
  <2>1. UNCHANGED <<sentTo, recorded, ledgerVars>> /\ pc' \in {"sleep", "send"}
    BY <1>1 DEF SelectDue, PayoutEnds
  <2>2. \A r \in Rows : Spent(r)' = Spent(r)
    BY <1>a, <2>1 DEF Spent, ledgerVars
  <2>3. CASE pc' = "sleep"
    BY <2>1, <2>2, <2>3, QuietStepBook
  <2>4. CASE pc' = "send"
    <3>1. PICK rows \in SUBSET OverThreshold :
            due' = [r \in rows |-> balances[r]] /\ toRecord' = rows
      BY <1>1, <2>4 DEF SelectDue, PayoutEnds
    <3>2. ASSUME NEW r \in rows PROVE due'[r] = balances[r] /\ due'[r] > 0
      <4>1. r \in Rows /\ balances[r] >= Threshold(r)
        BY DEF OverThreshold
      <4>2. Threshold(r) \in Nat \ {0}
        BY <4>1, ThresholdType
      <4> QED BY <3>1, <4>1, <4>2, RowTypes
    <3>3. DueIsOwed'
      BY <2>1, <2>4, <3>1, <3>2 DEF DueIsOwed, ledgerVars
    <3>4. RecordedCover'
      BY <2>1, <2>2, <2>4, SoleRow DEF RecordedCover, SoleRows, Sole, Purse
    <3> QED BY <3>3, <3>4
  <2> QED BY <2>1, <2>3, <2>4
<1>2. CASE SendMany
  <2>1. PICK c \in toSend, o \in Outcome :
          IF o = "ok"
          THEN /\ pc' = IF toSend' = {} THEN "record" ELSE pc
               /\ UNCHANGED <<due, toRecord, row>>
          ELSE /\ ClearPayout
               /\ pc' = "sleep"
    BY <1>2 DEF SendMany, sendSucceeded, PayoutEnds
  <2>2. pc = "send" /\ UNCHANGED <<ledgerVars, recorded>>
    BY <1>2 DEF SendMany, sendSucceeded, PayoutEnds
  <2>3. \A r \in Rows : Spent(r)' = Spent(r)
    BY <1>a, <2>2 DEF Spent, ledgerVars
  <2>4. CASE o # "ok"
    BY <2>1, <2>2, <2>3, <2>4, QuietStepBook
  <2>5. CASE o = "ok"
    <3>1. pc' \in {"send", "record"} /\ UNCHANGED <<due, toRecord, row>>
      BY <2>1, <2>2, <2>5
    <3>2. DueIsOwed'
      BY <2>2, <3>1 DEF DueIsOwed, ledgerVars
    <3>3. RecordedCover'
      BY <2>2, <2>3, <3>1, SoleRow DEF RecordedCover, SoleRows, Sole, Purse
    <3> QED BY <3>2, <3>3
  <2> QED BY <2>4, <2>5
<1>3. CASE RecordPayment
  <2>1. PICK r0 \in toRecord, o \in Outcome :
          /\ recorded' = IF Applied(o)
                         THEN [recorded EXCEPT ![Purse(r0)] = @ + due[r0]]
                         ELSE recorded
          /\ IF o = "ok"
             THEN /\ row' = r0
                  /\ toRecord' = toRecord \ {r0}
                  /\ pc' = "reset"
                  /\ UNCHANGED <<due, toSend>>
             ELSE /\ ClearPayout
                  /\ pc' = "sleep"
    BY <1>3 DEF RecordPayment, PayoutEnds
  <2>2. pc = "record" /\ UNCHANGED <<ledgerVars, sentTo>>
    BY <1>3 DEF RecordPayment, PayoutEnds
  <2>3. \A r \in Rows : Spent(r)' = Spent(r)
    BY <1>a, <2>2 DEF Spent, ledgerVars
  <2>4. r0 \in Rows /\ due[r0] \in Nat
    BY <1>c, <1>d, <2>1
  <2>5. DueIsOwed'
    BY <2>1, <2>2 DEF DueIsOwed, ClearPayout, ledgerVars
  <2>6. ASSUME NEW r \in SoleRows
        PROVE  /\ Spent(r)' <= recorded'[Purse(r)]
               /\ pc' = "reset" /\ row' = r => Spent(r)' + due'[r] <= recorded'[Purse(r)]
    <3>1. Spent(r) <= recorded[Purse(r)] /\ r \in Rows /\ Sole(r)
      BY SoleRow DEF RecordedCover
    <3>2. CASE r = r0
      <4>1. recorded'[Purse(r)] = IF Applied(o) THEN recorded[Purse(r)] + due[r]
                                  ELSE recorded[Purse(r)]
        BY <2>1, <3>1, <3>2, RowTypes DEF PayerTypes
      <4>2. pc' = "reset" => Applied(o) /\ due' = due
        BY <2>1 DEF Applied
      <4> QED BY <2>3, <2>4, <3>1, <3>2, <4>1, <4>2, RowTypes
    <3>3. CASE r # r0
      <4>1. Purse(r) # Purse(r0)
        BY <2>4, <3>1, <3>3 DEF Sole
      <4>2. recorded'[Purse(r)] = recorded[Purse(r)]
        BY <2>1, <3>1, <4>1, RowTypes DEF PayerTypes
      <4>3. ~(pc' = "reset" /\ row' = r)
        BY <2>1, <3>3
      <4> QED BY <2>3, <3>1, <4>2, <4>3
    <3> QED BY <3>2, <3>3
  <2> QED BY <2>5, <2>6 DEF RecordedCover, SoleRows, Sole, Purse
<1>4. CASE ResetBalance
  <2>1. row \in DOMAIN due /\ row \in Rows /\ due[row] \in Nat
    BY <1>4, <1>c DEF ResetBalance, PayerTypes
  <2>2. pc = "reset" /\ row \notin toRecord /\ UNCHANGED recorded
    BY <1>4 DEF ResetBalance, PayoutOrder
  <2>3. PICK o \in AddOutcome :
          /\ AddAmount(row[1], row[2], -due[row], o)
          /\ IF AddFailed(o) \/ toRecord = {}
             THEN /\ ClearPayout
                  /\ pc' = "sleep"
             ELSE /\ row' = NoRow
                  /\ pc' = "record"
                  /\ UNCHANGED <<due, toSend, toRecord>>
    BY <1>4 DEF ResetBalance, AfterReset, NextRow, PayoutEnds
  <2>4. balances' = balances \/ balances' = [balances EXCEPT ![row] = @ + -due[row]]
    BY <2>1, <2>3, PurseType DEF AddAmount
  <2>5. \A r \in Rows : r # row => balances'[r] = balances[r]
    BY <2>1, <2>4 DEF LedgerTypes
  <2>6. DueIsOwed'
    BY <1>c, <1>d, <2>1, <2>2, <2>3, <2>5 DEF DueIsOwed
  <2>7. ASSUME NEW r \in SoleRows PROVE Spent(r)' <= recorded[Purse(r)]
    <3>1. /\ Spent(r) <= recorded[Purse(r)]
          /\ row = r => Spent(r) + due[r] <= recorded[Purse(r)]
          /\ r \in Rows
      BY <2>2, SoleRow DEF RecordedCover
    <3>2. CASE r = row
      BY <1>a, <2>1, <2>4, <3>1, <3>2, RowTypes DEF Spent, LedgerTypes
    <3>3. CASE r # row
      BY <1>a, <2>5, <3>1, <3>3 DEF Spent
    <3> QED BY <3>2, <3>3
  <2> QED BY <2>2, <2>3, <2>6, <2>7 DEF RecordedCover, SoleRows, Sole, Purse
<1> QED BY <1>1, <1>2, <1>3, <1>4 DEF PayerStep

LEMMA BookInvariance == Spec => []IBook
<1>1. Init => DueIsOwed /\ RecordedCover
  <2> SUFFICES ASSUME Init PROVE DueIsOwed /\ RecordedCover
    OBVIOUS
  <2>1. DueIsOwed
    BY DEF Init, DueIsOwed
  <2>2. ASSUME NEW r \in Rows
        PROVE  Spent(r) <= recorded[Purse(r)] /\ pc # "reset"
    BY PurseType DEF Init, LedgerInit, SchemesInit, PayerInit, Spent
  <2> QED BY <2>1, <2>2 DEF RecordedCover, SoleRows
<1>2. IPaid /\ IPaid' /\ DueIsOwed /\ RecordedCover /\ [Next]_vars
        => DueIsOwed' /\ RecordedCover'
  <2> SUFFICES ASSUME IBook, [Next]_vars PROVE DueIsOwed' /\ RecordedCover'
    BY DEF IBook
  <2> USE DEF IBook, IPaid
  <2>1. CASE SchemeStep /\ UNCHANGED <<rewardsVars, payerVars>>
    <3>1. pc' \notin {"send", "record", "reset"}
      BY <2>1 DEF SchemeStep, StartScheme, FetchPage, VisitShare, VisitPPLNS, VisitPROP,
                  EndPage, Award, CreditMiner, DeleteSharesBefore
    <3> QED BY <2>1, <3>1, RewardsSpent, QuietStepBook DEF payerVars
  <2>2. CASE RewardStep /\ UNCHANGED payerVars
    <3>1. pc' \notin {"send", "record", "reset"}
      BY <2>2 DEF RewardStep, Unlock, StartReward, CreditRecipient, PoolRewardDone,
                  NextReward, RewardsDone, SaveBlock, SaveDone
    <3> QED BY <2>2, <3>1, RewardsSpent, QuietStepBook DEF payerVars
  <2>3. CASE PayerStep /\ UNCHANGED <<schemeVars, rewardsVars>>
    BY <2>3, PayerStepBook
  <2>4. CASE Crash
    <3>1. \A r \in Rows : Spent(r)' = Spent(r)
      BY <2>4 DEF Crash, Spent, ledgerVars
    <3> QED BY <2>4, <3>1, QuietStepBook DEF Crash
  <2>5. CASE Environment \/ UNCHANGED vars
    <3>1. UNCHANGED <<pc, ledgerVars, credited, payerVars>>
      BY <2>5 DEF Environment, Mature, vars, schemeVars
    <3> QED BY <3>1 DEF DueIsOwed, RecordedCover, SoleRows, Sole, Purse, Spent, ledgerVars,
                        payerVars, payoutVars
  <2> QED BY <2>1, <2>2, <2>3, <2>4, <2>5 DEF Next, Manager
<1> QED BY <1>1, <1>2, PaidInvariance, PTL DEF Spec, IBook

(***************************************************************************)
(* The refinement                                                          *)
(***************************************************************************)
(* The mapped state of one account.                                         *)
LEMMA MappedOwed ==
  ASSUME TypeOK, NEW r \in SoleRows
  PROVE  Book!Owed(r) = balances[r]
<1>1. r \in Rows
  BY SoleRow
<1> QED BY <1>1, RowTypes DEF Book!Owed, Spent

LEMMA Stutter ==
  ASSUME \A r \in SoleRows : /\ credited'[r] = credited[r]
                             /\ Spent(r)' = Spent(r)
                             /\ sentTo'[Purse(r)] = sentTo[Purse(r)]
                             /\ recorded'[Purse(r)] = recorded[Purse(r)]
  PROVE  UNCHANGED Book!book
  BY DEF Book!book, SoleRows, Sole, Purse, Rows

(* A reward credited is earned.                                             *)
LEMMA CreditEarns ==
  ASSUME TypeOK,
         NEW c \in Chains, NEW a \in Accounts, NEW amount \in Int, NEW o \in AddOutcome,
         Credit(c, a, amount, o), UNCHANGED payerVars
  PROVE  [Book!Next]_(Book!book)
<1>1. \A r \in Rows : Spent(r)' = Spent(r)
  BY CreditSpent DEF TypeOK
<1>2. \A r \in Rows : r # <<c, a>> => credited'[r] = credited[r]
  BY DEF Credit, TypeOK, LedgerTypes
<1>3. UNCHANGED <<sentTo, recorded>>
  BY DEF payerVars
<1>4. CASE <<c, a>> \in SoleRows
  <2>1. Book!Earn
    BY <1>1, <1>2, <1>3, <1>4, SoleRow DEF Book!Earn, SoleRows, Sole, Purse
  <2> QED BY <2>1 DEF Book!Next
<1>5. CASE <<c, a>> \notin SoleRows
  BY <1>1, <1>2, <1>3, <1>5, SoleRow, Stutter DEF Purse
<1> QED BY <1>4, <1>5

LEMMA RewardsRefine ==
  ASSUME TypeOK, SchemeStep \/ RewardStep, UNCHANGED payerVars
  PROVE  [Book!Next]_(Book!book)
<1>1. CASE CreditMiner
  <2>1. PICK a \in toCredit, o \in AddOutcome : Credit(cur.chain, a, awards[a], o)
    BY <1>1 DEF CreditMiner
  <2>2. cur.chain \in Chains /\ a \in Accounts /\ awards[a] \in Int
    BY <1>1, SchemesAssumption DEF CreditMiner, TypeOK, SchemeTypes, InReward
  <2> QED BY <2>1, <2>2, CreditEarns
<1>2. ASSUME UNCHANGED <<ledgerVars, credited>> PROVE [Book!Next]_(Book!book)
  <2>1. UNCHANGED <<credited, balances, sentTo, recorded>>
    BY <1>2 DEF ledgerVars, payerVars
  <2> QED BY <2>1, Stutter DEF Spent, Purse
<1>3. CASE CreditRecipient
  <2> DEFINE recipient == PoolRewardRecipients[cur.chain][rcpt]
             amount    == (recipient.percentage * cur.reward) \div 100
  <2>1. cur.chain \in Chains /\ cur.reward \in Nat
    BY <1>3, SchemesAssumption DEF CreditRecipient, TypeOK, SchemeTypes, InReward
  <2>2. PoolRewardRecipients[cur.chain] \in Seq([address : Accounts, percentage : Nat])
    BY <2>1, RewardsAssumption
  <2>3. rcpt \in 1..Len(PoolRewardRecipients[cur.chain])
    BY <1>3, <2>2 DEF CreditRecipient, TypeOK, RewardTypes
  <2>4. recipient \in [address : Accounts, percentage : Nat]
    BY <2>2, <2>3, ElementOf
  <2>5. recipient.address \in Accounts /\ recipient.percentage \in Nat
    BY <2>4
  <2>6. amount \in Int
    <3> HIDE DEF recipient
    <3> QED BY <2>1, <2>5, DivInt, MulInt
  <2>7. \/ UNCHANGED <<ledgerVars, credited>>
        \/ \E o \in AddOutcome : Credit(cur.chain, recipient.address, amount, o)
    BY <1>3 DEF CreditRecipient
  <2> HIDE DEF recipient, amount
  <2>8. ASSUME NEW o \in AddOutcome, Credit(cur.chain, recipient.address, amount, o)
        PROVE  [Book!Next]_(Book!book)
    BY <2>1, <2>5, <2>6, <2>8, CreditEarns
  <2> QED BY <1>2, <2>7, <2>8
<1>4. CASE SchemeStep /\ ~CreditMiner
  <2>1. UNCHANGED <<ledgerVars, credited>>
    BY <1>4 DEF SchemeStep, StartScheme, FetchPage, VisitShare, EndPage, Award,
                DeleteSharesBefore, schemeVars
  <2> QED BY <1>2, <2>1
<1>5. CASE RewardStep /\ ~CreditRecipient
  <2>1. UNCHANGED <<ledgerVars, credited>>
    BY <1>5 DEF RewardStep, Unlock, StartReward, PoolRewardDone, NextReward, RewardsDone,
                SaveBlock, SaveDone, schemeVars
  <2> QED BY <1>2, <2>1
<1> QED BY <1>1, <1>3, <1>4, <1>5

LEMMA PayerRefines ==
  ASSUME IBook, PayerStep, UNCHANGED <<schemeVars, rewardsVars>>
  PROVE  [Book!Next]_(Book!book)
<1> USE DEF IBook, IPaid
<1>a. UNCHANGED credited
  BY DEF schemeVars
<1>c. \A r \in DOMAIN due : due[r] \in Nat /\ r \in Rows
  BY DEF TypeOK, PayerTypes
<1>d. toRecord \subseteq DOMAIN due
  BY DEF TypeOK, PayerTypes
<1>1. CASE SelectDue
  <2>1. UNCHANGED <<credited, balances, sentTo, recorded>>
    BY <1>1, <1>a DEF SelectDue, ledgerVars
  <2> QED BY <2>1, Stutter DEF Spent, Purse
<1>2. CASE SendMany
  <2>1. PICK c \in toSend, o \in Outcome :
          IF Applied(o)
          THEN \E tx \in Transactions(c) :
                 sentTo' = [p \in Purses |->
                              IF p[1] = c /\ p[2] \in DOMAIN tx
                              THEN sentTo[p] + tx[p[2]] ELSE sentTo[p]]
          ELSE sentTo' = sentTo
    BY <1>2 DEF SendMany
  <2>2. pc = "send" /\ UNCHANGED <<ledgerVars, recorded>> /\ c \in Chains
    BY <1>2, <2>1 DEF SendMany, TypeOK, PayerTypes
  <2>3. \A r \in Rows : Spent(r)' = Spent(r)
    BY <1>a, <2>2 DEF Spent, ledgerVars
  <2>4. ASSUME NEW r \in SoleRows
        PROVE  \/ sentTo'[Purse(r)] = sentTo[Purse(r)]
               \/ balances[r] > 0 /\ sentTo'[Purse(r)] = sentTo[Purse(r)] + balances[r]
    <3>1. r \in Rows /\ Sole(r) /\ Purse(r) \in Purses
      BY SoleRow, RowTypes
    <3>2. CASE Applied(o)
      <4>1. PICK tx \in Transactions(c) :
              sentTo' = [p \in Purses |->
                           IF p[1] = c /\ p[2] \in DOMAIN tx
                           THEN sentTo[p] + tx[p[2]] ELSE sentTo[p]]
        BY <2>1, <3>2
      <4>2. CASE r[1] = c /\ findBalanceAddress(r) \in DOMAIN tx
        <5>1. PICK q \in DOMAIN due :
                q[1] = c /\ findBalanceAddress(q) = findBalanceAddress(r)
                /\ tx[findBalanceAddress(r)] = due[q]
          BY <2>2, <4>2, TransactionType DEF TypeOK
        <5>2. q = r
          BY <1>c, <3>1, <4>2, <5>1 DEF Sole, Purse
        <5>3. due[r] = balances[r] /\ due[r] > 0
          BY <2>2, <5>1, <5>2 DEF DueIsOwed
        <5>4. Purse(r)[1] = c /\ Purse(r)[2] = findBalanceAddress(r)
          BY <4>2 DEF Purse
        <5> QED BY <3>1, <4>1, <4>2, <5>1, <5>2, <5>3, <5>4
      <4>3. CASE ~(r[1] = c /\ findBalanceAddress(r) \in DOMAIN tx)
        <5>1. Purse(r)[1] = r[1] /\ Purse(r)[2] = findBalanceAddress(r)
          BY DEF Purse
        <5> QED BY <3>1, <4>1, <4>3, <5>1
      <4> QED BY <4>2, <4>3
    <3>3. CASE ~Applied(o)
      BY <2>1, <3>3
    <3> QED BY <3>2, <3>3
  <2>5. Book!Send
    <3>1. \A r \in SoleRows : Book!Owed(r) = balances[r]
      BY MappedOwed
    <3>2. UNCHANGED <<credited, recorded>>
      BY <1>a, <2>2
    <3> QED BY <2>3, <2>4, <3>1, <3>2, SoleRow DEF Book!Send, Purse
  <2> QED BY <2>5 DEF Book!Next
<1>3. CASE RecordPayment
  <2>1. PICK r0 \in toRecord, o \in Outcome :
          recorded' = IF Applied(o)
                      THEN [recorded EXCEPT ![Purse(r0)] = @ + due[r0]]
                      ELSE recorded
    BY <1>3 DEF RecordPayment
  <2>2. pc = "record" /\ toSend = {} /\ UNCHANGED <<ledgerVars, sentTo>>
    BY <1>3 DEF RecordPayment, PayoutOrder
  <2>3. \A r \in Rows : Spent(r)' = Spent(r)
    BY <1>a, <2>2 DEF Spent, ledgerVars
  <2>4. r0 \in Rows /\ due[r0] = balances[r0] /\ due[r0] > 0
    BY <1>c, <1>d, <2>1, <2>2 DEF DueIsOwed
  <2>5. CASE ~Applied(o) \/ r0 \notin SoleRows
    <3>1. \A r \in SoleRows : recorded'[Purse(r)] = recorded[Purse(r)]
      BY <2>1, <2>4, <2>5, SoleRow, RowTypes DEF Sole, SoleRows, TypeOK, PayerTypes
    <3> QED BY <1>a, <2>2, <2>3, <3>1, SoleRow, Stutter DEF Purse
  <2>6. CASE Applied(o) /\ r0 \in SoleRows
    <3>1. /\ recorded[Purse(r0)] + balances[r0] <= sentTo[Purse(r0)]
          /\ recorded'[Purse(r0)] = recorded[Purse(r0)] + balances[r0]
      <4>1. CoveredBy(r0, sentTo[Purse(r0)])
        BY <2>4, <2>6, SoleRow DEF PaidCover
      <4>2. recorded[Purse(r0)] + due[r0] <= sentTo[Purse(r0)]
        BY <2>1, <2>2, <4>1 DEF CoveredBy
      <4> QED BY <2>1, <2>4, <2>6, <4>2, RowTypes DEF TypeOK, PayerTypes
    <3>2. \A r \in SoleRows : r # r0 => recorded'[Purse(r)] = recorded[Purse(r)]
      BY <2>1, <2>4, <2>6, SoleRow, RowTypes DEF Sole, TypeOK, PayerTypes
    <3>3. Book!Owed(r0) = balances[r0] /\ balances[r0] > 0
      BY <2>4, <2>6, MappedOwed
    <3>4. Book!Record
      BY <1>a, <2>2, <2>3, <2>6, <3>1, <3>2, <3>3, SoleRow DEF Book!Record, Purse
    <3> QED BY <3>4 DEF Book!Next
  <2> QED BY <2>5, <2>6
<1>4. CASE ResetBalance
  <2>1. row \in DOMAIN due /\ row \in Rows /\ due[row] \in Nat
    BY <1>4, <1>c DEF ResetBalance, TypeOK, PayerTypes
  <2>2. pc = "reset" /\ UNCHANGED <<sentTo, recorded>> /\ due[row] = balances[row]
    BY <1>4 DEF ResetBalance, DueIsOwed
  <2>3. PICK o \in AddOutcome : AddAmount(row[1], row[2], -due[row], o)
    BY <1>4 DEF ResetBalance
  <2>4. balances' = balances \/ balances' = [balances EXCEPT ![row] = @ + -due[row]]
    BY <2>1, <2>3, PurseType DEF AddAmount
  <2>5. \A r \in Rows : r # row => Spent(r)' = Spent(r)
    BY <1>a, <2>1, <2>4 DEF Spent, TypeOK, LedgerTypes
  <2>6. CASE balances' = balances \/ row \notin SoleRows
    <3>1. \A r \in SoleRows : Spent(r)' = Spent(r)
      BY <1>a, <2>5, <2>6, SoleRow DEF Spent
    <3> QED BY <1>a, <2>2, <3>1, Stutter DEF Purse
  <2>7. CASE balances' # balances /\ row \in SoleRows
    <3>0. PICK r0 \in SoleRows : r0 = row
      BY <2>7
    <3>1. Spent(r0)' = credited[r0]
      BY <1>a, <2>1, <2>2, <2>4, <2>7, <3>0, RowTypes DEF Spent, TypeOK, LedgerTypes
    <3>2. credited[r0] <= recorded[Purse(r0)]
      <4>1. Spent(r0) + due[r0] <= recorded[Purse(r0)]
        BY <2>2, <3>0 DEF RecordedCover
      <4> QED BY <2>1, <2>2, <3>0, <4>1, RowTypes DEF Spent
    <3>3. Book!Settle
      BY <1>a, <2>2, <2>5, <3>0, <3>1, <3>2, SoleRow DEF Book!Settle, Purse
    <3> QED BY <3>3 DEF Book!Next
  <2> QED BY <2>6, <2>7
<1> QED BY <1>1, <1>2, <1>3, <1>4 DEF PayerStep

(* The payout service keeps the account book of every row that has a wallet *)
(* of its own: whatever fails and whenever the process dies, coins are sent *)
(* for exactly what a row is owed, recorded only when sent and taken off    *)
(* the balance only when recorded (payer.go:15-114, balance.go:31-68).      *)
THEOREM KeepsAccountBookHolds == Spec => KeepsAccountBook
<1>1. Init => Book!Init
  <2> SUFFICES ASSUME Init PROVE Book!Init
    OBVIOUS
  <2>1. \A r \in SoleRows : /\ credited[r] = 0
                             /\ Spent(r) = 0
                             /\ sentTo[Purse(r)] = 0
                             /\ recorded[Purse(r)] = 0
    BY SoleRow, PurseType DEF Init, LedgerInit, SchemesInit, PayerInit, Spent
  <2> QED BY <2>1 DEF Book!Init
<1>2. IBook /\ [Next]_vars => [Book!Next]_(Book!book)
  <2> SUFFICES ASSUME IBook, [Next]_vars PROVE [Book!Next]_(Book!book)
    OBVIOUS
  <2>0. TypeOK
    BY DEF IBook, IPaid
  <2>1. CASE SchemeStep /\ UNCHANGED <<rewardsVars, payerVars>>
    BY <2>0, <2>1, RewardsRefine
  <2>2. CASE RewardStep /\ UNCHANGED payerVars
    BY <2>0, <2>2, RewardsRefine
  <2>3. CASE PayerStep /\ UNCHANGED <<schemeVars, rewardsVars>>
    BY <2>3, PayerRefines
  <2>4. CASE Crash \/ Environment \/ UNCHANGED vars
    <3>1. UNCHANGED <<credited, balances, sentTo, recorded>>
      BY <2>4 DEF Crash, Environment, Mature, vars, schemeVars, ledgerVars, payerVars
    <3> QED BY <3>1, Stutter DEF Spent, Purse
  <2> QED BY <2>1, <2>2, <2>3, <2>4 DEF Next, Manager
<1> QED BY <1>1, <1>2, BookInvariance, PTL DEF Spec, KeepsAccountBook, Book!Spec

(***************************************************************************)
(* Without a failure the books are even between two passes                 *)
(***************************************************************************)
(* Coins sent for a row and not yet taken off its balance.                  *)
Unsettled(r) ==
  IF \/ pc \in {"send", "record", "reset"} /\ r \in toRecord /\ r[1] \notin toSend
     \/ pc = "reset" /\ row = r
  THEN due[r] ELSE 0

(* A payment recorded and not yet taken off the balance.                    *)
Unreset(r) == IF pc = "reset" /\ row = r THEN due[r] ELSE 0

SettledSoFar ==
  \A r \in SoleRows : /\ sentTo[Purse(r)] = Spent(r) + Unsettled(r)
                      /\ recorded[Purse(r)] = Spent(r) + Unreset(r)

LEMMA QuietStepSettled ==
  ASSUME SettledSoFar,
         \A r \in Rows : Spent(r)' = Spent(r),
         UNCHANGED <<sentTo, recorded>>,
         pc \notin {"send", "record", "reset"}, pc' \notin {"send", "record", "reset"}
  PROVE  SettledSoFar'
  BY SoleRow DEF SettledSoFar, Unsettled, Unreset, SoleRows, Sole, Purse

LEMMA PayerStepSettled ==
  ASSUME IBook, SettledSoFar, faults = 0, faults' = 0,
         PayerStep, UNCHANGED <<schemeVars, rewardsVars>>
  PROVE  SettledSoFar'
<1> USE DEF IBook, IPaid
<1>a. UNCHANGED credited
  BY DEF schemeVars
<1>c. \A r \in DOMAIN due : due[r] \in Nat /\ r \in Rows
  BY DEF TypeOK, PayerTypes
<1>d. toRecord \subseteq DOMAIN due
  BY DEF TypeOK, PayerTypes
<1>s. SUFFICES ASSUME NEW r \in SoleRows
               PROVE  /\ sentTo'[Purse(r)] = Spent(r)' + Unsettled(r)'
                      /\ recorded'[Purse(r)] = Spent(r)' + Unreset(r)'
  BY DEF SettledSoFar, SoleRows, Sole, Purse
<1>i. /\ sentTo[Purse(r)] = Spent(r) + Unsettled(r)
      /\ recorded[Purse(r)] = Spent(r) + Unreset(r)
  BY DEF SettledSoFar
<1>r. r \in Rows /\ Sole(r) /\ Purse(r) \in Purses
  BY SoleRow, RowTypes
<1>1. CASE SelectDue
  <2>1. UNCHANGED <<sentTo, recorded, ledgerVars>> /\ pc = "payouts" /\ ~Charge(TRUE)
    BY <1>1 DEF SelectDue, Charge
  <2>2. PICK rows \in SUBSET OverThreshold :
          /\ toSend' = {q[1] : q \in rows}
          /\ toRecord' = rows
          /\ pc' = IF rows = {} THEN "sleep" ELSE "send"
    BY <1>1, <2>1 DEF SelectDue
  <2>3. Unsettled(r) = 0 /\ Unreset(r) = 0 /\ Unsettled(r)' = 0 /\ Unreset(r)' = 0
    BY <2>1, <2>2 DEF Unsettled, Unreset
  <2>4. Spent(r)' = Spent(r)
    BY <1>a, <2>1 DEF Spent, ledgerVars
  <2> QED BY <1>i, <2>1, <2>3, <2>4
<1>2. CASE SendMany
  <2>0. PICK c \in toSend :
          /\ \E tx \in Transactions(c) :
               sentTo' = [p \in Purses |->
                            IF p[1] = c /\ p[2] \in DOMAIN tx
                            THEN sentTo[p] + tx[p[2]] ELSE sentTo[p]]
          /\ toSend' = toSend \ {c}
          /\ pc' = IF toSend' = {} THEN "record" ELSE pc
          /\ UNCHANGED <<due, toRecord, row>>
    <3>1. PICK c \in toSend, o \in Outcome :
            /\ Charge(o # "ok")
            /\ IF Applied(o)
               THEN \E tx \in Transactions(c) :
                      sentTo' = [p \in Purses |->
                                   IF p[1] = c /\ p[2] \in DOMAIN tx
                                   THEN sentTo[p] + tx[p[2]] ELSE sentTo[p]]
               ELSE sentTo' = sentTo
            /\ IF o = "ok"
               THEN /\ toSend' = toSend \ {c}
                    /\ pc' = IF toSend' = {} THEN "record" ELSE pc
                    /\ UNCHANGED <<due, toRecord, row>>
               ELSE PayoutEnds
      BY <1>2 DEF SendMany, sendSucceeded
    <3>2. o = "ok" /\ Applied(o)
      BY <3>1 DEF Charge, Applied
    <3> QED BY <3>1, <3>2
  <2>1. PICK tx \in Transactions(c) :
          /\ sentTo' = [p \in Purses |->
                          IF p[1] = c /\ p[2] \in DOMAIN tx
                          THEN sentTo[p] + tx[p[2]] ELSE sentTo[p]]
          /\ toSend' = toSend \ {c}
          /\ pc' = IF toSend' = {} THEN "record" ELSE pc
          /\ UNCHANGED <<due, toRecord, row>>
    BY <2>0
  <2>2. pc = "send" /\ UNCHANGED <<ledgerVars, recorded>> /\ c \in Chains
    BY <1>2, <2>1 DEF SendMany, TypeOK, PayerTypes
  <2>3. Spent(r)' = Spent(r) /\ Unreset(r) = 0 /\ Unreset(r)' = 0
    BY <1>a, <2>1, <2>2 DEF Spent, ledgerVars, Unreset
  <2>4. toRecord = DOMAIN due
    BY <2>2 DEF DueIsOwed
  <2>5. Purse(r)[1] = r[1] /\ Purse(r)[2] = findBalanceAddress(r)
    BY DEF Purse
  <2>6. CASE r[1] = c /\ r \in toRecord
    <3>1. findBalanceAddress(r) \in DOMAIN tx
      BY <2>2, <2>4, <2>6, TransactionType DEF TypeOK
    <3>2. PICK q \in DOMAIN due :
            q[1] = c /\ findBalanceAddress(q) = findBalanceAddress(r)
            /\ tx[findBalanceAddress(r)] = due[q]
      BY <2>2, <3>1, TransactionType DEF TypeOK
    <3>3. q = r
      BY <1>c, <1>r, <2>6, <3>2 DEF Sole, Purse
    <3>4. sentTo'[Purse(r)] = sentTo[Purse(r)] + due[r]
      BY <1>r, <2>1, <2>5, <2>6, <3>1, <3>2, <3>3
    <3>5. Unsettled(r) = 0 /\ Unsettled(r)' = due[r]
      BY <2>1, <2>2, <2>6 DEF Unsettled
    <3> QED BY <1>c, <1>i, <1>r, <2>2, <2>3, <2>4, <2>6, <3>4, <3>5, RowTypes
  <2>7. CASE ~(r[1] = c /\ r \in toRecord)
    <3>1. ~(r[1] = c /\ findBalanceAddress(r) \in DOMAIN tx)
      <4> SUFFICES ASSUME r[1] = c, findBalanceAddress(r) \in DOMAIN tx PROVE FALSE
        OBVIOUS
      <4>1. PICK q \in DOMAIN due :
              q[1] = c /\ findBalanceAddress(q) = findBalanceAddress(r)
        BY <2>2, TransactionType DEF TypeOK
      <4>2. q = r
        BY <1>c, <1>r, <4>1 DEF Sole, Purse
      <4> QED BY <2>4, <2>7, <4>2
    <3>2. sentTo'[Purse(r)] = sentTo[Purse(r)]
      BY <1>r, <2>1, <2>5, <3>1
    <3>3. Unsettled(r)' = Unsettled(r)
      BY <2>1, <2>2, <2>7 DEF Unsettled
    <3> QED BY <1>i, <2>2, <2>3, <3>2, <3>3
  <2> QED BY <2>6, <2>7
<1>3. CASE RecordPayment
  <2>1. PICK r0 \in toRecord, o \in Outcome :
          /\ Charge(o # "ok")
          /\ recorded' = IF Applied(o)
                         THEN [recorded EXCEPT ![Purse(r0)] = @ + due[r0]]
                         ELSE recorded
          /\ IF o = "ok"
             THEN /\ row' = r0
                  /\ toRecord' = toRecord \ {r0}
                  /\ pc' = "reset"
                  /\ UNCHANGED <<due, toSend>>
             ELSE PayoutEnds
    BY <1>3 DEF RecordPayment
  <2>2. o = "ok" /\ Applied(o)
    BY <2>1 DEF Charge, Applied
  <2>3. pc = "record" /\ toSend = {} /\ UNCHANGED <<ledgerVars, sentTo>>
    BY <1>3 DEF RecordPayment, PayoutOrder
  <2>4. Spent(r)' = Spent(r)
    BY <1>a, <2>3 DEF Spent, ledgerVars
  <2>5. r0 \in Rows /\ due[r0] \in Nat
    BY <1>c, <1>d, <2>1
  <2>6. Unsettled(r)' = Unsettled(r)
    BY <2>1, <2>2, <2>3 DEF Unsettled
  <2>7. recorded'[Purse(r)] = recorded[Purse(r)] + Unreset(r)' /\ Unreset(r) = 0
    <3>1. CASE r = r0
      BY <1>r, <2>1, <2>2, <2>3, <3>1 DEF Unreset, TypeOK, PayerTypes
    <3>2. CASE r # r0
      <4>1. Purse(r) # Purse(r0)
        BY <1>r, <2>5, <3>2 DEF Sole
      <4>2. recorded'[Purse(r)] = recorded[Purse(r)] /\ recorded[Purse(r)] \in Nat
        BY <1>r, <2>1, <2>2, <4>1 DEF TypeOK, PayerTypes
      <4>3. Unreset(r)' = 0 /\ Unreset(r) = 0
        BY <2>1, <2>2, <2>3, <3>2 DEF Unreset
      <4> QED BY <4>2, <4>3
    <3> QED BY <3>1, <3>2
  <2> QED BY <1>i, <1>r, <2>3, <2>4, <2>6, <2>7, RowTypes
<1>4. CASE ResetBalance
  <2>1. row \in DOMAIN due /\ row \in Rows /\ due[row] \in Nat
    BY <1>4, <1>c DEF ResetBalance, TypeOK, PayerTypes
  <2>2. pc = "reset" /\ row \notin toRecord /\ toSend = {} /\ UNCHANGED <<sentTo, recorded>>
    BY <1>4 DEF ResetBalance, PayoutOrder
  <2>3. PICK o \in AddOutcome :
          /\ AddAmount(row[1], row[2], -due[row], o)
          /\ IF AddFailed(o) \/ toRecord = {}
             THEN /\ ClearPayout
                  /\ pc' = "sleep"
             ELSE /\ row' = NoRow
                  /\ pc' = "record"
                  /\ UNCHANGED <<due, toSend, toRecord>>
    BY <1>4 DEF ResetBalance, AfterReset, NextRow, PayoutEnds
  <2>4. ~AddFailed(o) /\ Applied(o[2])
    BY <2>3 DEF AddAmount, Charge, AddFailed, Applied
  <2>5. balances' = [balances EXCEPT ![row] = @ + -due[row]]
    BY <2>1, <2>3, <2>4, PurseType DEF AddAmount
  <2>6. Unreset(r)' = 0
    BY <2>3 DEF Unreset
  <2>7. CASE r = row
    <3>1. Spent(r)' = Spent(r) + due[r]
      BY <1>a, <1>r, <2>1, <2>5, <2>7, RowTypes DEF Spent, TypeOK, LedgerTypes
    <3>2. Unsettled(r) = due[r] /\ Unreset(r) = due[r] /\ Unsettled(r)' = 0
      BY <2>2, <2>3, <2>4, <2>7 DEF Unsettled, Unreset
    <3> QED BY <1>i, <1>r, <2>1, <2>2, <2>6, <2>7, <3>1, <3>2, RowTypes
  <2>8. CASE r # row
    <3>1. Spent(r)' = Spent(r)
      BY <1>a, <1>r, <2>1, <2>5, <2>8 DEF Spent, TypeOK, LedgerTypes
    <3>2. Unreset(r) = 0
      BY <2>8 DEF Unreset
    <3>3. Unsettled(r)' = Unsettled(r)
      BY <2>2, <2>3, <2>4, <2>8 DEF Unsettled
    <3> QED BY <1>i, <2>2, <2>6, <3>1, <3>2, <3>3
  <2> QED BY <2>7, <2>8
<1> QED BY <1>1, <1>2, <1>3, <1>4 DEF PayerStep

(* As long as nothing has failed, between two passes every wallet of a row  *)
(* has got exactly what was taken off the row's balance, and exactly that   *)
(* is recorded (payer.go:15-75), whatever the rewards credited meanwhile.   *)
THEOREM SettledWhenIdleHolds == Spec => []SettledWhenIdle
<1>1. Init => (faults = 0 => SettledSoFar)
  <2> SUFFICES ASSUME Init, NEW r \in SoleRows
               PROVE  /\ sentTo[Purse(r)] = Spent(r) + Unsettled(r)
                      /\ recorded[Purse(r)] = Spent(r) + Unreset(r)
    BY DEF SettledSoFar
  <2>1. Spent(r) = 0 /\ sentTo[Purse(r)] = 0 /\ recorded[Purse(r)] = 0
    BY SoleRow, PurseType DEF Init, LedgerInit, SchemesInit, PayerInit, Spent
  <2>2. Unsettled(r) = 0 /\ Unreset(r) = 0
    BY DEF Init, Unsettled, Unreset
  <2> QED BY <2>1, <2>2
<1>2. IBook /\ (faults = 0 => SettledSoFar) /\ [Next]_vars => (faults = 0 => SettledSoFar)'
  <2> SUFFICES ASSUME IBook, faults = 0 => SettledSoFar, [Next]_vars, faults' = 0
               PROVE  SettledSoFar'
    OBVIOUS
  <2>0. TypeOK
    BY DEF IBook, IPaid
  <2>f. faults = 0 /\ SettledSoFar
    BY <2>0, FaultsGrow, LedgerAssumption DEF TypeOK, LedgerTypes
  <2>1. CASE SchemeStep /\ UNCHANGED <<rewardsVars, payerVars>>
    <3>1. pc \notin {"send", "record", "reset"} /\ pc' \notin {"send", "record", "reset"}
      BY <2>1 DEF SchemeStep, StartScheme, FetchPage, VisitShare, VisitPPLNS, VisitPROP,
                  EndPage, Award, CreditMiner, DeleteSharesBefore
    <3> QED BY <2>0, <2>1, <2>f, <3>1, RewardsSpent, QuietStepSettled DEF payerVars
  <2>2. CASE RewardStep /\ UNCHANGED payerVars
    <3>1. pc \notin {"send", "record", "reset"} /\ pc' \notin {"send", "record", "reset"}
      BY <2>2 DEF RewardStep, Unlock, StartReward, CreditRecipient, PoolRewardDone,
                  NextReward, RewardsDone, SaveBlock, SaveDone
    <3> QED BY <2>0, <2>2, <2>f, <3>1, RewardsSpent, QuietStepSettled DEF payerVars
  <2>3. CASE PayerStep /\ UNCHANGED <<schemeVars, rewardsVars>>
    BY <2>3, <2>f, PayerStepSettled
  <2>4. CASE Crash
    BY <2>4, <2>f DEF Crash, Charge
  <2>5. CASE Environment \/ UNCHANGED vars
    <3>1. UNCHANGED <<pc, ledgerVars, credited, payerVars>>
      BY <2>5 DEF Environment, Mature, vars, schemeVars
    <3> QED BY <2>f, <3>1 DEF SettledSoFar, Unsettled, Unreset, SoleRows, Sole, Purse, Spent,
                              ledgerVars, payerVars, payoutVars
  <2> QED BY <2>1, <2>2, <2>3, <2>4, <2>5 DEF Next, Manager
<1>3. TypeOK /\ (faults = 0 => SettledSoFar) => SettledWhenIdle
  <2> SUFFICES ASSUME TypeOK, SettledSoFar, pc = "sleep", NEW r \in Rows, Sole(r)
               PROVE  sentTo[Purse(r)] = Spent(r) /\ recorded[Purse(r)] = Spent(r)
    BY DEF SettledWhenIdle
  <2>1. Unsettled(r) = 0 /\ Unreset(r) = 0
    BY DEF Unsettled, Unreset
  <2>2. /\ sentTo[Purse(r)] = Spent(r) + Unsettled(r)
        /\ recorded[Purse(r)] = Spent(r) + Unreset(r)
    BY DEF SettledSoFar, SoleRows
  <2> QED BY <2>1, <2>2, RowTypes
<1> QED BY <1>1, <1>2, <1>3, Typing, BookInvariance, PTL DEF Spec

(***************************************************************************)
(* No balance below zero                                                   *)
(***************************************************************************)
LEMMA DivBounds ==
  \A i \in Int, n \in Nat \ {0} : /\ n * (i \div n) <= i
                                 /\ i >= 0 => i \div n >= 0
  BY SMT

LEMMA ProductNat == \A i, j \in Nat : i * j \in Nat
  BY SMT

(* The first n fees of a chain, in per cent.                                *)
Taken(c, n) == SumFunctionOnSet(Fees(c), 1..n)

LEMMA RecipientList ==
  ASSUME NEW c \in Chains
  PROVE  /\ Len(PoolRewardRecipients[c]) \in Nat
         /\ DOMAIN Fees(c) = 1..Len(PoolRewardRecipients[c])
         /\ \A i \in 1..Len(PoolRewardRecipients[c]) :
              /\ Fees(c)[i] = PoolRewardRecipients[c][i].percentage
              /\ Fees(c)[i] \in Nat
<1>1. PoolRewardRecipients[c] \in Seq([address : Accounts, percentage : Nat])
  BY RewardsAssumption
<1>2. DOMAIN PoolRewardRecipients[c] = 1..Len(PoolRewardRecipients[c])
  BY <1>1
<1>3. ASSUME NEW i \in 1..Len(PoolRewardRecipients[c])
      PROVE  PoolRewardRecipients[c][i].percentage \in Nat
  <2>1. PoolRewardRecipients[c][i] \in [address : Accounts, percentage : Nat]
    BY <1>1, ElementOf
  <2> QED BY <2>1
<1> QED BY <1>1, <1>2, <1>3 DEF Fees

LEMMA FeeSums ==
  ASSUME FeesWithinReward, NEW c \in Chains, NEW n \in 0..Len(PoolRewardRecipients[c])
  PROVE  /\ Taken(c, n) \in Nat
         /\ Taken(c, n) <= 100
         /\ n # 0 => Taken(c, n) = Taken(c, n - 1) + PoolRewardRecipients[c][n].percentage
<1> DEFINE len == Len(PoolRewardRecipients[c])
<1>1. /\ len \in Nat /\ n \in Nat /\ 1..n \in SUBSET (1..len)
      /\ \A i \in 1..len : Fees(c)[i] \in Nat
  BY RecipientList
<1>2. IsFiniteSet(1..len) /\ IsFiniteSet(1..n)
  BY <1>1, FS_Interval
<1>3. SumFunction(Fees(c)) = SumFunctionOnSet(Fees(c), 1..len)
  BY RecipientList DEF SumFunction
<1>4. SumFunctionOnSet(Fees(c), 1..len) \in Nat
  BY <1>1, <1>2, SumNat
<1>5. Taken(c, n) \in Nat /\ Taken(c, n) <= 100
  <2>1. Taken(c, n) \in Nat
    BY <1>1, <1>2, SumNat DEF Taken
  <2>2. Taken(c, n) <= SumFunctionOnSet(Fees(c), 1..len)
    BY <1>1, <1>2, SumPart DEF Taken
  <2> QED BY <1>3, <1>4, <2>1, <2>2 DEF FeesWithinReward
<1>6. ASSUME n # 0
      PROVE  Taken(c, n) = Taken(c, n - 1) + PoolRewardRecipients[c][n].percentage
  <2>1. n \in 1..n /\ (1..n) \ {n} = 1..(n - 1) /\ n \in 1..len
    BY <1>1, <1>6
  <2>2. \A i \in 1..n : Fees(c)[i] \in Int
    BY <1>1
  <2>3. SumFunctionOnSet(Fees(c), 1..n) =
          Fees(c)[n] + SumFunctionOnSet(Fees(c), (1..n) \ {n})
    BY <1>2, <2>1, <2>2, SumSplit
  <2>4. 1..(n - 1) \in SUBSET (1..n)
    BY <1>1
  <2>5. Taken(c, n - 1) \in Nat
    <3>1. IsFiniteSet(1..(n - 1)) /\ \A i \in 1..(n - 1) : Fees(c)[i] \in Nat
      BY <1>1, <1>2, <2>4, FS_Subset
    <3> QED BY <3>1, SumNat DEF Taken
  <2>6. Fees(c)[n] = PoolRewardRecipients[c][n].percentage /\ Fees(c)[n] \in Nat
    BY <2>1, RecipientList
  <2>7. Taken(c, n) = Fees(c)[n] + Taken(c, n - 1)
    BY <2>1, <2>3, Zenon DEF Taken
  <2> QED BY <2>5, <2>6, <2>7
<1> QED BY <1>5, <1>6

(* What the fees and the schemes leave of a reward is never negative.       *)
RewardsNonNegative ==
  /\ pc = "pool" =>
       /\ rcpt - 1 <= Len(PoolRewardRecipients[cur.chain])
       /\ 100 * remaining >= cur.reward * (100 - Taken(cur.chain, rcpt - 1))
  /\ pc = "scheme" => remaining >= 0
  /\ pc \in InScheme => blockReward >= 0 /\ \A a \in Accounts : awards[a] >= 0
  /\ scheme = "PPLNS" => accumulated = 0

LEMMA FeeStep ==
  ASSUME NEW left \in Int, NEW reward \in Nat, NEW taken \in Nat, NEW fee \in Nat,
         100 * left >= reward * (100 - taken), taken + fee <= 100
  PROVE  /\ (fee * reward) \div 100 \in Nat
         /\ 100 * (left - (fee * reward) \div 100) >= reward * (100 - (taken + fee))
         /\ left - (fee * reward) \div 100 >= 0
<1> DEFINE product == fee * reward
           part    == product \div 100
<1>1. product \in Nat
  BY ProductNat
<1>2. part \in Nat /\ 100 * part <= product
  <2> HIDE DEF product
  <2> QED BY <1>1, DivBounds, DivInt
<1>3. reward * (100 - taken) = reward * (100 - (taken + fee)) + product
  <2>1. 100 - taken = (100 - (taken + fee)) + fee
    OBVIOUS
  <2>2. reward * ((100 - (taken + fee)) + fee) = reward * (100 - (taken + fee)) + reward * fee
    BY Distributes
  <2>3. reward * fee = fee * reward
    BY SMT
  <2> QED BY <2>1, <2>2, <2>3
<1>4. reward * (100 - (taken + fee)) \in Nat
  BY ProductNat
<1> HIDE DEF product, part
<1>5. 100 * (left - part) >= reward * (100 - (taken + fee)) /\ left - part >= 0
  <2> DEFINE rest == reward * (100 - (taken + fee))
  <2>1. 100 * left >= rest + product /\ rest \in Nat
    BY <1>3, <1>4
  <2> HIDE DEF rest
  <2>2. 100 * (left - part) >= rest /\ left - part >= 0
    BY <1>1, <1>2, <2>1
  <2> QED BY <2>2 DEF rest
<1> QED BY <1>2, <1>5 DEF part, product

LEMMA PoolTypes ==
  ASSUME TypeOK, pc \in InReward
  PROVE  /\ cur \in Blocks /\ cur.chain \in Chains /\ cur.reward \in Nat
         /\ cur.miner \in Accounts
         /\ remaining \in Int /\ blockReward \in Int /\ rcpt \in Nat \ {0}
         /\ Len(PoolRewardRecipients[cur.chain]) \in Nat
  BY SchemesAssumption, RecipientList DEF TypeOK, SchemeTypes, RewardTypes

(* In the loop over the recipients the reward is not used up.               *)
LEMMA PoolRemaining ==
  ASSUME TypeOK, RewardsNonNegative, FeesWithinReward, pc = "pool"
  PROVE  /\ Taken(cur.chain, rcpt - 1) \in 0..100
         /\ remaining >= 0
<1>1. /\ cur.chain \in Chains /\ cur.reward \in Nat /\ rcpt \in Nat \ {0} /\ remaining \in Int
      /\ Len(PoolRewardRecipients[cur.chain]) \in Nat
  BY PoolTypes DEF InReward
<1>2. rcpt - 1 \in 0..Len(PoolRewardRecipients[cur.chain])
  BY <1>1 DEF RewardsNonNegative
<1> DEFINE taken == Taken(cur.chain, rcpt - 1)
<1>3. taken \in 0..100
  <2>1. \A n \in 0..Len(PoolRewardRecipients[cur.chain]) :
          Taken(cur.chain, n) \in Nat /\ Taken(cur.chain, n) <= 100
    BY <1>1, FeeSums
  <2>2. taken \in Nat /\ taken <= 100
    BY <1>2, <2>1
  <2> QED BY <2>2
<1>4. 100 * remaining >= cur.reward * (100 - taken)
  BY DEF RewardsNonNegative
<1> HIDE DEF taken
<1>5. cur.reward * (100 - taken) \in Nat
  BY <1>1, <1>3, ProductNat
<1>6. remaining >= 0
  BY <1>1, <1>4, <1>5
<1> QED BY <1>3, <1>6 DEF taken

LEMMA RecipientStep ==
  ASSUME TypeOK, RewardsNonNegative, FeesWithinReward, CreditRecipient
  PROVE  LET recipient == PoolRewardRecipients[cur.chain][rcpt]
             amount    == (recipient.percentage * cur.reward) \div 100
         IN  /\ amount \in Nat
             /\ remaining' = remaining - amount
             /\ remaining' >= 0
             /\ 100 * remaining' >= cur.reward * (100 - Taken(cur.chain, rcpt))
             /\ rcpt <= Len(PoolRewardRecipients[cur.chain])
<1> DEFINE fee    == PoolRewardRecipients[cur.chain][rcpt].percentage
           amount == (fee * cur.reward) \div 100
           taken  == Taken(cur.chain, rcpt - 1)
<1>1. /\ cur.chain \in Chains /\ cur.reward \in Nat /\ fee \in Nat
      /\ rcpt \in 1..Len(PoolRewardRecipients[cur.chain])
  BY RecipientTypes
<1>2. pc = "pool" /\ remaining \in Int /\ Len(PoolRewardRecipients[cur.chain]) \in Nat
  BY PoolTypes DEF CreditRecipient, InReward
<1>3. remaining' = remaining - amount
  BY DEF CreditRecipient
<1>4. taken \in Nat /\ 100 * remaining >= cur.reward * (100 - taken)
  <2>1. taken \in 0..100
    BY <1>2, PoolRemaining
  <2>2. 100 * remaining >= cur.reward * (100 - taken)
    BY <1>2 DEF RewardsNonNegative
  <2> QED BY <2>1, <2>2
<1>5. /\ Taken(cur.chain, rcpt) <= 100
      /\ Taken(cur.chain, rcpt) = taken + fee
  <2>1. rcpt \in 0..Len(PoolRewardRecipients[cur.chain]) /\ rcpt # 0
    BY <1>1, <1>2
  <2> QED BY <1>1, <2>1, FeeSums
<1>6. taken + fee <= 100
  BY <1>5
<1> HIDE DEF fee, taken
<1>7. /\ amount \in Nat
      /\ 100 * (remaining - amount) >= cur.reward * (100 - (taken + fee))
      /\ remaining - amount >= 0
  BY <1>1, <1>2, <1>4, <1>6, FeeStep
<1> QED BY <1>1, <1>2, <1>3, <1>5, <1>7 DEF fee

LEMMA SchemeStepNonNegative ==
  ASSUME TypeOK, RewardsNonNegative, SchemeStep
  PROVE  RewardsNonNegative'
<1>p. pc \in InReward /\ pc' \in InScheme \cup {"next"} /\ UNCHANGED scheme
  BY DEF SchemeStep, StartScheme, FetchPage, VisitShare, VisitPPLNS, VisitPROP, EndPage,
     Award, CreditMiner, DeleteSharesBefore, schemeVars, InReward, InScheme
<1>q. pc' # "pool" /\ pc' # "scheme"
  BY <1>p DEF InScheme
<1>t. blockReward \in Int /\ accumulated \in Nat /\ awards \in [Accounts -> Int]
  BY DEF TypeOK, SchemeTypes
<1>s. ASSUME pc' \in InScheme => blockReward' >= 0 /\ \A a \in Accounts : awards'[a] >= 0,
             scheme = "PPLNS" => accumulated' = 0
      PROVE  RewardsNonNegative'
  BY <1>p, <1>q, <1>s DEF RewardsNonNegative
<1>1. CASE StartScheme
  <2>1. blockReward' = remaining /\ accumulated' = 0 /\ remaining >= 0
        /\ awards' \in {NoAwards, [NoAwards EXCEPT ![cur.miner] = remaining]}
    BY <1>1 DEF StartScheme, remainingReward, RewardsNonNegative
  <2>2. \A a \in Accounts : awards'[a] >= 0
    BY <2>1 DEF NoAwards
  <2> QED BY <1>s, <2>1, <2>2
<1>2. CASE VisitShare
  <2>1. PICK s \in page : IF scheme = "PPLNS" THEN VisitPPLNS(s) ELSE VisitPROP(s)
    BY <1>2 DEF VisitShare
  <2>2. pc = "share" /\ blockReward' = blockReward
    BY <1>2 DEF VisitShare
  <2>3. s.miner \in Accounts /\ s.score \in Nat \ {0} /\ NWindow \in Nat \ {0}
    BY SchemesAssumption DEF TypeOK, SchemeTypes
  <2>4. blockReward >= 0 /\ \A a \in Accounts : awards[a] >= 0
    BY <2>2 DEF RewardsNonNegative, InScheme
  <2>5. CASE scheme = "PPLNS"
    <3>1. accumulated = 0 /\ accumulated' = accumulated
      BY <2>1, <2>5 DEF RewardsNonNegative, VisitPPLNS
    <3> DEFINE score  == IF accumulated + s.score >= NWindow THEN NWindow - accumulated ELSE s.score
               reward == (score * blockReward) \div NWindow
    <3>2. score \in Nat
      BY <2>3, <3>1
    <3>3. score * blockReward \in Nat
      <4> HIDE DEF score
      <4>1. blockReward \in Nat
        BY <1>t, <2>4
      <4> QED BY <3>2, <4>1, ProductNat
    <3>4. reward \in Int /\ reward >= 0
      <4> DEFINE product == score * blockReward
      <4>1. product \in Nat
        BY <3>3
      <4> HIDE DEF product
      <4>2. product \div NWindow >= 0 /\ product \div NWindow \in Int
        BY <2>3, <4>1, DivBounds, DivInt
      <4> QED BY <4>2 DEF product
    <3>5. awards' = [awards EXCEPT ![s.miner] = @ + reward]
      BY <2>1, <2>5 DEF VisitPPLNS
    <3> HIDE DEF reward
    <3>6. \A a \in Accounts : awards'[a] >= 0
      BY <1>t, <2>3, <2>4, <3>4, <3>5
    <3> QED BY <1>s, <2>2, <2>4, <3>1, <3>6
  <2>6. CASE scheme # "PPLNS"
    <3>1. awards' = [awards EXCEPT ![s.miner] = @ + s.score]
      BY <2>1, <2>6 DEF VisitPROP
    <3>2. \A a \in Accounts : awards'[a] >= 0
      BY <1>t, <2>3, <2>4, <3>1
    <3> QED BY <1>s, <2>2, <2>4, <2>6, <3>2
  <2> QED BY <2>5, <2>6
<1>3. CASE Award
  <2>1. pc = "award" /\ UNCHANGED <<blockReward, accumulated>>
    BY <1>3 DEF Award
  <2>2. blockReward >= 0 /\ \A a \in Accounts : awards[a] >= 0
    BY <2>1 DEF RewardsNonNegative, InScheme
  <2>3. scheme = "PPLNS" => accumulated' = 0
    BY <2>1 DEF RewardsNonNegative
  <2>4. \A a \in Accounts : awards'[a] >= 0
    <3>1. CASE scheme = "PPLNS" \/ toCredit = {}
      BY <1>3, <2>2, <3>1 DEF Award
    <3>2. CASE scheme # "PPLNS" /\ toCredit # {}
      <4>1. accumulated \in Nat \ {0}
        BY <2>1, <3>2 DEF TypeOK, SchemeTypes
      <4>2. ASSUME NEW a \in Accounts PROVE (awards[a] * blockReward) \div accumulated >= 0
        <5> DEFINE product == awards[a] * blockReward
        <5>1. product \in Nat
          <6>1. awards[a] \in Nat /\ blockReward \in Nat
            BY <1>t, <2>2
          <6> QED BY <6>1, ProductNat
        <5> HIDE DEF product
        <5>2. product \div accumulated >= 0
          BY <4>1, <5>1, DivBounds
        <5> QED BY <5>2 DEF product
      <4>3. awards' = [a \in Accounts |-> (awards[a] * blockReward) \div accumulated]
        BY <1>3, <3>2 DEF Award
      <4> QED BY <4>2, <4>3
    <3> QED BY <3>1, <3>2
  <2> QED BY <1>s, <2>1, <2>2, <2>3, <2>4
<1>4. CASE FetchPage \/ EndPage \/ CreditMiner \/ DeleteSharesBefore
  <2>1. pc \in InScheme /\ UNCHANGED <<blockReward, awards, accumulated>>
    BY <1>4 DEF FetchPage, EndPage, CreditMiner, DeleteSharesBefore, schemeVars, loopVars,
       InScheme
  <2> QED BY <1>s, <2>1 DEF RewardsNonNegative
<1> QED BY <1>1, <1>2, <1>3, <1>4 DEF SchemeStep

LEMMA RewardsNonNegativeKept ==
  ASSUME TypeOK, RewardsNonNegative, FeesWithinReward, [Next]_vars
  PROVE  RewardsNonNegative'
<1>1. CASE SchemeStep
  BY <1>1, SchemeStepNonNegative
<1>2. CASE StartReward
  <2>1. PICK b \in Blocks : cur' = b /\ remaining' = b.reward
    BY <1>2 DEF StartReward, TypeOK, RewardTypes
  <2>2. /\ rcpt' = 1 /\ pc' = "pool" /\ UNCHANGED <<scheme, accumulated>>
        /\ b.chain \in Chains /\ b.reward \in Nat
    BY <1>2, <2>1, SchemesAssumption DEF StartReward, loopVars
  <2>3. Taken(b.chain, 0) = 0
    <3>1. 1..0 = {}
      BY SMT
    <3> QED BY <3>1, SumEmpty DEF Taken
  <2>4. Taken(cur.chain, rcpt - 1)' = 0
    BY <2>1, <2>2, <2>3 DEF Taken, Fees
  <2>5. rcpt' - 1 <= Len(PoolRewardRecipients[cur'.chain])
    BY <2>1, <2>2, RecipientList
  <2> QED BY <2>1, <2>2, <2>4, <2>5 DEF RewardsNonNegative, InScheme
<1>3. CASE CreditRecipient
  <2>1. /\ pc' \in {"pool", "next"} /\ rcpt' = rcpt + 1
        /\ UNCHANGED <<cur, scheme, accumulated>>
    BY <1>3 DEF CreditRecipient, loopVars
  <2>2. /\ 100 * remaining' >= cur.reward * (100 - Taken(cur.chain, rcpt))
        /\ rcpt <= Len(PoolRewardRecipients[cur.chain])
    BY <1>3, RecipientStep
  <2>3. rcpt \in Nat /\ rcpt' - 1 = rcpt
    BY <2>1 DEF TypeOK, RewardTypes
  <2>4. Taken(cur.chain, rcpt - 1)' = Taken(cur.chain, rcpt)
    BY <2>1, <2>3 DEF Taken, Fees
  <2>5. pc' # "scheme" /\ pc' \notin InScheme
    BY <2>1 DEF InScheme
  <2>6. scheme' = "PPLNS" => accumulated' = 0
    BY <2>1 DEF RewardsNonNegative
  <2> QED BY <2>1, <2>2, <2>3, <2>4, <2>5, <2>6 DEF RewardsNonNegative
<1>4. CASE PoolRewardDone
  <2>1. pc = "pool" /\ pc' = "scheme" /\ UNCHANGED <<remaining, scheme, accumulated>>
    BY <1>4 DEF PoolRewardDone, schemeVars, loopVars
  <2>2. remaining >= 0
    BY <2>1, PoolRemaining
  <2> QED BY <2>1, <2>2 DEF RewardsNonNegative, InScheme
<1>5. ASSUME pc' \notin InReward, accumulated' \in {accumulated, 0}, UNCHANGED scheme
      PROVE  RewardsNonNegative'
  BY <1>5 DEF RewardsNonNegative, InReward, InScheme
<1>6. CASE RewardStep /\ ~(StartReward \/ CreditRecipient \/ PoolRewardDone)
  BY <1>5, <1>6 DEF RewardStep, Unlock, NextReward, RewardsDone, SaveBlock, SaveDone,
     ClearLocals, schemeVars, loopVars, InReward
<1>7. CASE PayerStep /\ UNCHANGED <<schemeVars, rewardsVars>>
  BY <1>5, <1>7 DEF PayerStep, SelectDue, SendMany, RecordPayment, ResetBalance,
     AfterReset, NextRow, PayoutEnds, schemeVars, loopVars, InReward
<1>8. CASE Crash
  BY <1>5, <1>8 DEF Crash, ClearLocals, InReward
<1>9. CASE Environment \/ UNCHANGED vars
  <2>1. UNCHANGED <<pc, scheme, cur, remaining, blockReward, awards, accumulated, rcpt>>
    BY <1>9 DEF Environment, Mature, vars, schemeVars, loopVars, rewardsVars, passVars
  <2>2. Taken(cur.chain, rcpt - 1)' = Taken(cur.chain, rcpt - 1)
    BY <2>1 DEF Taken, Fees
  <2> QED BY <2>1, <2>2 DEF RewardsNonNegative
<1> QED BY <1>1, <1>2, <1>3, <1>4, <1>6, <1>7, <1>8, <1>9 DEF Next, Manager, RewardStep

LEMMA AddNonNegative ==
  ASSUME LedgerTypes, BalancesNonNegative,
         NEW c \in Chains, NEW a \in Accounts, NEW amount \in Int, NEW o \in AddOutcome,
         AddAmount(c, a, amount, o), balances[<<c, a>>] + amount >= 0
  PROVE  BalancesNonNegative'
  BY DEF AddAmount, LedgerTypes, BalancesNonNegative, Rows

LEMMA BalancesKept ==
  ASSUME IBook, RewardsNonNegative, BalancesNonNegative, FeesWithinReward, [Next]_vars
  PROVE  BalancesNonNegative'
<1>t. TypeOK /\ LedgerTypes
  BY DEF IBook, IPaid, TypeOK
<1>1. CASE CreditMiner
  <2>1. PICK a \in toCredit, o \in AddOutcome : AddAmount(cur.chain, a, awards[a], o)
    BY <1>1 DEF CreditMiner, Credit
  <2>2. cur.chain \in Chains /\ a \in Accounts /\ awards[a] \in Int
    BY <1>t, <1>1, SchemesAssumption DEF CreditMiner, TypeOK, SchemeTypes, InReward
  <2>3. awards[a] >= 0
    BY <1>1, <2>2 DEF CreditMiner, RewardsNonNegative, InScheme
  <2>4. balances[<<cur.chain, a>>] \in Int /\ balances[<<cur.chain, a>>] >= 0
    BY <1>t, <2>2 DEF LedgerTypes, BalancesNonNegative, Rows
  <2>5. balances[<<cur.chain, a>>] + awards[a] >= 0
    BY <2>2, <2>3, <2>4
  <2> QED BY <1>t, <2>1, <2>2, <2>5, AddNonNegative
<1>2. CASE CreditRecipient
  <2> DEFINE recipient == PoolRewardRecipients[cur.chain][rcpt]
             amount    == (recipient.percentage * cur.reward) \div 100
  <2>1. recipient.address \in Accounts /\ cur.chain \in Chains /\ amount \in Nat
    BY <1>t, <1>2, RecipientTypes, RecipientStep
  <2>2. \/ UNCHANGED balances
        \/ \E o \in AddOutcome : AddAmount(cur.chain, recipient.address, amount, o)
    BY <1>2 DEF CreditRecipient, Credit, ledgerVars
  <2> HIDE DEF recipient, amount
  <2>3. ASSUME NEW o \in AddOutcome, AddAmount(cur.chain, recipient.address, amount, o)
        PROVE  BalancesNonNegative'
    <3>1. /\ balances[<<cur.chain, recipient.address>>] \in Int
          /\ balances[<<cur.chain, recipient.address>>] >= 0
      BY <1>t, <2>1 DEF LedgerTypes, BalancesNonNegative, Rows
    <3>2. amount \in Int /\ balances[<<cur.chain, recipient.address>>] + amount >= 0
      BY <2>1, <3>1
    <3> QED BY <1>t, <2>1, <2>3, <3>2, AddNonNegative
  <2> QED BY <2>2, <2>3 DEF BalancesNonNegative
<1>3. CASE ResetBalance
  <2>1. PICK o \in AddOutcome : AddAmount(row[1], row[2], -due[row], o)
    BY <1>3 DEF ResetBalance
  <2>2. row \in Rows /\ due[row] \in Nat /\ due[row] = balances[row]
    BY <1>t, <1>3 DEF ResetBalance, TypeOK, PayerTypes, IBook, DueIsOwed
  <2>3. /\ row[1] \in Chains /\ row[2] \in Accounts /\ -due[row] \in Int
        /\ balances[<<row[1], row[2]>>] + -due[row] >= 0
    BY <2>2, PurseType
  <2> QED BY <1>t, <2>1, <2>3, AddNonNegative
<1>4. CASE SchemeStep /\ ~CreditMiner
  BY <1>4 DEF SchemeStep, StartScheme, FetchPage, VisitShare, EndPage, Award,
              DeleteSharesBefore, ledgerVars, BalancesNonNegative
<1>5. CASE RewardStep /\ ~CreditRecipient
  BY <1>5 DEF RewardStep, Unlock, StartReward, PoolRewardDone, NextReward, RewardsDone,
              SaveBlock, SaveDone, ledgerVars, BalancesNonNegative
<1>6. CASE PayerStep /\ ~ResetBalance
  BY <1>6 DEF PayerStep, SelectDue, SendMany, RecordPayment, ledgerVars, BalancesNonNegative
<1>7. CASE Environment \/ Crash \/ UNCHANGED vars
  BY <1>7 DEF Environment, Mature, Crash, vars, ledgerVars, BalancesNonNegative
<1> QED BY <1>1, <1>2, <1>3, <1>4, <1>5, <1>6, <1>7 DEF Next, Manager

LEMMA InitNonNegative ==
  ASSUME Init PROVE RewardsNonNegative /\ BalancesNonNegative
  BY DEF Init, LedgerInit, SchemesInit, RewardsNonNegative, BalancesNonNegative, InScheme

(* With fees of 100 per cent at the most no balance is ever negative, and   *)
(* every reset takes off no more than the row holds then, although the      *)
(* amount was read before the sends (payer.go:23, 64); nothing is ever left *)
(* negative for the miners either (rewards.go:23-53, pplns.go:43-63).       *)
THEOREM BalancesNonNegativeHolds ==
  ASSUME FeesWithinReward
  PROVE  Spec => []BalancesNonNegative
<1>1. Init => RewardsNonNegative /\ BalancesNonNegative
  BY InitNonNegative
<1>2. IBook /\ RewardsNonNegative /\ BalancesNonNegative /\ [Next]_vars
        => RewardsNonNegative' /\ BalancesNonNegative'
  <2>1. IBook => TypeOK
    BY DEF IBook, IPaid
  <2> QED BY <2>1, RewardsNonNegativeKept, BalancesKept
<1> QED BY <1>1, <1>2, BookInvariance, PTL DEF Spec

(***************************************************************************)
(* No more is credited than the blocks bring in                            *)
(***************************************************************************)
(* What of the reward of the current block is still to be credited.         *)
Reserved ==
  CASE pc \in {"pool", "scheme"}          -> remaining
    [] pc \in {"page", "share", "award"}  -> blockReward
    [] pc = "credit"                      -> SumFunctionOnSet(awards, toCredit)
    [] OTHER                              -> 0

ReservedOn(c) == IF pc \in InReward /\ c = cur.chain THEN Reserved ELSE 0

CreditsWithin ==
  \A c \in Chains :
    SumFunction(CreditedOn(c)) + ReservedOn(c) <= SumFunction(RewardsOn(c))

(* While the shares are visited, what was awarded and what is left (PPLNS), *)
(* or the scores and their total (PROP), go together.                       *)
AwardsAddUp ==
  pc \in {"page", "share", "award"} =>
    /\ scheme = "PPLNS" => remaining >= 0 /\ SumFunction(awards) + remaining = blockReward
    /\ scheme = "PROP" => SumFunction(awards) = accumulated

LEMMA AwardSums ==
  ASSUME NEW f \in [Accounts -> Int]
  PROVE  /\ SumFunction(f) = SumFunctionOnSet(f, Accounts)
         /\ SumFunction(f) \in Int
         /\ \A P \in SUBSET Accounts : SumFunctionOnSet(f, P) \in Int
<1>1. DOMAIN f = Accounts /\ \A x \in Accounts : f[x] \in Int
  OBVIOUS
<1>2. SumFunction(f) = SumFunctionOnSet(f, Accounts)
  BY <1>1 DEF SumFunction
<1>3. ASSUME NEW P \in SUBSET Accounts PROVE SumFunctionOnSet(f, P) \in Int
  <2>1. IsFiniteSet(P) /\ \A x \in P : f[x] \in Int
    BY <1>1, LedgerAssumption, FS_Subset
  <2> QED BY <2>1, SumInt
<1> QED BY <1>2, <1>3

(* One award more.                                                          *)
LEMMA AwardSumAdds ==
  ASSUME NEW f \in [Accounts -> Int], NEW a \in Accounts, NEW n \in Int
  PROVE  SumFunction([f EXCEPT ![a] = @ + n]) = SumFunction(f) + n
<1> DEFINE g == [f EXCEPT ![a] = @ + n]
<1>1. g \in [Accounts -> Int] /\ g[a] = f[a] + n /\ f[a] \in Int
      /\ (\A y \in Accounts : y # a => g[y] = f[y]) /\ \A y \in Accounts : f[y] \in Int
  OBVIOUS
<1> HIDE DEF g
<1>2. SumFunctionOnSet(g, Accounts) = SumFunctionOnSet(f, Accounts) + (g[a] - f[a])
  <2>1. g[a] \in Int
    BY <1>1
  <2> QED BY <1>1, <2>1, LedgerAssumption, SumExcept
<1>3. /\ SumFunction(g) = SumFunctionOnSet(g, Accounts)
      /\ SumFunction(f) = SumFunctionOnSet(f, Accounts)
      /\ SumFunction(f) \in Int
  BY <1>1, AwardSums
<1>4. SumFunction(g) = SumFunction(f) + n
  <2>1. SumFunction(g) = SumFunction(f) + (g[a] - f[a])
    BY <1>2, <1>3
  <2> QED BY <1>1, <1>3, <2>1
<1> QED BY <1>4 DEF g

LEMMA NoAwardsSum == SumFunction(NoAwards) = 0
<1>1. NoAwards \in [Accounts -> Int] /\ \A x \in Accounts : NoAwards[x] = 0
  BY DEF NoAwards
<1>2. SumFunction(NoAwards) = SumFunctionOnSet(NoAwards, Accounts)
  BY <1>1, AwardSums
<1> DEFINE total == SumFunctionOnSet(NoAwards, Accounts)
<1>3. total \in Nat
  <2>1. \A x \in Accounts : NoAwards[x] \in Nat
    BY <1>1
  <2> QED BY <2>1, LedgerAssumption, SumNat
<1>4. 1 * total <= 0 * total
  <2>1. \A x \in Accounts : NoAwards[x] \in Int /\ 1 * NoAwards[x] <= 0 * NoAwards[x]
    BY <1>1
  <2> QED BY <2>1, LedgerAssumption, SumScaled
<1> HIDE DEF total
<1>5. total = 0
  BY <1>3, <1>4
<1> QED BY <1>2, <1>5 DEF total

LEMMA LedgerSums ==
  ASSUME TypeOK, NEW c \in Chains
  PROVE  /\ SumFunction(CreditedOn(c)) \in Int
         /\ SumFunction(RewardsOn(c)) \in Int
<1>1. CreditedOn(c) \in [Accounts -> Int]
  BY DEF CreditedOn, TypeOK, LedgerTypes, Rows
<1>2. SumFunction(CreditedOn(c)) \in Int
  BY <1>1, AwardSums
<1>3. DOMAIN RewardsOn(c) = Blocks
  BY DEF RewardsOn
<1>4. ASSUME NEW b \in Blocks PROVE RewardsOn(c)[b] \in Int
  <2>1. attempts[b] \in Nat /\ b.reward \in Nat
    BY SchemesAssumption DEF TypeOK, RewardTypes
  <2>2. attempts[b] * b.reward \in Nat
    BY <2>1, ProductNat
  <2> QED BY <2>2 DEF RewardsOn
<1>5. SumFunction(RewardsOn(c)) \in Int
  <2>1. SumFunction(RewardsOn(c)) = SumFunctionOnSet(RewardsOn(c), Blocks)
    BY <1>3 DEF SumFunction
  <2>2. SumFunctionOnSet(RewardsOn(c), Blocks) \in Int
    BY <1>4, SchemesAssumption, SumInt
  <2> QED BY <2>1, <2>2
<1> QED BY <1>2, <1>5

ReservedNat ==
  /\ pc \in InReward => Reserved \in Int /\ Reserved >= 0
  /\ \A c \in Chains : ReservedOn(c) \in Int /\ ReservedOn(c) >= 0

LEMMA ReservedType ==
  ASSUME TypeOK, RewardsNonNegative, FeesWithinReward
  PROVE  ReservedNat
<1> USE DEF ReservedNat
<1>1. CASE pc \in {"pool", "scheme"}
  BY <1>1, PoolRemaining DEF Reserved, ReservedOn, RewardsNonNegative, TypeOK, SchemeTypes
<1>2. CASE pc \in {"page", "share", "award"}
  BY <1>2 DEF Reserved, ReservedOn, RewardsNonNegative, InScheme, TypeOK, SchemeTypes
<1>3. CASE pc = "credit"
  <2>1. IsFiniteSet(toCredit) /\ \A a \in toCredit : awards[a] \in Nat
    BY <1>3, LedgerAssumption, FS_Subset DEF RewardsNonNegative, InScheme, TypeOK, SchemeTypes
  <2>2. SumFunctionOnSet(awards, toCredit) \in Nat
    BY <2>1, SumNat
  <2>3. Reserved = SumFunctionOnSet(awards, toCredit)
    BY <1>3 DEF Reserved
  <2> QED BY <2>2, <2>3 DEF ReservedOn
<1>4. CASE pc \notin {"pool", "scheme", "page", "share", "award", "credit"}
  <2>1. Reserved = 0
    BY <1>4 DEF Reserved
  <2> QED BY <2>1 DEF ReservedOn
<1> QED BY <1>1, <1>2, <1>3, <1>4

LEMMA ReservedTypeNext ==
  ASSUME FeesWithinReward
  PROVE  TypeOK' /\ RewardsNonNegative' => ReservedNat'
<1>1. TypeOK /\ RewardsNonNegative => ReservedNat
  BY ReservedType
<1> QED BY <1>1, PTL

(* A step that credits nothing and reserves no more.                        *)
LEMMA QuietCredits ==
  ASSUME TypeOK, TypeOK', CreditsWithin, UNCHANGED <<credited, attempts>>,
         \A c \in Chains : /\ ReservedOn(c) \in Int /\ ReservedOn(c)' \in Int
                           /\ ReservedOn(c)' <= ReservedOn(c)
  PROVE  CreditsWithin'
<1> SUFFICES ASSUME NEW c \in Chains
             PROVE  SumFunction(CreditedOn(c)') + ReservedOn(c)' <= SumFunction(RewardsOn(c)')
  BY DEF CreditsWithin
<1>1. CreditedOn(c)' = CreditedOn(c) /\ RewardsOn(c)' = RewardsOn(c)
  BY DEF CreditedOn, RewardsOn
<1>2. SumFunction(CreditedOn(c)) \in Int /\ SumFunction(RewardsOn(c)) \in Int
  BY LedgerSums
<1>3. SumFunction(CreditedOn(c)) + ReservedOn(c) <= SumFunction(RewardsOn(c))
  BY DEF CreditsWithin
<1>4. SumFunction(CreditedOn(c)) + ReservedOn(c)' <= SumFunction(RewardsOn(c))
  BY <1>2, <1>3
<1> QED BY <1>1, <1>4

(* A credit is taken from what is reserved for the chain.                   *)
LEMMA CreditWithin ==
  ASSUME TypeOK, CreditsWithin, UNCHANGED attempts,
         NEW d \in Chains, NEW a \in Accounts, NEW amount \in Nat, NEW o \in AddOutcome,
         Credit(d, a, amount, o),
         ReservedOn(d) \in Int, ReservedOn(d)' \in Int, ReservedOn(d)' <= ReservedOn(d) - amount,
         \A c \in Chains : c # d => ReservedOn(c) = 0 /\ ReservedOn(c)' = 0
  PROVE  CreditsWithin'
<1> SUFFICES ASSUME NEW c \in Chains
             PROVE  SumFunction(CreditedOn(c)') + ReservedOn(c)' <= SumFunction(RewardsOn(c)')
  BY DEF CreditsWithin
<1>0. RewardsOn(c)' = RewardsOn(c)
  BY DEF RewardsOn
<1>1. SumFunction(CreditedOn(c)) \in Int /\ SumFunction(RewardsOn(c)) \in Int
  BY LedgerSums
<1>2. SumFunction(CreditedOn(c)) + ReservedOn(c) <= SumFunction(RewardsOn(c))
  BY DEF CreditsWithin
<1>3. CASE c # d
  <2>1. CreditedOn(c)' = CreditedOn(c)
    BY <1>3 DEF CreditedOn, Credit, TypeOK, LedgerTypes, Rows
  <2>2. ReservedOn(c)' = ReservedOn(c)
    BY <1>3
  <2> QED BY <1>0, <1>2, <2>1, <2>2
<1>4. CASE c = d
  <2>1. CreditedOn(c) \in [Accounts -> Int]
    BY DEF CreditedOn, TypeOK, LedgerTypes, Rows
  <2>2. \/ CreditedOn(c)' = CreditedOn(c)
        \/ CreditedOn(c)' = [CreditedOn(c) EXCEPT ![a] = @ + amount]
    BY <1>4 DEF CreditedOn, Credit, TypeOK, LedgerTypes, Rows
  <2>3. SumFunction(CreditedOn(c)') \in
          {SumFunction(CreditedOn(c)), SumFunction(CreditedOn(c)) + amount}
    BY <2>1, <2>2, AwardSumAdds
  <2>4. SumFunction(CreditedOn(c)') + ReservedOn(c)' <= SumFunction(RewardsOn(c))
    BY <1>1, <1>2, <1>4, <2>3
  <2> QED BY <1>0, <2>4
<1> QED BY <1>3, <1>4

(* PROP divides the reward in proportion: rounded down, the parts add up to *)
(* the reward at the most.                                                  *)
LEMMA SharedOut ==
  ASSUME NEW f \in [Accounts -> Nat], NEW reward \in Nat, NEW total \in Nat \ {0},
         SumFunction(f) = total, NEW g, NEW P \in SUBSET Accounts,
         g = [a \in Accounts |-> (f[a] * reward) \div total]
  PROVE  SumFunctionOnSet(g, P) <= reward
<1>1. ASSUME NEW a \in Accounts
      PROVE  g[a] \in Nat /\ total * g[a] <= reward * f[a]
  <2> DEFINE product == f[a] * reward
  <2>1. product \in Nat /\ product = reward * f[a]
    <3>1. f[a] \in Nat
      OBVIOUS
    <3> QED BY <3>1, ProductNat
  <2>2. g[a] = product \div total
    OBVIOUS
  <2> HIDE DEF product
  <2>3. product \div total \in Nat /\ total * (product \div total) <= product
    <3>1. product \div total \in Int /\ product \div total >= 0
      BY <2>1, DivInt, DivBounds
    <3> QED BY <2>1, <3>1, DivBounds
  <2> QED BY <2>1, <2>2, <2>3
<1>2. \A a \in Accounts : f[a] \in Int /\ g[a] \in Int /\ total * g[a] <= reward * f[a]
  BY <1>1
<1>3. total * SumFunctionOnSet(g, Accounts) <= reward * SumFunctionOnSet(f, Accounts)
  BY <1>2, LedgerAssumption, SumScaled
<1>4. SumFunctionOnSet(f, Accounts) = total
  <2>1. f \in [Accounts -> Int]
    OBVIOUS
  <2> QED BY <2>1, AwardSums
<1>5. SumFunctionOnSet(g, P) <= SumFunctionOnSet(g, Accounts)
  BY <1>1, LedgerAssumption, SumPart
<1> DEFINE all == SumFunctionOnSet(g, Accounts)
           some == SumFunctionOnSet(g, P)
<1>6. all \in Nat /\ some \in Nat
  BY <1>1, LedgerAssumption, FS_Subset, SumNat
<1>7. total * all <= reward * total /\ some <= all
  BY <1>3, <1>4, <1>5
<1> HIDE DEF all, some
<1>8. all <= reward
  <2> SUFFICES ASSUME all >= reward + 1 PROVE FALSE
    BY <1>6
  <2>1. all - (reward + 1) \in Nat
    BY <1>6
  <2>2. total * (all - (reward + 1)) \in Nat
    BY <2>1, ProductNat
  <2>3. total * all = total * (reward + 1) + total * (all - (reward + 1))
    <3>1. all = (reward + 1) + (all - (reward + 1))
      BY <1>6
    <3>2. total * ((reward + 1) + (all - (reward + 1))) =
            total * (reward + 1) + total * (all - (reward + 1))
      BY <2>1, Distributes
    <3> QED BY <3>1, <3>2
  <2>4. total * (reward + 1) = total * reward + total * 1
    BY Distributes
  <2>5. total * reward \in Nat /\ total * 1 = total /\ reward * total = total * reward
    BY ProductNat
  <2>6. total * all \in Nat
    BY <1>6, ProductNat
  <2> QED BY <1>7, <2>2, <2>3, <2>4, <2>5, <2>6
<1> QED BY <1>6, <1>7, <1>8 DEF some

LEMMA AwardWithin ==
  ASSUME TypeOK, RewardsNonNegative, AwardsAddUp, Award, pc' = "credit"
  PROVE  SumFunctionOnSet(awards', toCredit') <= blockReward
<1>1. /\ pc = "award" /\ UNCHANGED <<toCredit, scheme>> /\ blockReward \in Nat
      /\ awards \in [Accounts -> Nat] /\ toCredit \in SUBSET Accounts
  BY DEF Award, TypeOK, SchemeTypes, RewardsNonNegative, InScheme
<1>2. CASE scheme = "PPLNS"
  <2>1. awards' = awards /\ remaining \in Nat /\ SumFunction(awards) + remaining = blockReward
    BY <1>1, <1>2 DEF Award, AwardsAddUp, TypeOK, SchemeTypes
  <2>2. SumFunctionOnSet(awards, toCredit) <= SumFunctionOnSet(awards, Accounts)
    <3>1. \A x \in Accounts : awards[x] \in Nat
      BY <1>1
    <3> QED BY <1>1, <3>1, LedgerAssumption, SumPart
  <2>3. /\ SumFunction(awards) = SumFunctionOnSet(awards, Accounts)
        /\ SumFunction(awards) \in Int
        /\ SumFunctionOnSet(awards, toCredit) \in Int
    <3>1. awards \in [Accounts -> Int]
      BY <1>1
    <3> QED BY <1>1, <3>1, AwardSums
  <2>4. SumFunctionOnSet(awards, toCredit) <= blockReward
    BY <1>1, <2>1, <2>2, <2>3
  <2> QED BY <1>1, <2>1, <2>4
<1>3. CASE scheme # "PPLNS" /\ toCredit = {}
  BY <1>1, <1>3, SumEmpty
<1>4. CASE scheme # "PPLNS" /\ toCredit # {}
  <2>1. scheme = "PROP"
    BY <1>1, <1>4 DEF TypeOK, SchemeTypes
  <2>2. accumulated \in Nat \ {0} /\ SumFunction(awards) = accumulated
    BY <1>1, <1>4, <2>1 DEF TypeOK, SchemeTypes, AwardsAddUp
  <2>3. awards' = [a \in Accounts |-> (awards[a] * blockReward) \div accumulated]
    BY <1>4 DEF Award
  <2>4. SumFunctionOnSet(awards', toCredit) <= blockReward
    BY <1>1, <2>2, <2>3, SharedOut
  <2> QED BY <1>1, <2>4
<1> QED BY <1>2, <1>3, <1>4

LEMMA AwardsAddUpKept ==
  ASSUME TypeOK, RewardsNonNegative, AwardsAddUp, [Next]_vars
  PROVE  AwardsAddUp'
<1>t. /\ awards \in [Accounts -> Int] /\ remaining \in Int /\ accumulated \in Nat
      /\ blockReward \in Int
  BY DEF TypeOK, SchemeTypes
<1>1. CASE StartScheme
  <2>1. /\ awards' = NoAwards \/ pc' = "credit"
        /\ remaining' = remaining /\ blockReward' = remaining /\ accumulated' = 0
        /\ remaining >= 0 /\ UNCHANGED scheme
    BY <1>1 DEF StartScheme, remainingReward, RewardsNonNegative
  <2> QED BY <1>t, <2>1, NoAwardsSum DEF AwardsAddUp
<1>2. CASE VisitShare
  <2>1. PICK s \in page : IF scheme = "PPLNS" THEN VisitPPLNS(s) ELSE VisitPROP(s)
    BY <1>2 DEF VisitShare
  <2>2. pc = "share" /\ UNCHANGED <<scheme, blockReward>>
    BY <1>2 DEF VisitShare
  <2>3. s.miner \in Accounts /\ s.score \in Nat \ {0} /\ NWindow \in Nat \ {0}
    BY SchemesAssumption DEF TypeOK, SchemeTypes
  <2>4. SumFunction(awards) \in Int
    BY <1>t, AwardSums
  <2>5. CASE scheme = "PPLNS"
    <3> DEFINE score  == IF accumulated + s.score >= NWindow THEN NWindow - accumulated ELSE s.score
               reward == (score * blockReward) \div NWindow
    <3>1. reward \in Int
      <4>1. score \in Int
        BY <1>t, <2>3
      <4> HIDE DEF score
      <4> QED BY <1>t, <2>3, <4>1, DivInt, MulInt
    <3>2. /\ awards' = [awards EXCEPT ![s.miner] = @ + reward]
          /\ remaining' = remaining - reward
          /\ pc' = IF remaining' <= 0 THEN "next" ELSE pc
      BY <2>1, <2>5 DEF VisitPPLNS
    <3> HIDE DEF reward
    <3>3. SumFunction(awards') = SumFunction(awards) + reward
      BY <1>t, <2>3, <3>1, <3>2, AwardSumAdds
    <3>4. SumFunction(awards) + remaining = blockReward
      BY <2>2, <2>5 DEF AwardsAddUp
    <3>5. SumFunction(awards') + remaining' = blockReward'
      BY <1>t, <2>2, <2>4, <3>1, <3>2, <3>3, <3>4
    <3>6. pc' # "next" => remaining' >= 0
      BY <1>t, <3>1, <3>2
    <3> QED BY <2>2, <2>5, <3>5, <3>6 DEF AwardsAddUp
  <2>6. CASE scheme = "PROP"
    <3>1. /\ awards' = [awards EXCEPT ![s.miner] = @ + s.score]
          /\ accumulated' = accumulated + s.score
      BY <2>1, <2>6 DEF VisitPROP
    <3>2. SumFunction(awards') = SumFunction(awards) + s.score
      <4>1. s.score \in Int
        BY <2>3
      <4>2. SumFunction([awards EXCEPT ![s.miner] = @ + s.score]) = SumFunction(awards) + s.score
        BY <1>t, <2>3, <4>1, AwardSumAdds
      <4> QED BY <3>1, <4>2
    <3>3. SumFunction(awards) = accumulated
      BY <2>2, <2>6 DEF AwardsAddUp
    <3> QED BY <2>2, <2>6, <3>1, <3>2, <3>3 DEF AwardsAddUp
  <2>7. CASE scheme \notin {"PPLNS", "PROP"}
    BY <2>2, <2>7 DEF AwardsAddUp
  <2> QED BY <2>5, <2>6, <2>7
<1>3. ASSUME pc \in {"page", "share", "award"},
             UNCHANGED <<scheme, remaining, blockReward, awards, accumulated>>
      PROVE  AwardsAddUp'
  BY <1>3 DEF AwardsAddUp
<1>4. CASE FetchPage
  BY <1>3, <1>4 DEF FetchPage
<1>5. CASE EndPage
  BY <1>3, <1>5 DEF EndPage, schemeVars, loopVars
<1>6. CASE Award \/ CreditMiner \/ DeleteSharesBefore
  BY <1>6 DEF Award, CreditMiner, DeleteSharesBefore, AwardsAddUp
<1>7. CASE RewardStep \/ PayerStep \/ Crash
  BY <1>7 DEF RewardStep, Unlock, StartReward, CreditRecipient, PoolRewardDone, NextReward,
     RewardsDone, SaveBlock, SaveDone, PayerStep, SelectDue, SendMany, RecordPayment,
     ResetBalance, AfterReset, NextRow, PayoutEnds, Crash, AwardsAddUp
<1>8. CASE Environment \/ UNCHANGED vars
  BY <1>8 DEF Environment, Mature, vars, schemeVars, loopVars, AwardsAddUp
<1> QED BY <1>1, <1>2, <1>4, <1>5, <1>6, <1>7, <1>8 DEF Next, Manager, SchemeStep

ICredits == TypeOK /\ RewardsNonNegative /\ AwardsAddUp /\ CreditsWithin

LEMMA SchemeStepCredits ==
  ASSUME ICredits, FeesWithinReward, SchemeStep, UNCHANGED <<rewardsVars, payerVars>>,
         TypeOK', RewardsNonNegative'
  PROVE  CreditsWithin'
<1> USE DEF ICredits
<1>p. /\ pc \in InReward /\ pc' \in InReward /\ UNCHANGED <<cur, attempts>>
      /\ cur.chain \in Chains
  <2>1. pc \in InReward /\ pc' \in InReward /\ UNCHANGED <<cur, attempts>>
    BY DEF SchemeStep, StartScheme, FetchPage, VisitShare, VisitPPLNS, VisitPROP, EndPage,
       Award, CreditMiner, DeleteSharesBefore, schemeVars, rewardsVars, InReward
  <2> QED BY <2>1, PoolTypes
<1>r. /\ \A c \in Chains : ReservedOn(c) = IF c = cur.chain THEN Reserved ELSE 0
      /\ \A c \in Chains : ReservedOn(c)' = IF c = cur.chain THEN Reserved' ELSE 0
      /\ Reserved \in Int /\ Reserved' \in Int /\ Reserved >= 0 /\ Reserved' >= 0
  <2>1. ReservedNat /\ ReservedNat'
    BY ReservedType, ReservedTypeNext
  <2> QED BY <1>p, <2>1 DEF ReservedOn, ReservedNat
<1>q. ASSUME UNCHANGED credited, Reserved' <= Reserved PROVE CreditsWithin'
  <2>1. \A c \in Chains : /\ ReservedOn(c) \in Int /\ ReservedOn(c)' \in Int
                          /\ ReservedOn(c)' <= ReservedOn(c)
    BY <1>q, <1>r
  <2> QED BY <1>p, <1>q, <2>1, QuietCredits
<1>1. CASE StartScheme
  <2>1. pc = "scheme" /\ blockReward' = remaining /\ UNCHANGED <<credited>>
        /\ \/ pc' = "page"
           \/ /\ pc' = "credit" /\ toCredit' = {cur.miner}
              /\ awards' = [NoAwards EXCEPT ![cur.miner] = remaining]
    BY <1>1 DEF StartScheme, remainingReward
  <2>2. Reserved = remaining
    BY <2>1 DEF Reserved
  <2>3. CASE pc' = "page"
    <3>1. Reserved' = remaining
      BY <2>1, <2>3 DEF Reserved
    <3> QED BY <1>q, <1>r, <2>1, <2>2, <3>1
  <2>4. CASE pc' = "credit"
    <3>1. cur.miner \in Accounts /\ remaining \in Int
      BY <1>p, PoolTypes
    <3>2. toCredit' = {cur.miner} /\ awards'[cur.miner] = remaining
      BY <2>1, <2>4, <3>1 DEF NoAwards
    <3>3. SumFunctionOnSet(awards', {cur.miner}) = remaining
      <4>1. IsFiniteSet({cur.miner}) /\ {cur.miner} \ {cur.miner} = {}
        BY FS_Singleton
      <4>2. \A x \in {cur.miner} : awards'[x] \in Int
        BY <3>1, <3>2
      <4>3. SumFunctionOnSet(awards', {cur.miner}) =
              awards'[cur.miner] + SumFunctionOnSet(awards', {cur.miner} \ {cur.miner})
        BY <4>1, <4>2, SumSplit
      <4>4. SumFunctionOnSet(awards', {cur.miner} \ {cur.miner}) = 0
        BY <4>1, SumEmpty
      <4> QED BY <3>1, <3>2, <4>3, <4>4
    <3>4. Reserved' = remaining
      BY <2>4, <3>2, <3>3 DEF Reserved
    <3> QED BY <1>q, <1>r, <2>1, <2>2, <3>4
  <2> QED BY <2>1, <2>3, <2>4
<1>2. CASE FetchPage \/ VisitShare \/ EndPage
  <2>1. /\ pc \in {"page", "share"} /\ pc' \in {"page", "share", "award", "next"}
        /\ UNCHANGED <<credited, blockReward>>
    BY <1>2 DEF FetchPage, VisitShare, VisitPPLNS, VisitPROP, EndPage, schemeVars
  <2>2. Reserved = blockReward /\ Reserved' \in {blockReward, 0}
    BY <2>1 DEF Reserved
  <2> QED BY <1>q, <1>r, <2>1, <2>2
<1>3. CASE Award
  <2>1. pc = "award" /\ pc' \in {"credit", "next"} /\ UNCHANGED credited
    BY <1>3 DEF Award
  <2>2. Reserved = blockReward
    BY <2>1 DEF Reserved
  <2>3. CASE pc' = "next"
    <3>1. Reserved' = 0
      BY <2>3 DEF Reserved
    <3> QED BY <1>q, <1>r, <2>1, <3>1
  <2>4. CASE pc' = "credit"
    <3>1. Reserved' = SumFunctionOnSet(awards', toCredit')
      BY <2>4 DEF Reserved
    <3>2. SumFunctionOnSet(awards', toCredit') <= blockReward
      BY <1>3, <2>4, AwardWithin
    <3> QED BY <1>q, <2>1, <2>2, <3>1, <3>2
  <2> QED BY <2>1, <2>3, <2>4
<1>4. CASE CreditMiner
  <2>1. PICK a \in toCredit, o \in AddOutcome : /\ Credit(cur.chain, a, awards[a], o)
                                                /\ toCredit' = toCredit \ {a}
    BY <1>4 DEF CreditMiner
  <2>2. pc = "credit" /\ pc' \in {"credit", "next"} /\ awards' = awards
    BY <1>4 DEF CreditMiner
  <2>3. /\ toCredit \in SUBSET Accounts /\ IsFiniteSet(toCredit)
        /\ a \in Accounts /\ \A x \in toCredit : awards[x] \in Nat
    BY <2>2, LedgerAssumption, FS_Subset DEF RewardsNonNegative, InScheme, TypeOK, SchemeTypes
  <2>4. awards[a] \in Nat
    BY <2>3
  <2>5. Reserved' <= Reserved - awards[a]
    <3>1. SumFunctionOnSet(awards, toCredit) =
            awards[a] + SumFunctionOnSet(awards, toCredit \ {a})
      <4>1. \A x \in toCredit : awards[x] \in Int
        BY <2>3
      <4> QED BY <2>3, <4>1, SumSplit
    <3>2. SumFunctionOnSet(awards, toCredit \ {a}) \in Nat
      <4>1. IsFiniteSet(toCredit \ {a}) /\ \A x \in toCredit \ {a} : awards[x] \in Nat
        BY <2>3, FS_Subset
      <4> QED BY <4>1, SumNat
    <3>3. Reserved = SumFunctionOnSet(awards, toCredit)
      BY <2>2 DEF Reserved
    <3>4. Reserved' \in {SumFunctionOnSet(awards, toCredit \ {a}), 0}
      BY <2>1, <2>2 DEF Reserved
    <3> HIDE DEF Reserved
    <3> QED BY <2>4, <3>1, <3>2, <3>3, <3>4
  <2>6. /\ ReservedOn(cur.chain) \in Int /\ ReservedOn(cur.chain)' \in Int
        /\ ReservedOn(cur.chain)' <= ReservedOn(cur.chain) - awards[a]
        /\ \A c \in Chains : c # cur.chain => ReservedOn(c) = 0 /\ ReservedOn(c)' = 0
    <3>1. /\ ReservedOn(cur.chain) = Reserved
          /\ \A c \in Chains : c = cur.chain => ReservedOn(c)' = Reserved'
      BY <1>p, <1>r
    <3>2. ReservedOn(cur.chain)' = Reserved'
      BY <1>p DEF ReservedOn
    <3> QED BY <1>r, <2>5, <3>1, <3>2
  <2> QED BY <1>p, <2>1, <2>3, <2>4, <2>6, CreditWithin
<1>5. CASE DeleteSharesBefore
  <2>1. pc = "credit" /\ pc' = "next" /\ UNCHANGED credited
    BY <1>5 DEF DeleteSharesBefore
  <2>2. Reserved' = 0
    BY <2>1 DEF Reserved
  <2> QED BY <1>q, <1>r, <2>1, <2>2
<1> QED BY <1>1, <1>2, <1>3, <1>4, <1>5 DEF SchemeStep

LEMMA StartRewardCredits ==
  ASSUME ICredits, StartReward
  PROVE  CreditsWithin'
<1> USE DEF ICredits
<1>1. PICK b \in Blocks : /\ cur' = b
                          /\ remaining' = b.reward
                          /\ attempts' = [attempts EXCEPT ![b] = @ + 1]
  BY DEF StartReward, TypeOK, RewardTypes
<1>2. pc = "rewards" /\ pc' = "pool" /\ UNCHANGED credited
  BY DEF StartReward
<1>3. b.chain \in Chains /\ b.reward \in Nat /\ attempts[b] \in Nat
      /\ attempts \in [Blocks -> Nat]
  BY SchemesAssumption DEF TypeOK, RewardTypes
<1>4. \A c \in Chains : /\ ReservedOn(c) = 0
                        /\ ReservedOn(c)' = IF c = b.chain THEN b.reward ELSE 0
  BY <1>1, <1>2 DEF ReservedOn, Reserved, InReward
<1> SUFFICES ASSUME NEW c \in Chains
             PROVE  SumFunction(CreditedOn(c)') + ReservedOn(c)' <= SumFunction(RewardsOn(c)')
  BY DEF CreditsWithin
<1>5. CreditedOn(c)' = CreditedOn(c)
  BY <1>2 DEF CreditedOn
<1>6. SumFunction(CreditedOn(c)) \in Int /\ SumFunction(RewardsOn(c)) \in Int
  BY LedgerSums
<1>7. SumFunction(CreditedOn(c)) <= SumFunction(RewardsOn(c))
  <2>1. SumFunction(CreditedOn(c)) + ReservedOn(c) <= SumFunction(RewardsOn(c))
    BY DEF CreditsWithin
  <2> QED BY <1>4, <1>6, <2>1
<1> DEFINE old == RewardsOn(c)
           new == RewardsOn(c)'
<1>8. DOMAIN old = Blocks /\ DOMAIN new = Blocks /\ IsFiniteSet(Blocks)
  BY SchemesAssumption DEF RewardsOn
<1>9. \A x \in Blocks : old[x] \in Int
  <2> SUFFICES ASSUME NEW x \in Blocks PROVE old[x] \in Int
    OBVIOUS
  <2>1. attempts[x] \in Nat /\ x.reward \in Nat
    BY SchemesAssumption DEF TypeOK, RewardTypes
  <2>2. attempts[x] * x.reward \in Nat
    BY <2>1, ProductNat
  <2> QED BY <2>2 DEF RewardsOn
<1>10. \A x \in Blocks : x # b => new[x] = old[x]
  BY <1>1, <1>3 DEF RewardsOn
<1>11. new[b] = old[b] + ReservedOn(c)'
  <2>1. attempts'[b] = attempts[b] + 1
    BY <1>1, <1>3
  <2>2. attempts'[b] * b.reward = attempts[b] * b.reward + b.reward
    <3>1. b.reward * (attempts[b] + 1) = b.reward * attempts[b] + b.reward * 1
      BY <1>3, Distributes
    <3>2. /\ b.reward * (attempts[b] + 1) = (attempts[b] + 1) * b.reward
          /\ b.reward * attempts[b] = attempts[b] * b.reward
          /\ b.reward * 1 = b.reward
      BY <1>3, SMT
    <3> QED BY <2>1, <3>1, <3>2
  <2>3. /\ old[b] = IF b.chain = c THEN attempts[b] * b.reward ELSE 0
        /\ new[b] = IF b.chain = c THEN attempts'[b] * b.reward ELSE 0
    BY DEF RewardsOn
  <2> QED BY <1>4, <2>2, <2>3
<1> HIDE DEF old, new
<1>12. ReservedOn(c)' \in Nat
  BY <1>3, <1>4
<1>13. SumFunctionOnSet(new, Blocks) = SumFunctionOnSet(old, Blocks) + ReservedOn(c)'
  <2>1. new[b] \in Int /\ new[b] - old[b] = ReservedOn(c)'
    BY <1>9, <1>11, <1>12
  <2>2. SumFunctionOnSet(new, Blocks) = SumFunctionOnSet(old, Blocks) + (new[b] - old[b])
    BY <1>8, <1>9, <1>10, <2>1, SumExcept
  <2> QED BY <2>1, <2>2
<1>14. SumFunction(new) = SumFunction(old) + ReservedOn(c)'
  BY <1>8, <1>13 DEF SumFunction
<1>15. SumFunction(CreditedOn(c)) + ReservedOn(c)' <= SumFunction(RewardsOn(c)) + ReservedOn(c)'
  BY <1>6, <1>7, <1>12
<1> QED BY <1>5, <1>14, <1>15 DEF old, new

LEMMA CreditsKept ==
  ASSUME ICredits, FeesWithinReward, [Next]_vars, TypeOK', RewardsNonNegative'
  PROVE  CreditsWithin'
<1> USE DEF ICredits
<1>n. ReservedNat /\ ReservedNat'
  BY ReservedType, ReservedTypeNext
<1>q. ASSUME UNCHANGED <<credited, attempts>>,
             \/ pc' \notin InReward
             \/ UNCHANGED cur /\ pc \in InReward /\ Reserved' <= Reserved
      PROVE  CreditsWithin'
  <2>1. \A c \in Chains : /\ ReservedOn(c) \in Int /\ ReservedOn(c)' \in Int
                          /\ ReservedOn(c)' <= ReservedOn(c)
    <3>1. CASE pc' \notin InReward
      <4>1. \A c \in Chains : ReservedOn(c)' = 0
        BY <3>1 DEF ReservedOn
      <4> QED BY <1>n, <4>1 DEF ReservedNat
    <3>2. CASE pc' \in InReward
      <4>1. \A c \in Chains : ReservedOn(c)' <= ReservedOn(c)
        BY <1>n, <1>q, <3>2 DEF ReservedNat, ReservedOn
      <4> QED BY <1>n, <4>1 DEF ReservedNat
    <3> QED BY <3>1, <3>2
  <2> QED BY <1>q, <2>1, QuietCredits
<1>1. CASE SchemeStep /\ UNCHANGED <<rewardsVars, payerVars>>
  BY <1>1, SchemeStepCredits
<1>2. CASE StartReward
  BY <1>2, StartRewardCredits
<1>3. CASE CreditRecipient
  <2> DEFINE recipient == PoolRewardRecipients[cur.chain][rcpt]
             amount    == (recipient.percentage * cur.reward) \div 100
  <2>1. /\ recipient.address \in Accounts /\ cur.chain \in Chains
        /\ amount \in Nat /\ remaining' = remaining - amount /\ remaining' >= 0
    BY <1>3, RecipientTypes, RecipientStep
  <2>2. \/ UNCHANGED <<pc, credited>>
        \/ \E o \in AddOutcome : Credit(cur.chain, recipient.address, amount, o)
    BY <1>3 DEF CreditRecipient
  <2>3. pc = "pool" /\ pc' \in {"pool", "next"} /\ UNCHANGED <<cur, attempts>>
    BY <1>3 DEF CreditRecipient
  <2> HIDE DEF recipient, amount
  <2>4. Reserved = remaining /\ Reserved' \in {remaining', 0} /\ remaining \in Int
    BY <2>3 DEF Reserved, TypeOK, SchemeTypes
  <2>5. Reserved' <= Reserved - amount /\ Reserved' <= Reserved
    BY <2>1, <2>4
  <2>6. CASE UNCHANGED <<pc, credited>>
    BY <1>q, <2>3, <2>5, <2>6 DEF InReward
  <2>7. ASSUME NEW o \in AddOutcome, Credit(cur.chain, recipient.address, amount, o)
        PROVE  CreditsWithin'
    <3>1. pc \in InReward /\ pc' \in InReward
      BY <2>3 DEF InReward
    <3>2. ReservedOn(cur.chain) = Reserved /\ ReservedOn(cur.chain)' = Reserved'
      BY <2>3, <3>1 DEF ReservedOn
    <3>3. \A c \in Chains : c # cur.chain => ReservedOn(c) = 0 /\ ReservedOn(c)' = 0
      BY <2>3 DEF ReservedOn
    <3>4. Reserved \in Int /\ Reserved' \in Int
      BY <1>n, <3>1 DEF ReservedNat
    <3>5. /\ ReservedOn(cur.chain) \in Int /\ ReservedOn(cur.chain)' \in Int
          /\ ReservedOn(cur.chain)' <= ReservedOn(cur.chain) - amount
      BY <2>5, <3>2, <3>4
    <3> QED BY <2>1, <2>3, <2>7, <3>3, <3>5, CreditWithin
  <2> QED BY <2>2, <2>6, <2>7
<1>4. CASE PoolRewardDone
  <2>1. /\ pc = "pool" /\ pc' = "scheme"
        /\ UNCHANGED <<cur, remaining, credited, attempts>>
    BY <1>4 DEF PoolRewardDone, schemeVars, rewardsVars
  <2>2. Reserved' = Reserved /\ Reserved \in Int
    BY <1>n, <2>1 DEF Reserved, ReservedNat, InReward
  <2>3. Reserved' <= Reserved
    BY <2>2
  <2> QED BY <1>q, <2>1, <2>3 DEF InReward
<1>5. CASE RewardStep /\ ~(StartReward \/ CreditRecipient \/ PoolRewardDone)
  <2>1. pc' \notin InReward /\ UNCHANGED <<credited, attempts>>
    BY <1>5 DEF RewardStep, Unlock, NextReward, RewardsDone, SaveBlock, SaveDone,
       schemeVars, rewardsVars, InReward
  <2> QED BY <1>q, <2>1
<1>6. CASE PayerStep /\ UNCHANGED <<schemeVars, rewardsVars>>
  <2>1. pc' \notin InReward /\ UNCHANGED <<credited, attempts>>
    BY <1>6 DEF PayerStep, SelectDue, SendMany, RecordPayment, ResetBalance,
       AfterReset, NextRow, PayoutEnds, schemeVars, rewardsVars, InReward
  <2> QED BY <1>q, <2>1
<1>7. CASE Crash
  BY <1>7, <1>q DEF Crash, InReward
<1>8. CASE Environment \/ UNCHANGED vars
  <2>1. /\ UNCHANGED <<pc, cur, remaining, blockReward, awards, toCredit>>
        /\ UNCHANGED <<credited, attempts>>
    BY <1>8 DEF Environment, Mature, vars, schemeVars, loopVars, rewardsVars
  <2>2. Reserved' = Reserved
    BY <2>1 DEF Reserved
  <2>3. pc \in InReward => Reserved' <= Reserved
    BY <1>n, <2>2 DEF ReservedNat
  <2> QED BY <1>q, <2>1, <2>3
<1> QED BY <1>1, <1>2, <1>3, <1>4, <1>5, <1>6, <1>7, <1>8 DEF Next, Manager, RewardStep

LEMMA InitCredits ==
  ASSUME Init PROVE AwardsAddUp /\ CreditsWithin
<1>1. AwardsAddUp
  BY DEF Init, AwardsAddUp
<1>2. ASSUME NEW c \in Chains
      PROVE  SumFunction(CreditedOn(c)) + ReservedOn(c) <= SumFunction(RewardsOn(c))
  <2>1. ReservedOn(c) = 0
    BY DEF Init, ReservedOn, InReward
  <2>2. CreditedOn(c) = NoAwards
    BY DEF Init, SchemesInit, CreditedOn, NoAwards, Rows
  <2>3. DOMAIN RewardsOn(c) = Blocks
    BY DEF RewardsOn
  <2>4. ASSUME NEW b \in Blocks PROVE RewardsOn(c)[b] \in Nat
    <3>1. attempts[b] = 0 /\ b.reward \in Nat
      BY SchemesAssumption DEF Init, RewardsInit
    <3>2. attempts[b] * b.reward \in Nat
      BY <3>1, ProductNat
    <3> QED BY <3>2 DEF RewardsOn
  <2>5. SumFunctionOnSet(RewardsOn(c), Blocks) \in Nat
    BY <2>4, SchemesAssumption, SumNat
  <2>6. SumFunction(RewardsOn(c)) \in Nat
    BY <2>3, <2>5 DEF SumFunction
  <2> QED BY <2>1, <2>2, <2>6, NoAwardsSum
<1> QED BY <1>1, <1>2 DEF CreditsWithin

(* With fees of 100 per cent at the most, all that is credited on a chain,  *)
(* to the pool's recipients and to the miners together, is within the       *)
(* rewards of its blocks, once per attempt: whatever the schemes round and  *)
(* wherever a computation is abandoned (rewards.go:23-53, pplns.go:32-86,   *)
(* prop.go:24-85, solo.go).                                                 *)
THEOREM CreditedWithinRewardsHolds ==
  ASSUME FeesWithinReward
  PROVE  Spec => []CreditedWithinRewards
<1>1. Init => ICredits
  BY InitTypes, InitNonNegative, InitCredits DEF ICredits
<1>2. ICredits /\ [Next]_vars => ICredits'
  <2> SUFFICES ASSUME ICredits, [Next]_vars PROVE ICredits'
    OBVIOUS
  <2>1. TypeOK' /\ RewardsNonNegative' /\ AwardsAddUp'
    BY NextTypes, RewardsNonNegativeKept, AwardsAddUpKept DEF ICredits
  <2> QED BY <2>1, CreditsKept DEF ICredits
<1>3. ICredits => CreditedWithinRewards
  <2> SUFFICES ASSUME ICredits, NEW c \in Chains
               PROVE  SumFunction(CreditedOn(c)) <= SumFunction(RewardsOn(c))
    BY DEF CreditedWithinRewards
  <2>1. /\ SumFunction(CreditedOn(c)) \in Int /\ SumFunction(RewardsOn(c)) \in Int
        /\ ReservedOn(c) \in Int /\ ReservedOn(c) >= 0
    BY LedgerSums, ReservedType DEF ICredits, ReservedNat
  <2>2. SumFunction(CreditedOn(c)) + ReservedOn(c) <= SumFunction(RewardsOn(c))
    BY DEF ICredits, CreditsWithin
  <2> QED BY <2>1, <2>2
<1> QED BY <1>1, <1>2, <1>3, PTL DEF Spec
=============================================================================
