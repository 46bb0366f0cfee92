------------------------------ MODULE Schemes -------------------------------
(***************************************************************************)
(* calculateMinerRewards (payouts/rewards.go) and the three payout schemes *)
(* it dispatches to: SOLO, PPLNS and PROP.  Each splits what the pool fee  *)
(* left of a block's reward among the miners whose shares are in the       *)
(* shares table, credits them one by one, and returns the time before      *)
(* which shares are deleted (0 stands for the zero time.Time).             *)
(*                                                                         *)
(* The loops over pages and over the shares of a page are steps, so the    *)
(* accumulators of the code are variables here.  A share's score           *)
(* difficulty / networkdifficulty is a number of score units.              *)
(***************************************************************************)
EXTENDS Ledger

CONSTANTS
  Blocks,         \* rows of the blocks table: [id, chain, miner, created, reward]
  ShareRows,      \* rows of the shares table: [id, miner, score, created]
  NWindow,        \* the PPLNS window, in score units
  PageSize        \* rows fetched by one GetSharesBefore

NoBlock == [id |-> 0]

ASSUME SchemesAssumption ==
  /\ IsFiniteSet(Blocks)
  /\ \A b \in Blocks : /\ b.id \in Nat \ {0}
                       /\ b.chain \in Chains
                       /\ b.miner \in Accounts
                       /\ b.created \in Nat \ {0}
                       /\ b.reward \in Nat
  /\ NoBlock \notin Blocks
  /\ \A s \in ShareRows : /\ s.miner \in Accounts
                          /\ s.score \in Nat \ {0}
                          /\ s.created \in Nat \ {0}
  /\ NWindow \in Nat \ {0}
  /\ PageSize \in Nat \ {0}

VARIABLES
  scheme,         \* config.Payouts.Scheme, fixed while the program runs
  shares,         \* the shares table
  cur,            \* the confirmed block being rewarded, or NoBlock
  remaining,      \* remainingReward
  blockReward,    \* the reward handed to the scheme
  before,         \* upper end of the next page
  inclusive,      \* whether that end belongs to the page
  page,           \* the shares of this page not yet visited
  full,           \* the page held PageSize rows: another one may follow
  awards,         \* minerRewards (PPLNS), minerScores (PROP)
  accumulated,    \* accumlatedScore
  cutoff,         \* cutoffTime
  toCredit,       \* miners still to be credited
  counted,        \* history: the shares visited for this block
  credited        \* history: what AddAmount really added for rewards

loopVars == <<before, inclusive, page, full, awards, accumulated, cutoff, toCredit,
              counted>>
schemeVars == <<scheme, shares, cur, remaining, blockReward, loopVars, credited>>

NoAwards == [a \in Accounts |-> 0]

(* Add a reward to a row, and to the history when it reached the balance.   *)
Credit(chain, address, amount, o) ==
  /\ AddAmount(chain, address, amount, o)
  /\ credited' = IF Applied(o[2])
                 THEN [credited EXCEPT ![<<chain, address>>] = @ + amount]
                 ELSE credited

(* The local variables of a block's reward computation go out of scope.     *)
ClearLocals ==
  /\ cur' = NoBlock
  /\ remaining' = 0
  /\ blockReward' = 0
  /\ before' = 0
  /\ inclusive' = FALSE
  /\ page' = {}
  /\ full' = FALSE
  /\ awards' = NoAwards
  /\ accumulated' = 0
  /\ cutoff' = 0
  /\ toCredit' = {}
  /\ counted' = {}

(* What calculateBlockRewards passes on to the scheme.                      *)
remainingReward_BeforeFees == cur.reward
remainingReward == remaining

(* payoutSchemeFactory and the head of UpdateMinerBalances.                 *)
StartScheme ==
  /\ pc = "scheme"
  /\ blockReward' = remainingReward
  /\ before' = cur.created
  /\ inclusive' = TRUE
  /\ page' = {}
  /\ full' = FALSE
  /\ accumulated' = 0
  /\ counted' = {}
  /\ IF scheme = "SOLO"
     THEN /\ awards' = [NoAwards EXCEPT ![cur.miner] = remainingReward]
          /\ toCredit' = {cur.miner}
          /\ cutoff' = cur.created
          /\ pc' = "credit"
     ELSE /\ awards' = NoAwards
          /\ toCredit' = {}
          /\ cutoff' = 0
          /\ pc' = "page"
  /\ remaining' = remainingReward
  /\ UNCHANGED <<scheme, shares, cur, credited, ledgerVars, faults>>

(* The rows GetSharesBefore selects, and the lists it can return: the newest *)
(* rows first, ties in any order, at most PageSize.                         *)
SharesBefore == {s \in shares : s.created < before \/ (inclusive /\ s.created = before)}

Pages(rows) ==
  {p \in SUBSET rows : /\ Cardinality(p) <= PageSize
                       /\ \A s \in p, t \in rows \ p : s.created >= t.created}

Complete(p, rows) == Cardinality(p) = PageSize \/ p = rows

(* One page is fetched.  An error of the query makes UpdateMinerBalances    *)
(* return without awards.  A connection lost while the rows are read is no  *)
(* error to the code (rows.Err is not asked): the page is just shorter, and *)
(* so taken for the last.                                                   *)
FetchPage ==
  /\ pc = "page"
  /\ \/ /\ \E p \in Pages(SharesBefore) :
             /\ Charge(~Complete(p, SharesBefore))
             /\ page' = p
             /\ full' = (Cardinality(p) = PageSize)
             /\ IF p = {}
                THEN before' = before
                ELSE \E s \in p : /\ \A t \in p : s.created <= t.created
                                  /\ before' = s.created
        /\ inclusive' = FALSE
        /\ pc' = "share"
     \/ /\ Charge(TRUE)
        /\ pc' = "next"
        /\ UNCHANGED <<before, inclusive, page, full>>
  /\ UNCHANGED <<scheme, shares, cur, remaining, blockReward, awards, accumulated,
                 cutoff, toCredit, counted, credited, ledgerVars>>

(* PPLNS, one share.  accumlatedScore is never advanced by the code, so the *)
(* window test sees each share alone.  A share that fills the window takes  *)
(* the whole reward and the overflow return follows: done and cutoffTime    *)
(* are never used after it.                                                 *)
VisitPPLNS(s) ==
  LET score  == IF accumulated + s.score >= NWindow THEN NWindow - accumulated ELSE s.score
      reward == (score * blockReward) \div NWindow
  IN  /\ awards' = [awards EXCEPT ![s.miner] = @ + reward]
      /\ remaining' = remaining - reward
      /\ toCredit' = toCredit \cup {s.miner}
      /\ pc' = IF remaining' <= 0 THEN "next" ELSE pc
      /\ UNCHANGED <<accumulated, cutoff>>

(* PROP, one share.                                                         *)
VisitPROP_ScoreNotAccumulated(s) ==
  /\ awards' = [awards EXCEPT ![s.miner] = @ + s.score]
  /\ toCredit' = toCredit \cup {s.miner}
  /\ cutoff' = IF cutoff = 0 \/ s.created > cutoff THEN s.created ELSE cutoff
  /\ UNCHANGED <<remaining, accumulated, pc>>

VisitPROP(s) ==
  /\ awards' = [awards EXCEPT ![s.miner] = @ + s.score]
  /\ accumulated' = accumulated + s.score
  /\ toCredit' = toCredit \cup {s.miner}
  /\ cutoff' = IF cutoff = 0 \/ s.created > cutoff THEN s.created ELSE cutoff
  /\ UNCHANGED <<remaining, pc>>

VisitShare ==
  /\ pc = "share"
  /\ \E s \in page :
       /\ \A t \in page : s.created >= t.created
       /\ page' = page \ {s}
       /\ counted' = counted \cup {s}
       /\ IF scheme = "PPLNS" THEN VisitPPLNS(s) ELSE VisitPROP(s)
  /\ UNCHANGED <<scheme, shares, cur, blockReward, before, inclusive, full, credited,
                 ledgerVars, faults>>

(* The end of a page: a full one is followed by another.                    *)
anotherPage_Never == FALSE
anotherPage == full

EndPage ==
  /\ pc = "share"
  /\ page = {}
  /\ pc' = IF anotherPage THEN "page" ELSE "award"
  /\ UNCHANGED <<schemeVars, ledgerVars, faults>>

(* After the last page PPLNS holds the rewards already.  PROP divides now:  *)
(* in exact arithmetic the miners' parts add up to the whole reward, so     *)
(* whether remainingReward ends above zero is decided by the rounding of    *)
(* float64 and either outcome is possible; without a share, or a reward,    *)
(* nothing is subtracted.                                                   *)
Award ==
  /\ pc = "award"
  /\ IF scheme = "PPLNS"
     THEN /\ pc' = "credit"
          /\ awards' = awards
     ELSE /\ awards' = IF toCredit = {} THEN awards
                       ELSE [a \in Accounts |-> (awards[a] * blockReward) \div accumulated]
          /\ \E overflow \in BOOLEAN :
               /\ (toCredit = {} \/ blockReward = 0) => (overflow <=> blockReward <= 0)
               /\ pc' = IF overflow THEN "next" ELSE "credit"
  /\ UNCHANGED <<scheme, shares, cur, remaining, blockReward, before, inclusive, page,
                 full, accumulated, cutoff, toCredit, counted, credited, ledgerVars, faults>>

(* Balances.AddAmount for one miner, in the order a Go map is ranged over;  *)
(* an error abandons the miners that are left.                              *)
CreditMiner ==
  /\ pc = "credit"
  /\ \E a \in toCredit, o \in AddOutcome :
       /\ Credit(cur.chain, a, awards[a], o)
       /\ toCredit' = toCredit \ {a}
       /\ pc' = IF AddFailed(o) THEN "next" ELSE pc
  /\ UNCHANGED <<scheme, shares, cur, remaining, blockReward, before, inclusive, page,
                 full, awards, accumulated, cutoff, counted>>

(* RunManager clears the shares older than the cutoff; an error is logged.  *)
DeleteSharesBefore ==
  /\ pc = "credit"
  /\ toCredit = {}
  /\ \E o \in Outcome :
       /\ Charge(o # "ok")
       /\ shares' = IF Applied(o) THEN {s \in shares : s.created >= cutoff} ELSE shares
  /\ pc' = "next"
  /\ UNCHANGED <<scheme, cur, remaining, blockReward, loopVars, credited, ledgerVars>>

SchemesInit ==
  /\ scheme \in {"SOLO", "PPLNS", "PROP"}
  /\ shares = ShareRows
  /\ cur = NoBlock
  /\ remaining = 0
  /\ blockReward = 0
  /\ before = 0
  /\ inclusive = FALSE
  /\ page = {}
  /\ full = FALSE
  /\ awards = NoAwards
  /\ accumulated = 0
  /\ cutoff = 0
  /\ toCredit = {}
  /\ counted = {}
  /\ credited = [r \in Rows |-> 0]
=============================================================================
