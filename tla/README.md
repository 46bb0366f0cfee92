# A TLA+ model of the merged mining pool

The pool serves stratum miners, makes jobs out of the block templates of several
chains' nodes, and pays the miners' rewards from a Postgres database. The modules in
this directory model the parts of it where a mistake costs coins or work: the payout
service, the RPC failover, the stratum server, the numbering and judging of jobs, the
assembly of a block, the share buffer, and the statistics and dashboards made of the
shares. TLC checks them on small instances; TLAPS proves every safety property of the
passing runs for every value of the constants.

## 1. Inventory

| Part | Source | State | Operations |
|---|---|---|---|
| Payout service | `payouts/`, `persistence/balance.go`, `found.go`, `payment.go`, `share.go` | tables balances, balance_changes, payments, blocks, shares; locals of a pass | unlock, reward, credit, save, select due, send, record, reset |
| RPC failover | `rpc/manager.go`, `pool/work.go`, `pool/nodes.go` | `activeIndex` of each chain's manager; return loops; the pool's cached clients | fetch, check, search, restore |
| Stratum server | `pool/network.go`, `responses.go`, `session.go`, `server.go` | session map, `numberOfConnections`, a goroutine per connection | accept, subscribe, authorize, fail, clean up, broadcast |
| Work | `pool/work.go`, `pool/responses.go`, `bitcoin/generator.go` | `jobCounter`, `workCache` | fetch, number, cache, submit, judge |
| Block assembly | `bitcoin/` | none (pure) | coinbase, merkle branch, header, submission |
| Share buffer | `pool/buffer.go`, `persistence/share.go` | `shareBuffer`, the batch, a transaction | take, begin, copy, commit, put back (nothing fills it at this commit) |
| Statistics | `persistence/stats.go`, `miner.go`, `pool.go` | tables minerstats, poolstats; locals of a pass | accumulate, insert a pool row, insert a row per worker |
| HTTP API | `api/` | none; locals of a request | dashboard, history, pool page |
| Configuration, coins, targets, share weighing | `config/`, `bitcoin/`, `pool/shares.go` | none | parsing, hashing, arithmetic |

How they interact. `main` starts goroutines for the payouts, the pool, the statistics
and the API. Payouts and pool share the RPC managers (`GetActiveClient`). The pool starts a listener goroutine,
a goroutine per connection and a notification goroutine; they share the session map,
the connection counter, the work cache and `jobCounter`, all without a lock. A return
loop of a manager writes `activeIndex` beside all of them. The payout service, the
pool's share buffer, the statistics and the API meet in the database only, in
statements without common transactions.

What is hard here: calls to databases and nodes that fail, or succeed without the
caller learning of it; the process dying between two of the many unprotected writes
of a payout; unlocked counters and maps; templates and balances that are stale when
they are used; and boundary values in the encodings. `PROJECT.json` lists each of
these hazards at its line with the properties that watch it, or the reason why none can.

Three facts about this commit matter to a reader of the models. The package `pool`
does not compile as it stands (`[]string` against `bitcoin.Work`, unused imports);
the modules model what the code evidently means. No code inserts shares or found
blocks, so the payout modules start from a database that holds some. And `Submit` in
`bitcoin/generator.go` is reached only from `submitBlockToChain`, which nothing calls:
`receiveWorkFromClient` hands the bare header to `submitblock`.

## 2. Modules and the code

### Payouts: Ledger, Schemes, Rewards, Payer, PayoutManager

`PayoutManager` is the goroutine of `RunManager`; `pc` is its place. It EXTENDS
`Payer`, which extends `Rewards`, `Schemes` and `Ledger`, one module for each part:

* `Ledger`: the tables balances and balance_changes. `AddAmount` has two statements;
  its outcome is a pair, each `ok`, `failed` or `lost` (applied, not acknowledged).
  A failure, a lost reply, a result set cut short and a crash are each charged to
  `MaxFaults`. A crash inside `AddAmount` is its failure followed by `Crash`.
* `Schemes`: SOLO, PPLNS and PROP. The page and share loops are steps because the
  database may fail between them. A page is any list the query may return: newest
  first, ties in any order, at most `PageSize`. PPLNS never advances
  `accumlatedScore`, as in the code. PROP's overflow test hangs on float64 rounding
  and is a nondeterministic choice.
* `Rewards`: `unlockBlocks` in one step (it writes nothing), then a step per fee
  recipient, per block, per saved status. What a chain says of a block is `remote`,
  changed by the environment at any time: a coinbase matures or is orphaned, an
  orphan may come back. A mature coinbase stays mature: the chains' maturity depth is
  taken to exceed any reorganisation.
* `Payer`: the due rows are read in one step, since only this goroutine writes
  balances; then a step per `sendmany`, per recorded payment and per reset.

Amounts are integers where the code has float64; a share's score is a number of
units. The effort and progress columns take part in no decision and are left out.
`credited`, `attempts`, `sentTo` and `recorded` are history variables that let the
properties speak of what really happened.

`AccountBook` is what all this is for, without passes, tables or failures: an account
earns; what it is owed is sent, recorded and settled, in that order and in full; a
payment may be made or recorded more than once but never settled without having been
made. `KeepsAccountBook` maps it to the rows whose wallet no other row of the chain
shares: `settled` is what was credited less the balance, `sent` and `recorded` are what
the nodes sent to the wallet and the payments table holds. Rows that do share a wallet
break it, which is the finding of the run shared_wallet. `counted` remembers the shares
the pages of a scheme have visited, for `DeletedWereCounted`.

### Failover

`at` is the place of the notification goroutine in `fetchRpcBlockTemplatesAndCacheWork`,
`sleeping` and `restoring` count the return loops of each chain, `cached` is what
`loadBlockchainNodes` stored. `nextNode` reads `activeIndex` in one step and writes it
in another; reading it twice, for the comparison and the increment, adds no outcome,
because the only other writer writes 0. The read of the index by a health check and
the answer are one step: a restore in between changes what is active, not what the
check is about. `raced` remembers chains whose search a restore has ever cut into; it is
never cleared, since such a search can leave the manager off its primary for good.

### Sessions, Stratum

`Sessions` is the map with its keys; a session ID is the client and the number of its
subscription, or the one empty ID. `Stratum` adds the listener, a goroutine per
client, the unlocked counter as a read and a write, and the notifier. `Accept` of a
full server is the listener's busy loop, so it is only a guard. The code compares
with `>`, so one connection more than the configured maximum is let in. Closing a
connection and reading the counter is one step; nothing else sees the first. A map
that is written while it is ranged over, or by two goroutines, may stop the process:
`ConcurrentMapAccess`. A range may or may not visit an entry added under way.

### Work

The notifier's two calls of `GenerateWork` (by the fetch, then forced) and those of
the miners' goroutines are split where they touch `jobCounter`: the ID is formatted,
then the counter is read, then written. A work is its job ID, the height of its
template and whether its coinbase pays to the pool. `torn` records a lost increment.

### BlockAssembly

Hashes are symbolic: the hash of two nodes is the pair. `heightBytes` and `varUint`
work on bytes. The merkle loops are steps, so that their loop invariant can be
checked against `TreeRoot`, which is defined row by row and knows nothing of steps and
branches. Heights are below 2^24 (`MaxHeight`). They are read back as numbers without a
sign: whether the bytes are the script number a node expects, whose top bit is its sign, is
not modelled. Counts and lengths are below 2^31 (`MaxValue`), the largest number TLC has,
so the form of eight bytes does not occur. A block's size keeps the counts of the code far
below that. The outputs of the coinbase are opaque.

`arbitrary` is the length of the argument `GenerateWork` puts into the coinbase script: the
signature with an aux block's hash for a job, nothing for a forced work, and for a
submission the extranonce2 as the client wrote it. `receiveWorkFromClient` does not check
its length, so `Extranonces` are any lengths: the script may come to 253 bytes, for which
`varUint` panics, and `MakeHeader` may refuse a text that is no hex.

### ShareBuffer

Buffer and batch are sets of shares, the table counts the copies of each. `TakeBuffer`
and `PutBack` are the two critical sections of `flushShareBufferAtInterval`; `Begin`,
`CopyIn` and `Commit` are `InsertBatch`. Prepare, the Execs and Close are one step,
since nobody sees their effect before the commit. A commit may be applied and not
acknowledged. Shares are submitted, and deleted by the payout service, at any time; a
crash loses the memory and rolls the open transactions back.

### Stats, Dashboard, Reporting

`Stats` is the goroutine of `UpdateStatsOnInterval`: one query over the shares of the
hashrate window, a row of poolstats, a row of minerstats per worker. Workers come in any
order (a Go map). Time is in ticks, `Second` of them a second, so that shares may be less
than a second apart: `wholeSeconds` is the `math.Floor` of the window a rate is divided by.
Rates are whole numbers. `Dashboard` is a request:
`GetMinerStatsReport` is a step per group of queries and runs twice, for the report and
again for the list of workers (`call`); in between `GetWorkersLastSeen`. A query can fail
or, where the code does not ask `rows.Err` or goes on after a row that does not scan, be
cut short: a history then lacks its later hours (`historyUpTo`). `seen`, `noShares` and
`failedQuery` are history variables. Handlers share no state, so one request at a time
is enough; a new one starts with fresh variables. `Reporting` composes both with the
clock, shares that are stored and deleted, balances that change and crashes. Shares come
from ShareBuffer as an environment action: the flusher in full beside these goroutines
is beyond TLC, and only the committed rows are visible to them.

## 3. Runs

| Run | Instance | What it shows |
|---|---|---|
| payouts | two chains, two miners and a fee recipient, two blocks, four shares of which two tie, page size 2, one fault | the account book is kept, no double reward without a fault, settled books between faultless passes, PROP deletes only what it counted, final statuses; decided blocks are saved and due balances paid |
| shared_wallet | two logins with one dogecoin wallet | violation: one payment, two resets |
| pplns_window | shares that fill the window | violation: exact awards are called an overflow |
| failover | two chains, one with three nodes, two return loops | index in range, a failed search is complete, a manager off its primary is watched and comes back |
| back_to_primary | one chain, two nodes, two loops | violation: a restore inside a failing search leaves the manager off its primary |
| retry_recovered | one chain, two nodes | violation: the second fetch goes to the cached client |
| stratum | two clients, one subscription, limit 1, two works | proper clients stay in the map, a broadcast reaches them |
| connections | three connections on limit 0 | the limit holds unless an update is lost; failed connections are given back |
| work | one miner, one new block, IDs up to 4 | job IDs, templates, every submission ends |
| assembly | heights at byte boundaries, up to 9 and around 252 transactions, extranonces of 0, 7, 8 and 248 characters | merkle loops, script length, encodings |
| share_buffer | three shares, three faults | no share is lost, each is stored at last, once per fault; only failures leave transactions open |
| reporting | one miner, two workers with a share each, a clock at 0, 180.5, 3660.5 and 7300 seconds, window 10 minutes, stale limit 20, two slots of an hour, one fault | rates are not inflated, balances, rates and panics of the dashboard are explained, the history puts every rate in its hour |

Why the bounds are enough. One fault lets each call of a pass fail in each way, and
the pass after it meet the damage; the theorems cover any number. Four shares with ties
fill more than one page, so that a tie can fall on the boundary. Two chains are what merged mining needs, and what a partial
failure of the sends takes. Three nodes let a search wrap around in the middle; two
loops let one restore while another sleeps. Two clients share the empty ID, and a
subscription after the login already changes the key of a client in the map (with two
subscriptions each the run passes too, with 11 million states; the theorem covers any
number). Three connections overflow a limit with one to spare. One miner against the notifier is
enough for a lost increment; the theorems cover any number. Up to nine transactions
give merkle levels of every parity down to the root. Three shares let one be stored, one
be in a batch and one come in; three faults let a batch fail, be stored without an answer
and meet a crash. Extranonces are missing, odd, of the length the pool asks for and of the
one that makes a script of 253 bytes. The clock of the reporting run stands inside and
outside the window, the stale limit and the hour, at moments that are no whole seconds
apart; its last one is two slots after a row, which is then in the query of a history and
in none of its hours.

CHECK_DEADLOCK is off where the system may stop: a stratum server that has stopped or
has served all its clients, a finished block, and a job counter at its bound.

Every property of a passing run has a mutant in `PROJECT.json`: a definition changed
the way a plausible slip would change the code, under which TLC finds it violated.

### Fairness

* Payouts: weak fairness of the goroutine. Its calls end: the RPC client has a
  timeout (`rpc/rpc.go:32`), database calls are taken to return. Nothing is assumed
  of the chains or of faults; `MaxFaults` makes them finite.
* Failover: weak fairness of the pool's goroutine (RPC timeouts, notifications keep
  coming) and of each chain's return loops (a sleep that ends). The nodes promise
  nothing; the properties suppose a primary that stays up.
* Stratum: weak fairness of the cleanup of a failed connection and of a broadcast
  under way. Clients may do nothing for ever.
* Share buffer: weak fairness of the flush goroutine; database calls are taken to
  return and the lock is held for a few assignments. Faults are finite.
* Work: weak fairness of the answer to a submission (RPC timeouts).

## 4. Proofs

All proofs are checked by TLAPS, without assumptions beyond the named ASSUMEs on the
constants, which TLC evaluates in the runs.

* `PayoutManager_proofs`. `Typing`. `NoUnpaidResetHolds` and `RecordedWasSentHolds`
  rest on `PayoutOrder` and `PaidCover`: neither property is inductive, because a row
  selected as due is paid, recorded and reset in separate steps. `PaidCover` says that
  once the row's chain has been sent, its due amount is covered by coins that nothing
  else accounts for. `OnlyConfirmedRewardedHolds` and `RewardedOncePerFaultHolds` rest on
  `PassBlocks` and `AttemptBound`: an attempt that no final status and no running
  pass accounts for has cost a fault. `StatusFinalHolds` is an action property from
  the same invariant: the blocks to be saved are pending ones.
  `TornRowsBoundedHolds` is inductive as it stands: only a failure or a crash of
  `AddAmount` adds a row whose balance and log disagree. `DeletedWereCountedHolds` rests
  on `PagesCover`: without a fault, a share PROP may delete was counted, is on the page
  at hand, has the time of one that is or was, or is still ahead of the loop over pages.
  Nothing inserts shares in the payout modules, as in the code.
* The books, in the same module. `KeepsAccountBookHolds`, the refinement. The initial
  books are empty; a credit is an `Earn`, a `sendmany` a `Send` for all the rows of its
  chain, and `RecordPayment` and `ResetBalance` are `Record` and `Settle`, or nothing when
  they fail. It needs two facts beyond the invariants above: `DueIsOwed`, that nothing
  changes a row between its selection and its reset, so the amount read early is what is
  owed late; and `RecordedCover`, that a row is reset only for a recorded payment.
  `SettledWhenIdleHolds` strengthens the equality of the idle service to `SettledSoFar`,
  which adds what is on its way between the sending and the reset.
  `BalancesNonNegativeHolds` needs that no award is negative (`RewardsNonNegative`: fee by
  fee, what remains of a reward is at least the share of it the fees leave).
  `CreditedWithinRewardsHolds` needs `AwardsAddUp` (while the shares are visited, awards
  and rest, or scores and their total, go together) and `CreditsWithin`, which adds what
  of the current block's reward is still to be credited to what has been.
* `Sums_proofs`. The lemmas about sums over finite sets the books and the statistics
  need. The library's induction takes an operator as a parameter; `SubsetInduction` takes
  a set of good subsets instead, which the provers can instantiate.
* `ShareBuffer_proofs`. `Typing`, `NoShareLostHolds`, `StoredOncePerFaultHolds`,
  `OpenPerFaultHolds`. The bound on stored copies is not inductive: `CopyBound` counts
  the copy in memory with those in the table, and keeps buffer and batch disjoint.
* `Failover_proofs`. `Typing` (the index never leaves the list). `OffPrimaryWatched` and
  `FailedSearchComplete` rest on `SearchOnCourse`: until a restore cuts in, the nodes
  asked are those between the search's start and the active index. Both leave out a chain
  for ever once a restore has cut into a search of it.
* `Work_proofs`. `Typing`, `JobIDsTell`, `JudgedByNewer`. The first needs that IDs of
  issued works lie below the counter (`IDsBelowCounter`) and that the work in the
  making has a new one (`JobIsNew`); the last that no work is of a template that the
  nodes have not made yet (`NoneFromFuture`).
* `Stratum_proofs`. `Typing`, `ProperServed`. It needs that an entry under a proper
  key is its owner's (`KeysOwned`) and that a connection not accepted yet is nowhere
  (`UnbornOut`). `BroadcastReaches` rests on `Reaching`: during the range, a client that
  was waiting for work when it began has got the work or is still to come; clients that
  changed their key, or logged in without one, are left out. `LimitHolds`
  rests on `CountRight`: as long as no update is lost, the counter is the number of
  connections not given back yet, less the one the listener has accepted and not counted.
* `Reporting_proofs`. All six invariants of the run. `RateNotInflatedHolds` rests on
  `IStats`: the first and the last moment a pass has read of a worker are in its window,
  and no row is from the future. The window before the floor is never less than the span
  of the shares, and the floor takes less than a second off (`LessThanASecond`).
  `BalanceServed` says from when on, and why, the balance
  of an answer is justified (`ShownBalanceRealHolds`); `StatsMet`, that a first report
  which met shares and no failure met a row, and the second meets it again
  (`PanicExplainedHolds`); `PassInserts`, that a pass without a failure has left a row for
  every worker it is done with (`PartialRateExplainedHolds`); `HistoryRead`, that a
  history read between two passes by a query that did not fail has every row of its hours
  (`HistoryCompleteHolds`).
  `Served` keeps the places of a request apart.
* `Assembly_proofs`. All five invariants of the run. The three recursive definitions are
  recursive functions over 0..n; that such a function exists is proved by a smallest
  counterexample (`UpTo`, from the library's well-founded order), and what it is at each
  place then follows. `RootAbove` says that joining a row keeps the root, `RoundIsAbove`
  that a round of `templateMerkleBranchSteps`, which leaves the coinbase out, is a row of
  the tree which has it; with them `Levels` is inductive and gives `MerkleRootKeptHolds`.
  `Typing` has the loop's bound on steps. `VarUintReadable` and `HeightBytesRead` say of
  the encodings what `CountReadableHolds`, `ScriptLengthRightHolds` and
  `HeightReadableHolds` need, and `Scripted` that the script is the one of the template.

Two of these have a premise. `BalancesNonNegativeHolds` and `CreditedWithinRewardsHolds`
assume `FeesWithinReward`, that the percentages of a chain's recipients add up to 100 at
the most. The code takes them from the configuration and does not check this
(`payouts/rewards.go:30-31`): a configuration that breaks it makes the rest of a reward,
and so balances, negative. `MCPayouts` states it as an ASSUME of its instance. The theorems
of the payouts further assume that the accounts and the blocks are finite sets, those of
the assembly the bounds `MaxHeight` and `MaxValue`.

Only model-checked: the liveness properties (`DecidedIsSaved`, `BalancePaidOut`,
`LoopReturnsToPrimary`, `FailedIsUncounted`, `SubmissionEnds`, `FlushedEventually`), since
fairness is out of the prover's reach; and the four runs that expect a violation, each of
which is a counterexample. `TypeOK` of `Work`, `Stratum` and `ShareBuffer` is proved, and
not repeated in their runs.

## 5. Not modelled

* Configuration parsing: its values are the constants.
* Hash functions, address patterns and 256-bit targets of the coins: arithmetic out of
  TLC's integers, opaque to the control.
* Share weighing (`pool/shares.go`) and the merged-mining proof (`bitcoin/auxpow.go`):
  nothing calls them at this commit.
* The ZeroMQ transport: a missed notification (`pool/nodes.go:91`) is only logged, and
  miners stay on old work until the next.
* List queries of `persistence/` that no handler calls, the list of recent blocks, units
  of hashrates (`api/hashrate.go`), shares per second (which `stats.go:124` divides by
  nanoseconds) and the effort of a block (`unlock.go:117` keeps `from` of the block before
  when `BlockBefore` finds nothing): shown only, no decision depends on them.
* `adjustHashWindow` adds the time after the last share to the window, where the picture
  in `persistence/README.md` leaves it out; the model does as the code does, and
  `RateNotInflated` bounds the window from below only.
* `varUint` panics with "Too large to stream" for 253, which is in none of its branches
  (`encoding.go:21`). The blocks and the submissions this loses end in the stage `panic` of
  the model, and `CountReadable` says that there are no others.
* A lost increment of `jobCounter` gives two works one job ID, and a share of the older
  passes the stale-job check: `JobIDsTellUnlessTorn` states what holds without one.

## 6. Plan

Done, in this order: payouts, failover, stratum sessions and connections, work, block
assembly, the account book and its refinement, the share buffer, statistics and
dashboards, each with its runs and the theorems of its safety properties. Next:

1. The extranonces of a job and of a submitted share: what the miner hashed against
   what `receiveWorkFromClient` rebuilds.
2. Forced and submitted work, which declare another script length than the fetch: what
   of it a node would accept.
3. Payments made again after a lost reply of `sendmany`: how many there can be per fault.
