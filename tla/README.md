# Verification of the ArenaX backend

TLA+ specifications of the backend, the TLC runs that check them on small
instances, and TLAPS proofs of theorems that hold for instances of every size.
The models are written from the TypeScript sources and `prisma/schema.prisma`;
where a document and the code differ the code is what is modelled, and the
difference is listed below.

    tlc -config rewards_crashes.cfg MCRewardPipeline      # a run
    tlapm RewardPipelineProofs.tla                        # the proofs of a module

## 1. The system

One Node.js process (several may run side by side) serves HTTP, runs cron jobs
and works the reward queue. Everything it keeps is in PostgreSQL (through
Prisma) and Redis, so two requests, two cron passes or two processes interleave
at every `await`. Nothing is locked in memory; safety rests on conditional
updates, unique columns, transactions and one Redis lock.

| Component (source under `src/src`) | State | Operations | Hard behaviour | What makes it correct |
|---|---|---|---|---|
| Reward pipeline: `modules/rewards`, `lib/queue.ts`, `utils/backoff.ts` | `Reward`, `Asset`, `AssetTransfer`, `Notification` rows; BullMQ jobs and their locks | `enqueueReward`, `processReward`, `retryReward`, `retryAllFailedRewards`, `dispatchPendingRewards` | duplicate and stalled jobs, crashes between two statements, retries that race | a reward is credited once, gets to a terminal status, stays there |
| Tournament lifecycle: `tournaments/tournament.service.ts` | `Tournament`, `TournamentPlayer`, prize `Reward` rows | create, edit, cancel, join, leave, start, complete | a check and its write are different statements; scores move while ranks are computed | paid once; ranks, winner and prizes agree |
| Tournament scheduler: `jobs/tournament.scheduler.ts`, `acquireLock`/`releaseLock` of `lib/redis.ts` | `lock:tournament-scheduler`, 20 s | a pass every 30 s per process | the lock lapses under a long pass; a pass dies or throws | one pass at a time; what is due gets started and completed |
| Matchmaking: `tournaments/matchmaking.service.ts` | the list `matchmaking:queue:<id>`, `Match` rows, scores | join queue, pair, report result; the watchdog | requests pair from the same head of the list; two writers finish a match | nobody meets themselves, no pair is left waiting, standings match results |
| Marketplace: `modules/marketplace` | `Asset.ownerId`, `Listing` (one row per asset), `Transaction`, `AssetTransfer` | list, cancel, purchase with an idempotency key | what was read before a transaction is used in it; keys are sent again | one sale per listing, ownership moves only with its record |
| Notifications: `modules/notifications` | `Notification` rows | create, list, mark as read | written after the transaction they tell of | true when written |
| Auth and sessions: `modules/auth` | challenge nonces in Redis, `AuthSession` rows | challenge, login, refresh, logout | nonce read and deleted in two steps; session cap counted after the insert | a nonce gives one session, the cap holds and takes the oldest |
| Read-through caches: `lib/cache.ts`, as `getTournament`, `getListings` and `getTop` use it | Redis keys with a TTL | get, set, delete by pattern | a fill overtaken by an invalidation; an answer put together from several statements; writes that invalidate nothing | stale only while a deletion is due, else for no longer than the TTL |
| Leaderboards: `modules/leaderboard`, `jobs/leaderboard.reset.ts` | a sorted set per period, `lock:leaderboard-reset` (60 s), `LeaderboardEntry` rows | addPoints, a pass at midnight per process | points that land on a day that is over; a pass that outlives its lock, dies or fails | what is persisted is what was earned, is not taken back, gets persisted |
| Rate limiter: `middlewares/rateLimit.ts` | a counter per client | INCR, EXPIRE | the second call fails, the first is sent twice | the limit holds in a window; clients are let in again |
| Users: `modules/users` | `User` rows | profile reads and one update | the old name stays in cached answers | stale for no longer than the TTL |
| Sockets, HTTP plumbing, configuration | - | - | - | - |

How they interact. The scheduler calls `startTournament` and
`completeTournament`; the latter writes `Reward` rows for the pipeline and closes
the open matches; matchmaking writes the scores the completion ranks; the reward
worker and a purchase write notifications; `server.ts` starts the worker (whose
start runs the recovery scan), then the cron jobs, then HTTP. Tournaments,
marketplace and leaderboards share the cache, and at midnight every process asks
for the lock of the daily reset.

Some facts of the code that shape the models:

- `req.userRole` is never set, so no HTTP caller passes a role check
  (`ActorRoles = {}`); the service functions are modelled with the roles they
  test, and runs choose whether an administrator exists.
- `enqueueReward` has no caller in the repository. It is modelled as the
  interface of the pipeline; the only rewards the code itself creates are prizes.
- `FAILED` is read in several places and written by no statement that is ever
  reached (`Fault`, section 5); retries are reachable only from a row an operator
  set to `FAILED` (`BootStatuses`). In the same way no code sets a match to
  `IN_PROGRESS`.
- `verifyEd25519Signature` hands the raw 32 bytes of the key to `crypto.verify`
  (`wallet.ts:38`), which takes a buffer for PEM and throws, so that no login passes
  `auth.service.ts:102` as the code stands (`tests/wallet.test.ts:45` expects `true`).
  `AuthSessions` lets logins with a good signature through: it says what holds of
  sessions once the key is wrapped, and of less than that today.
- A draft cannot become `OPEN` again.
- The schema gives `Transaction.idempotencyKey` a unique index; the only
  migration lacks the column. The models follow the schema.

## 2. Modules

| Module | Models | Theorems |
|---|---|---|
| `RewardPipeline` | rows, queue, worker slots, service calls, boot and death of processes | |
| `RewardLedger` | what the pipeline promises of a reward: owed, claimed, credited, settled, in that order; credits are counted, one by this path and one for each retry | |
| `RewardPipelineProofs` | | 9 |
| `TournamentLifecycle` | service calls and scheduler passes under the lock | |
| `TournamentLedger` | what the lifecycle promises of a tournament: its outcome is decided once, in one step | |
| `TournamentLifecycleProofs` | | 6 |
| `Marketplace` | listing, cancelling, purchase | |
| `AssetLedger` | what the marketplace promises: an asset changes hands in one step, with a sale that stays | |
| `MarketplaceProofs` | | 6 |
| `Matchmaking` | the queue and matches of one tournament | |
| `MatchmakingProofs` | | 4 |
| `AuthSessions` | challenge nonces, logins, the session cap, logout | |
| `AuthSessionsProofs` | | 5 |
| `ReadCache` | readers that fill the cache, writers that invalidate it, for its three users together | |
| `ReadCacheProofs` | | 2 |
| `Leaderboard` | the daily boards, the passes at midnight under their lock, the rows; the weekly labels | |
| `LeaderboardProofs` | | 6 |
| `RateLimit` | the counter of one client | |
| `RateLimitProofs` | | 2 |
| `MC...` | instances for TLC, and statements of the repository the code does not keep | |

In all of them a step is what happens between two awaits. A handler that reads
and later writes is a process with a program counter (`call[c]`, `run[s]`,
`pass[p]`), which remembers what it has read; a conditional `updateMany` or a
transaction is one step. A failing call is a step that jumps to what the code
does in its `catch`; a death removes the process's program counters and leaves the
rows, jobs and locks.

### RewardPipeline

`status`, `attemptCount`, `minted` and `notified` are the rows; `job[<<r, n>>]` is
BullMQ's record of a job (`n = 0` for the jobId `r`, `n > 0` for retry jobs told
apart by `Date.now()`), `run[s]` an execution of `processReward`, `call[c]` a service
call, `boot[i]` a process. `Claim` is the conditional update of
`reward.worker.ts:54`, the early return included; `CallProvider`, `MintAsset`,
`RecordTransfer`, `Settle` and `Notify` follow the worker. `Fault` says what the
`catch` block does: it reads `job.opts.attempts` of the job's *data*, which is all
`createRewardWorker` passes on, and throws before its update. `RecordTransfer`
always fails: it names the token id where the foreign key wants the id of the
asset. `RetryRead`, `RetryUpdate` and `AddCallJob` are the two retry functions;
`Scan` and `Dispatch` the recovery. BullMQ is modelled from how the code uses it:
`add` with a known jobId does nothing; an outcome is taken only from the holder of
the lock; a first stall puts a job back and a second one fails it; finished jobs
are evicted. `paid[r]` counts the credits of the provider and `resets[r]` the
retries that reset the row; both are history. `Ledger` hands both to `RewardLedger`
as they are, beside the place of the reward on its path (`PhaseOf`), so that a
second credit is a step of the ledger, and one it does not have.

### TournamentLifecycle

`JoinRead`/`JoinWrite`, `LeaveRead`/`LeaveWrite` and `EditRead`/`EditWrite` are the
handlers that check first and write later; `Cancel` is one conditional update.
`Acquire`, `FindOpen`, `Start`, `Mark`, `TellStart`, `FindStarted`, `ReadResults`,
`Commit`, `TellEnd` and `Release` are a pass; `Throw` its `catch` and `finally`.
`time[t]` has the three values the searches tell apart. `WinMatch` stands for
matchmaking. Redis expires the lock in `LockExpires`, under a running pass no
more than `MaxLapses` times; `lapses` counts these, and `lapsed` says that there was
one. `Ledger` maps this to
`TournamentLedger`: its `void` is `lapsed`.

### Marketplace

`listing[a]` is the one row an asset has, `sale[k]` the `Transaction` with key `k`.
`ListAsset`, `ListCheck`, `ListWrite`; `CancelListing`, `CancelWrite`;
`PurchaseListing`, `BuyRead`, `BuyClaim`, `BuyTell` are the awaits of the three
functions. `BuyClaim` is the whole transaction: a claim that matches no row, or a
key that exists, rolls everything back. `held` (who ever owned an asset) and
`overlapped` (assets sold while somebody was listing them) are history.

### Matchmaking

`Enqueue`, `RemoveSelf`, `Push` are `enqueueForMatchmaking`; `Peek`, `CheckA`,
`CheckB`, `Drop`, `TakeA`, `TakeB`, `Pair` the loop of `processMatchmaking` that the
same request goes on with; `ReadMatch`, `WriteResult`, `CountResult`, `Award` are
`reportMatchResult`; `WatchFind`, `WatchWrite` the watchdog; `Complete` what the
completion of the tournament does to matches. `doubled` and `contested` remember
the two races the properties make an exception for. `Without` is `LREM` with a count
of 0: the list without any occurrence of a user.

### AuthSessions

`challenge[w]` is the Redis key of a wallet, `issued` the nonces handed out;
`made`, `user`, `nonce`, `ended` are the `AuthSession` rows, numbered in the order of
`createdAt` (the database engine stamps a row with its insert; two inserts within
one millisecond count as ordered). `ended` keeps who set `revokedAt` first.
`LoginRead`, `LoginConsume`, `LoginCreate` are `walletLogin` up to the insert of
`createSession`, `LoginCount`, `LoginFind`, `LoginRevoke` the cap; a request whose
nonce or signature is wrong changes nothing. `nonce` (which challenge a session
came from), `raced`, `crossed` and `left` are history. Expiry of sessions has no
effect on any of this: the cap counts rows by `revokedAt` alone.

### ReadCache

A table's content is its `version`, and an answer (`cache[k]`, `reader[r].seen`) is
the version each of its statements saw: one row for a tournament, items and total
for a page of listings (in either order, `Promise.all`), entries and then names
for a top. `GetMiss`, `ReadTournament`, `ReadListings`, `ReadTop`, `Fill` are a
reading request; a hit does nothing. `WriteTournament`, `WriteListings`, `AddPoints`
are the writes that invalidate; `FindKeys` is the `KEYS` and `DeleteKeys` the `DEL`
of `cacheDeletePattern`, two calls. `SilentWrite` stands for `cancelTournament`,
`joinTournament`, `leaveTournament` and the writes of `reportMatchResult` to the
players, which delete nothing, and `UpdateProfile`
for a change of a name, which is part of the answers of every table. A key's
`expiring` is the EX of the fill. `left` is history: keys whose content no
invalidation will look for any more.

### Leaderboard

`board[d]` is the sorted set of day `d`, `row[d]` its `LeaderboardEntry` rows, with the
points and the rank that were written. `AddPoints` takes the day from the clock and
`Increment` is the `ZINCRBY`, an await later. `Midnight` is cron in every process,
`Acquire`, `Count`, `ReadTop`, `Persist`, `Release` are `rollOverDailyLeaderboard` with
`persistPeriod`; `PassFault` is its `catch` and `finally`, `PassCrash` the death of a
process (or a failing call on the lock, outside the `try`), `LockExpires` the time
to live, under a running pass only if `Overruns`. A pass takes the day it persists
from the clock; passes and locks are over well before the next midnight, so that
this is the day before. `Top` is `ZREVRANGE` with Redis' order of equal scores.
`Week` is the label of `periodKeyForDate(_, 'weekly')`. Points are given one at a
time; `addPoints` writes the weekly board in the same way, but nothing persists it.

### RateLimit

`current` is the key, `ttl` whether it has a time to live. `Incr` is the first call;
only the request that got 1 goes on to `SetExpiry`. `IncrLost` is an `INCR` carried
out whose answer is lost: the client of Redis repeats it or gives up, and then the
middleware lets the request through. `ExpiryLost` is a failing `EXPIRE` or the death
of the process. `admitted` counts the requests of a window let through by their
count, not those let through by the `catch`.

## 3. Runs

| Run | Instance | Shows |
|---|---|---|
| `rewards_crashes` | two processes with a slot each, a bonus and a prize, one death, locks that lapse | implements `RewardLedger`, which without retries credits once; a bonus is claimed and settled in the end |
| `rewards_retries` | a bonus and an NFT reward, two overlapping retries, one failing call, lapsing locks, one remembered job | all safety properties of the pipeline, and `RewardLedger` with retries |
| `rewards_crash_recovery` | one bonus, one death, real limits | **violated**: an interrupted reward is never settled |
| `tournaments` | one tournament, two players, three passes, two calls, an administrator, one edit, one death, one lapse of the lock | one pass and one payment while no lock lapses; a lapse lets in one pass more, not two; results agree; implements `TournamentLedger` |
| `tournaments_due` | two tournaments in one batch, a death and a failing call | what is due is started and completed in the end |
| `tournaments_prizes_twice` | one player, two passes, one lapse of the lock | **violated**: prizes are paid twice |
| `market` | three users, one asset, two keys, three calls, three listings, one failing call | all safety properties, implements `AssetLedger` |
| `matches` | two players who may leave late, two calls, two joins, a match left `IN_PROGRESS`, one failing call | no self-match, no pair left waiting, standings agree |
| `sessions` | two wallets, two logins at a time, four sessions, a cap of one, three challenges, one failing call | a nonce gives one session, the cap holds, takes the oldest and never the session just made |
| `caches` | a tournament, two pages of listings and a top, one reader, two writers, two writes of any kind, one failing call | stale answers only where the code leaves them, and they end |
| `leaderboard` | two players, three days, two passes, two points, a top of one, one death or failing call, lapsing lock | rows are the board, are not taken back, get written |
| `ratelimit` | three requests at a time, a limit of two, two calls lost or sent twice, six requests counted | the limit holds, a client at its limit is let in again |

Every property of a passing run has a mutant, an operator next to the definition
it changes (`ClaimProcessing`, `CommitStarted`, `BuyUnclaimed`, ...), with which TLC
finds the property violated.

**Bounds.** Two slots, calls or passes are enough for every race between a read
and a write of another actor; a third call is there in `market` because listing,
buying and cancelling meet on one row. Two rewards, so that the limits that
count rows (`DispatchLimit`, `KeepFinished`, `RetryLimit`) can bite. `MaxRetries = 2`:
two retries of one reward. `MaxJoins = 2`: a pair, or one player twice.
`MaxListed = 3`: an asset is sold and put up again twice. `MaxCrashes` and
`MaxFaults` bound deaths and failing calls; `MaxScore = 1` and `MaxEdits = 1` bound
what the environment does. `MaxLapses = 1` lets two passes overlap; the
third pass in `tournaments` is there for the lock that a pass deletes although it
is its successor's. `BatchLimit = 2` in `tournaments_due`
puts both tournaments into one batch, so that the failure of the first ends the
pass for the second. `MaxSessionsPerUser = 1` stands for ten: with four logins
the cap is reached, exceeded by overlapping ones and enforced again.
`MaxChallenges = 3`: a nonce is replaced, and asked for again. In `caches` two
writes are enough for a fill to be overtaken and for a page from two versions,
two writers for one's `DEL` to hit what was stored after the other's, and two pages
for a pattern to match several keys. In `leaderboard`, `TopN = 1` with two players
lets an entry be pushed out of the top; `MaxDay = 3` has two midnights, so that late
points land on a day that was persisted while another goes on. `MaxCount = 6` in
`ratelimit` is the limit and four more. `MaxAttempts = 2` where a retry of the queue matters.
The theorems do not depend on any of these.

**Deadlock** is not checked: with bounded calls a run may be over, and an idle
backend has nothing to do.

**Symmetry** is used for interchangeable users, calls, slots, passes, keys; never
with a liveness property.

**Fairness.** `RewardPipeline!Fairness`: the worker polls, the queue hands over
delayed and stalled jobs, calls in flight go on, a dead process is restarted.
`TournamentLifecycle!Fairness`: cron fires every 30 s for ever, a pass that runs
goes on, Redis expires keys. `ReadCache!Fairness` and `RateLimit!Fairness`: requests
in flight go on, Redis expires keys that have a time to live.
`Leaderboard!Fairness`: a pass goes on, Redis expires the lock; midnight needs no
fairness, as the property speaks of days that are over.
Nobody has to make a call and nothing has to fail. All of it is weak fairness of
one actor; only `Acquire` is fair for the passes together, because whichever
process is first gets the lock.

**Exceptions named by the properties.** A property that holds "unless" says so by a
history variable, and the exception is the code's: `retried` (a retry resets a row
without looking), `lapsed` (the lock's time to live), `doubled` (one player in two
overlapping joins), `contested` (two writers finished a match), `overlapped`,
`raced` (two logins found one nonce before either deleted it), `crossed` (logins of
one user overlap between insert and revocation, or one fails there), `left` (in
`AuthSessions` a logout under a login; in `ReadCache` an answer that nothing but its
time to live will remove: an invalidation had overtaken its fill, failed, or was
never made), `late` (points that land on a board after a pass has looked at it),
`lapsed` in `Leaderboard` (the pass of a day outlived its lock), `lost` (the pass
that had the lock, or the last to ask for it, died or failed), `orphaned` (a
counter whose `EXPIRE` was lost). `CapUnlessCrossed` drops a user for good after one crossing,
and has to: a later login revokes one session, so the excess stays.
`BonusEventuallyClaimed` excepts a job that stalled twice: BullMQ fails it, its
record stays, and the recovery scan skips a reward whose job has a record. It
also needs `DispatchLimit` to be at least the number of unsettled rows: the scan
takes its rows in no order, and rows it cannot help fill the limit.

## 4. Theorems

Proved with tlapm for every value of the constants that satisfies the module's
assumption (named `...Assumption`; it says that bounds are naturals, that `None`
is no member of a set, that prizes are rewards, and, where the code counts or
ranks them, that users and players are finitely many). Facts about finite sets
come from the library's `FiniteSetTheorems`. Every invariant and every action
property of the passing runs is a theorem, and so are the refinements.

`RewardPipelineProofs`. `TypeCorrect`. Then `Custody` is inductive: the slot that
made the claim is alone in its reward (`OneHolder`), the row says `PROCESSING`, or
`SUCCEEDED` from `Settle` on (`HolderStatus`), the provider has credited exactly
from `CallProvider` on (`HolderPaid`), an unclaimed row is unpaid
(`UnclaimedUnpaid`), and no retried row is `FAILED` again. `PaidOnceUnlessRetried`
alone is not inductive: it does not say that two slots cannot both stand before
the provider. From it follow `PaidOnce`, `SucceededPaid`, `NoticeTrue`, `Terminal`
and `Refinement` (the pipeline implements `RewardLedger`), whatever the number of
processes, jobs, crashes and stalls. `LedgerPromise` says what this is worth:
the ledger, which counts credits, has exactly one of a reward nobody retried from
`Credit` on, and never more than one more than its retries. `OneCreditPerRelease`
counts the slots between claim and provider (`Owing`): their credits and those made
are covered by the attempts of the row (`Covered`), and the attempts, with the one
that a `PENDING` row still has before it, by its creation and its resets
(`ReleasesInv`). That the slots are finitely many is part of the invariant
rather than an assumption on the slots, since a claim adds one at a time.
`Remembered` is what of `BonusEventuallyClaimed` is not about fairness: no step
leaves a waiting bonus without somebody who will bring it to a worker (`Tended`),
but for three kinds of step that `Excused` names. It needs that only rewards with a
row are worked on (`OnlyKnown`) and that a job is completed only once its reward is
claimed (`CompletedClaimed`); otherwise `Dispatch` could run into the record of a
job that had done nothing.

`TournamentLifecycleProofs`. `Mutex`: until a lock lapses, a pass that runs is
the one in `lock`, so `Release` cannot delete another's. `PrizedOnce` adds
`UnpaidUntilCommit`: a tournament that can still be started or completed, or that
a pass is about to write, has paid nothing. The second half is what makes it
inductive: the writes of `Mark` and `Commit` do not look at the status.
`Overlaps` goes on where `Mutex` ends: the passes that run are at most the lapses
and one more (`OverlapInv`). It counts one place more while the lock is free, or is that of a pass that
has died (`Vacancy`): `Acquire` takes this place, and a `Release` that deletes the
lock of another pass gives one place back, its own.
`ResultsSound` (`ResultsAgree`, the `WrittenInv` part) needs more of a pass about to
commit: the ranks it has given are positive and all different, the prizes go to
ranks 1 to 4 and one of them to a first (`FitUntilCommit`), and no rank and no
winner has been written yet (`UnwrittenUntilCommit`). That somebody is first is a
pigeonhole argument about `n` players and `n` ranks (`SomebodyFirst`).
`Refinement`: the lifecycle implements `TournamentLedger`; a `Commit` decides, and
every other step leaves winner and prizes alone while no lock has lapsed.

`MarketplaceProofs`. `SellersSound`: sellers owned what they sold, active offers are
the owner's unless the asset was sold under a listing call, nobody buys from
themselves; inductive with what the calls in flight remember (`SellerInv`,
`HeldInv`, `OfferInv`). `SoldOnce`: an asset is sold at most as often as it was put
up, counting the active listing. `Final`: a recorded sale never changes.
`Refinement`: the marketplace implements `AssetLedger`.

`MatchmakingProofs`. `NobodyMatchedAlone`: what a request has read of the list is
two different users (`ApartInv`). While no player is in two overlapping joins
(`doubled`), everybody stands in the list at most once, and not at all between
`RemoveSelf` and `Push`; a request that looks at a stale pair still looks at two
different people. `WaitingServed`: unless a call failed, a pair stays in the list
only while some request still has its loop to go through; this is inductive with
the types alone. `StandingsSound`: while no match is `contested` by two reports, a
score is at most the number of finished matches won, and whoever is eliminated has
lost one (`Standing`). It needs that no two requests report the same match
(`OneReporter`), and that a request that counts finds in the row the winner it
wrote (`Written`).

`AuthSessionsProofs`. `NonceOnce`: a nonce that is not raced for is held by one login
and not yet spent, or spent once (`OneHolder`, `HeldUnspent`); what makes this
inductive is that a nonce stands in one key, its wallet's, and in none once a
login has deleted it (`OneKey`, `HeldKey`, `SpentKey`). `OldestFirst`: what a login has
found to be the oldest open session still has no older open one when it is
revoked (`FoundOldest`), since sessions never open again and new ones are younger.
`CapHolds` and `OwnSession` share `SessionInv`: while the logins of a user do not
cross, one of them alone is between its insert and its revocation, so the open
sessions it has counted are the open sessions, one more than the cap at most, and
its own session is the youngest of them.

`ReadCacheProofs`. `Fresh` is inductive with what it says of the readers: one that
holds something older than its table has either been passed by an invalidation,
and then its fill will be in `left`, or some writer has yet to list the keys and
will find what it fills. `TypeCorrect` has a conjunct that counts: an answer that
is stored has come from all its statements.

`LeaderboardProofs`. `Rows`: days with rows, and days a pass has read, have been looked
at (`Seen`), so that points added to them are late; what a pass has read of a day
without late points is still the top of its board (`ReadIsTop`). Without these the
property is not inductive: it does not speak of what a pass is about to write.
`Points`: rows and readings are at most the board (`AtMostBoard`); while no lock of
the day has lapsed the pass that goes on has it (`LockHeld`), so there is only one
and nothing is written between its reading and its writing (`ReadIsNewest`).
`NoDayForgotten` is what of `EndedDayPersisted` is not about fairness: a day that is
over is settled or still worked on. The passes that go home count on the one that
has the lock, so the invariant follows the lock: whoever has it works, or leaves
its day settled, also when it is dead (`LockOwes`); and a pass that found points has
something to write (`PassOwes`), as the top of a board with points is not empty
(`TopSomebody`, by the smallest set of better players). It supposes that there is a
process at all, since cron runs in one.
`WeekOfMonth` and `WeekReturns` are about the labels of the weekly boards: within a
month they change exactly where a Sunday begins, and every month begins with 1.

`RateLimitProofs`. `LimitHolds`: while the first request of a window waits for its
`EXPIRE` its place is kept, since `current` counts it and all others are decided by
what `INCR` returned them. `OnlyLossLocksOut`: a counter without a time to live has a
request on its way to `EXPIRE`, or a call was lost: what of `LockoutEnds` is not
about fairness.

Only model-checked is liveness: `BonusEventuallyClaimed`, `BonusEventuallySettled`,
`DueEventuallyStarted`, `DueEventuallyCompleted`, `EventuallyFresh`,
`EndedDayPersisted`, `LockoutEnds`. TLAPS proves neither liveness under fairness nor
facts about `ENABLED`; `Remembered`, `Fresh`, `NoDayForgotten` and `OnlyLossLocksOut` are
the part of four of them that no fairness is needed for. `NoSelfSale` and
`SaleIsFinal` of `Marketplace` are proved and not run, as `AssetLedger` implies the
second and `SellersSound` states the first; nor is `TerminalUnlessRetried` of
`RewardPipeline` (`Terminal`), which `RewardLedger` implies of a reward nobody retried. The invariants of these proofs were
model-checked on the runs' instances before they were proved.

## 5. What the repository says and the code does not do

Each of these two is a violation run.

| Run | Statement | What happens |
|---|---|---|
| `rewards_crash_recovery` | `reward.service.ts:112` "Crash recovery: re-queue any reward that was left in a non-terminal state" | the scan finds the record of the job and adds nothing (`reward.service.ts:200`); the stalled check puts the job back; the claim wants `PENDING` and drops it |
| `tournaments_prizes_twice` | `README.md:81` completion "under a Redis distributed lock" | a pass longer than 20 s shares its tournaments with the next |

The models admit the following too. They need one or two steps, are visible in
the definition named, and no run is spent on them.

- Prizes are distributed "via the reward queue" (`README.md:83`): `CreatePrize`
  writes rows without jobs; nothing processes them before the next boot.
- The status flow "SUCCEEDED or FAILED" (`docs/API.md:135`): the `catch` block of the
  worker throws before it writes `FAILED` (`Fault`), and the reward stays in
  `PROCESSING`.
- An NFT reward never leaves `PROCESSING` (`RecordTransfer`).
- "Only failed rewards can be retried" (`reward.service.ts:83`): `RetryUpdate`
  resets a reward that another retry has put into processing, or that was paid
  meanwhile, and it is paid again; `CreditPerRelease` bounds this to once per reset.
- `startTournament`, `completeTournament`, edits, leaves and `cancelListing` write
  by id after a check: a cancelled tournament is started (`Mark`) or completed and
  paid (`Commit`), a completed one turned `CANCELLED` (`EditWrite`), a `SOLD` listing `CANCELLED`
  (`CancelWrite`). Leaving is "Withdraw (while OPEN)" (`docs/API.md:98`), and a player
  of a started tournament is deleted (`LeaveWrite`).
- A registration is refused when "Not open or full" (`src/docs/openapi.ts:235`), and
  two joins that count the same last place both get it (`JoinRead`, `JoinWrite`).
- "Atomic purchase transaction" (`README.md:91`): price and seller are read before it
  (`BuyRead`), so that a sale can record the price of an earlier listing (`BuyClaim`).
- A listing can be offered by somebody who sold the asset meanwhile (`ListWrite`);
  the repeat of a purchase under way is refused, not answered (`BuyRead`); a seller
  whose notification failed is never told (`Fault` in `buyTell`).
- A match nobody reports stays `PENDING` (`WatchFind`); a result whose transaction
  failed is never counted (`Fault` in `count`); leaderboard points are never
  awarded, as the function imported does not exist (`Award`).
- "Match result has already been reported" (`matchmaking.service.ts:89`): of two
  reports that both read an open match the second replaces the winner, since
  `WriteResult` names only the id, and both count.
- A nonce is "single use" (`README.md:78`): two logins that both read it before
  either deletes it get a session each (`LoginRead`). The deletion may also hit the
  nonce of a newer challenge (`LoginConsume`).
- Sessions are "rotated on use" (`README.md:80`): `refreshSession` first verifies its
  argument as a JWT (`auth.service.ts:127`), but a refresh token is 48 random bytes
  (`auth.service.ts:48`), so every call is refused and there is no action for it;
  `revokeUserSessions` is never reached either.
- Logins that overlap revoke the same oldest session, and the user keeps more than
  ten (`LoginFind`, `LoginRevoke`).
- Wallet addresses are lower-cased before they are validated
  (`auth.service.ts:77`, `wallet.ts:12`), so that an address with an `L` is refused;
  the format is not in the model.
- Cached answers: a fill overtaken by an invalidation, and a page put together from
  two versions, stay until their time to live (`Fill`); cancelling, joining and
  leaving a tournament and renaming a user invalidate nothing (`SilentWrite`,
  `UpdateProfile`).
- "Daily reset (00:00 UTC) persists the top 100" (`README.md:89`): nothing is reset, as
  no code deletes a board or gives it a time to live, although the job logs
  "persisted and reset" (`leaderboard.reset.ts:28`). If the pass that got the lock
  dies or fails, the others have gone home and the day is never persisted
  (`Acquire`, `Lose`). Points that come in late are on the board but not in the rows,
  and if a second pass writes them, a player pushed out of the top keeps the old
  row: two players have the same rank (`Persist`). Weekly boards are never persisted.
- Weekly labels are called "ISO-like" (`tests/leaderboard.test.ts:16`): they are weeks
  of the month under the year alone, so that the first weeks of January and of
  February share a board (`WeekReturns`).
- The rate limiter lets a request through when Redis fails (`IncrLost`, `ExpiryLost`);
  a counter that lost its `EXPIRE` locks its client out until somebody deletes it.
  The window is a fixed one: around its end a client gets up to twice the limit
  within its length (`WindowEnds`).
- The documented prize split is divided by 100 once too often
  (`tournament.service.ts:245`); amounts are not in the model.

## 6. Not modelled

Signatures, tokens and hashes; formatting, logging, metrics, configuration; socket
pushes (no state of the server depends on them); HTTP plumbing, which is stateless;
read-only functions (`listTournaments`, `getReward`, `getUserInventory`,
`getUserRank`, profiles), except where they fill the cache; reading and marking
notifications, single statements on rows nobody else changes; that user names are
unique, which the database enforces; the graceful shutdown, which is a death at any
point for the models; the `Prisma` client's own retries. Amounts of prizes and the
rounding of shares. `cacheDelete` and `refreshSession` have no effect, the first for
want of a caller. `addPoints` has no working caller, so leaderboards are empty in
operation; the model says what holds once it is called.

## 7. Plan

Every component with state that the code changes concurrently has its module, and
every safety property that is run has its theorem. What is left:

1. Of `DueEventuallyStarted` and `DueEventuallyCompleted`, the part that needs no
   fairness: a tournament that is due stays in the search of every pass until its
   status changes.
2. Tournaments composed with rewards over the `Reward` table, so that a prize is
   followed from the final rank to the credit.
3. `ReadCache` and `Matchmaking` have no abstract specification; the invariants
   stand in for one.
