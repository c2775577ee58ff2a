--------------------------- MODULE RewardPipeline ---------------------------
(***************************************************************************)
(* The reward pipeline: Reward rows in PostgreSQL, their jobs in the       *)
(* BullMQ queue "rewards", the worker that processes the jobs, the service *)
(* functions that create and retry rewards, and the recovery scan that     *)
(* runs when a backend instance boots.                                     *)
(*                                                                         *)
(* Every await of the code is a step of its own: what one call reads may   *)
(* be stale when it writes.  BullMQ and the provider are external and are  *)
(* modelled from how reward.worker.ts and reward.service.ts use them.      *)
(***************************************************************************)
EXTENDS Naturals, FiniteSets

CONSTANTS
    Rewards,        \* identities of Reward rows
    Prizes,         \* those created by completeTournament, without a job
    Nfts,           \* those of type NFT_REWARD
    Instances,      \* backend processes
    Slots,          \* concurrent executions of a worker (queueConcurrency)
    HostOf,         \* the instance whose worker a slot belongs to
    Calls,          \* service calls that may be in flight together
    ActorRoles,     \* roles the callers of retryAllFailedRewards may have
    BootStatuses,   \* statuses the rows may have before the first boot
    MaxAttempts,    \* REWARD_MAX_ATTEMPTS
    DispatchLimit,  \* "take" of the recovery scan
    RetryLimit,     \* "limit" of a bulk retry
    KeepFinished,   \* finished jobs the queue remembers
    MaxRetries,     \* bound: retry calls that find something to retry
    MaxCrashes,     \* bound: instances that stop
    MaxFaults,      \* bound: database or queue calls that fail
    LocksLapse,     \* whether a running job may lose its lock
    None            \* no job, no lock

Jobs == Rewards \X (0 .. MaxRetries)   \* <<r, 0>> has the jobId r

RewardOf(j) == j[1]

MainJob(r) == <<r, 0>>

ASSUME PipelineAssumption ==
    /\ Prizes \subseteq Rewards /\ Nfts \subseteq Rewards
    /\ HostOf \in [Slots -> Instances]
    /\ BootStatuses \subseteq {"NONE", "PENDING", "PROCESSING", "FAILED"}
    /\ {MaxAttempts, DispatchLimit, RetryLimit} \subseteq Nat \ {0}
    /\ {KeepFinished, MaxRetries, MaxCrashes, MaxFaults} \subseteq Nat
    /\ LocksLapse \in BOOLEAN
    /\ None \notin Jobs /\ None \notin Slots

VARIABLES
    status,         \* Reward.status; "NONE" when the row does not exist
    attemptCount,   \* Reward.attemptCount
    minted,         \* rewards whose Asset row exists
    notified,       \* rewards with a REWARD_CLAIMED notification
    job,            \* the queue's record of every job
    run,            \* what each worker slot is executing
    call,           \* the service calls in flight
    boot,           \* the phase of each instance's life
    paid,           \* history: how often the provider credited a reward
    resets,         \* history: how often a retry put it back to PENDING
    spent           \* how much of each bound is used

rows    == <<status, attemptCount, minted, notified>>
history == <<paid, resets>>
vars    == <<rows, job, run, call, boot, history, spent>>

retried == {r \in Rewards : resets[r] > 0}

Statuses  == {"NONE", "PENDING", "PROCESSING", "SUCCEEDED", "FAILED"}
JobStates == {"absent", "waiting", "active", "delayed", "completed", "failed"}

\* Where a slot is inside processReward.  A slot past "claim" holds its reward.
Holding  == {"fetch", "provider", "mint", "transfer", "settle", "notify"}
RunSteps == {"idle", "claim"} \cup Holding

RowTypes ==
    /\ status \in [Rewards -> Statuses]
    /\ attemptCount \in [Rewards -> Nat]
    /\ minted \subseteq Rewards /\ notified \subseteq Rewards
JobType ==
    job \in [Jobs -> [state : JobStates, made : Nat, stalls : Nat,
                      lock : Slots \cup {None}]]
RunType ==
    /\ run \in [Slots -> [pc : RunSteps, job : Jobs \cup {None}]]
    /\ \A s \in Slots : (run[s].job = None) <=> (run[s].pc = "idle")
CallType ==
    call \in [Calls -> [pc : {"idle", "update", "add"}, todo : SUBSET Rewards,
                        at : Instances \cup {None}, retry : BOOLEAN]]
BootType ==
    boot \in [Instances -> [pc : {"down", "scan", "dispatch", "up"},
                            todo : SUBSET Rewards]]
HistoryTypes == paid \in [Rewards -> Nat] /\ resets \in [Rewards -> Nat]
SpentType == spent \in [retries : Nat, crashes : Nat, faults : Nat]

TypeOK ==
    RowTypes /\ JobType /\ RunType /\ CallType /\ BootType /\ HistoryTypes /\ SpentType

NoEntry  == [state |-> "absent", made |-> 0, stalls |-> 0, lock |-> None]
IdleRun  == [pc |-> "idle", job |-> None]
IdleCall == [pc |-> "idle", todo |-> {}, at |-> None, retry |-> FALSE]
Down     == [pc |-> "down", todo |-> {}]

Init ==
    /\ status \in [Rewards -> BootStatuses]
    /\ attemptCount = [r \in Rewards |-> 0]
    /\ minted = {} /\ notified = {}
    /\ job = [j \in Jobs |-> NoEntry]
    /\ run = [s \in Slots |-> IdleRun]
    /\ call = [c \in Calls |-> IdleCall]
    /\ boot = [i \in Instances |-> Down]
    /\ paid = [r \in Rewards |-> 0] /\ resets = [r \in Rewards |-> 0]
    /\ spent = [retries |-> 0, crashes |-> 0, faults |-> 0]

-----------------------------------------------------------------------------
(* The queue, as the code uses it.                                         *)

\* rewardQueue.add: a jobId the queue still knows, whatever its state, makes
\* the call a no-op.
Add(j) ==
    job' = IF job[j].state = "absent"
           THEN [job EXCEPT ![j] = [NoEntry EXCEPT !.state = "waiting"]]
           ELSE job

\* Mutant of Leave: the slot keeps the job it has finished.
LeaveKeepingJob(s, state, made) ==
    LET j == run[s].job IN
    /\ run' = [run EXCEPT ![s].pc = "idle"]
    /\ job' = IF job[j].lock = s
              THEN [job EXCEPT ![j].state = state, ![j].lock = None]
              ELSE job

\* The slot ends its execution.  The queue accepts the outcome only from the
\* slot that still has the lock of the job.
Leave(s, state, made) ==
    LET j == run[s].job IN
    /\ run' = [run EXCEPT ![s] = IdleRun]
    /\ job' = IF job[j].lock = s
              THEN [job EXCEPT ![j].state = state, ![j].made = made,
                               ![j].lock = None]
              ELSE job

Complete(s) == Leave(s, "completed", job[run[s].job].made)

\* processReward rejected: another attempt after a backoff, or none is left.
Reject(s) ==
    LET made == job[run[s].job].made + 1 IN
    Leave(s, IF made < MaxAttempts THEN "delayed" ELSE "failed", made)

TakeJob(s) ==
    /\ boot[HostOf[s]].pc # "down"
    /\ run[s].pc = "idle"
    /\ \E j \in Jobs :
        /\ job[j].state = "waiting"
        /\ job' = [job EXCEPT ![j].state = "active", ![j].lock = s]
        /\ run' = [run EXCEPT ![s] = [pc |-> "claim", job |-> j]]
    /\ UNCHANGED <<rows, call, boot, history, spent>>

BackoffElapsed(j) ==
    /\ job[j].state = "delayed"
    /\ job' = [job EXCEPT ![j].state = "waiting"]
    /\ UNCHANGED <<rows, run, call, boot, history, spent>>

\* A worker finds an active job whose lock was not renewed: its process died,
\* or it is alive and was late (LocksLapse).  The first stall puts the job
\* back, the second one fails it.
Stalled(j) ==
    /\ job[j].state = "active"
    /\ \E i \in Instances : boot[i].pc # "down"
    /\ run[job[j].lock].job = j => LocksLapse
    /\ job' = [job EXCEPT
                ![j].state  = IF job[j].stalls = 0 THEN "waiting" ELSE "failed",
                ![j].stalls = 1, ![j].lock = None]
    /\ UNCHANGED <<rows, run, call, boot, history, spent>>

\* removeOnComplete and removeOnFail of enqueueReward's jobs: the queue forgets
\* a finished job once it remembers KeepFinished others.
Evict(j) ==
    /\ LET finished == {k \in Jobs : job[k].state \in {"completed", "failed"}} IN
       j \in finished /\ Cardinality(finished) > KeepFinished
    /\ job' = [job EXCEPT ![j] = NoEntry]
    /\ UNCHANGED <<rows, run, call, boot, history, spent>>

-----------------------------------------------------------------------------
(* processReward, one await per step.                                      *)

Here(s)     == RewardOf(run[s].job)
GoTo(s, pc) == run' = [run EXCEPT ![s].pc = pc]

\* The conditional updateMany, and the early return when it matches no row.
ClaimIf(s, claimable) ==
    /\ run[s].pc = "claim"
    /\ IF claimable
       THEN /\ status' = [status EXCEPT ![Here(s)] = "PROCESSING"]
            /\ attemptCount' = [attemptCount EXCEPT ![Here(s)] = @ + 1]
            /\ GoTo(s, "fetch")
            /\ UNCHANGED job
       ELSE /\ Complete(s)
            /\ UNCHANGED <<status, attemptCount>>
    /\ UNCHANGED <<minted, notified, call, boot, history, spent>>

\* Mutants of Claim: a reward left in PROCESSING is claimed again; so is one
\* in a terminal status.
ClaimProcessing(s) == ClaimIf(s, status[Here(s)] \in {"PENDING", "PROCESSING"})
ClaimTerminal(s)   == ClaimIf(s, status[Here(s)] # "PROCESSING")

\* The reward is dropped unless it is PENDING.
Claim(s) == ClaimIf(s, status[Here(s)] = "PENDING")

FetchReward(s) ==
    /\ run[s].pc = "fetch"
    /\ GoTo(s, "provider")
    /\ UNCHANGED <<rows, job, call, boot, history, spent>>

\* Mutants of CallProvider: the provider credits twice, as it may when the call
\* is repeated; the row is settled without waiting for the credit.
CreditTwice(s) ==
    /\ run[s].pc = "provider"
    /\ paid' = [paid EXCEPT ![Here(s)] = @ + 2]
    /\ GoTo(s, IF Here(s) \in Nfts THEN "mint" ELSE "settle")
    /\ UNCHANGED <<rows, job, call, boot, resets, spent>>
SkipProvider(s) ==
    /\ run[s].pc = "provider"
    /\ GoTo(s, "settle")
    /\ UNCHANGED <<rows, job, call, boot, history, spent>>

\* The provider credits the user.  It never rejects.
CallProvider(s) ==
    /\ run[s].pc = "provider"
    /\ paid' = [paid EXCEPT ![Here(s)] = @ + 1]
    /\ GoTo(s, IF Here(s) \in Nfts THEN "mint" ELSE "settle")
    /\ UNCHANGED <<rows, job, call, boot, resets, spent>>

\* asset.create: tokenId is the reward's id, and unique.
MintAsset(s) ==
    /\ run[s].pc = "mint"
    /\ IF Here(s) \in minted
       THEN Reject(s) /\ UNCHANGED minted
       ELSE /\ minted' = minted \cup {Here(s)}
            /\ GoTo(s, "transfer")
            /\ UNCHANGED job
    /\ UNCHANGED <<status, attemptCount, notified, call, boot, history, spent>>

\* assetTransfer.create names the tokenId where the foreign key wants the id
\* of the Asset row, a fresh cuid: the insert is always refused.
RecordTransfer(s) ==
    /\ run[s].pc = "transfer"
    /\ Reject(s)
    /\ UNCHANGED <<rows, call, boot, history, spent>>

\* Mutants of Settle: the update matches the wrong status; it is left out when
\* the queue has given the job to somebody else.
SettleIf(s, settled) ==
    /\ run[s].pc = "settle"
    /\ status' = IF settled THEN [status EXCEPT ![Here(s)] = "SUCCEEDED"] ELSE status
    /\ GoTo(s, "notify")
    /\ UNCHANGED <<attemptCount, minted, notified, job, call, boot, history, spent>>
SettlePending(s) == SettleIf(s, status[Here(s)] = "PENDING")
SettleLocked(s)  == SettleIf(s, job[run[s].job].lock = s)

Settle(s) ==
    /\ run[s].pc = "settle"
    /\ status' = [status EXCEPT ![Here(s)] = "SUCCEEDED"]
    /\ GoTo(s, "notify")
    /\ UNCHANGED <<attemptCount, minted, notified, job, call, boot, history, spent>>

Notify(s) ==
    /\ run[s].pc = "notify"
    /\ notified' = notified \cup {Here(s)}
    /\ Complete(s)
    /\ UNCHANGED <<status, attemptCount, minted, call, boot, history, spent>>

\* A database call of the run fails.  The catch block evaluates
\* job.opts.attempts on the job's data, which has no opts, and throws before
\* its own update: the row keeps its status, and the job is rejected.  A call
\* that committed and lost its answer is this step after the call's own step,
\* but for the last one, whose effect is chosen here.
Fault(s) ==
    /\ spent.faults < MaxFaults
    /\ run[s].pc \in {"claim", "fetch", "mint", "transfer", "settle", "notify"}
    /\ spent' = [spent EXCEPT !.faults = @ + 1]
    /\ \/ UNCHANGED notified
       \/ run[s].pc = "notify" /\ notified' = notified \cup {Here(s)}
    /\ Reject(s)
    /\ UNCHANGED <<status, attemptCount, minted, call, boot, history>>

RunStep(s) ==
    \/ Claim(s) \/ FetchReward(s) \/ CallProvider(s) \/ MintAsset(s)
    \/ RecordTransfer(s) \/ Settle(s) \/ Notify(s)

-----------------------------------------------------------------------------
(* The service calls.                                                      *)

Start(c, i, pc, todo, retry) ==
    /\ boot[i].pc = "up" /\ call[c].pc = "idle"
    /\ call' = [call EXCEPT ![c] = [pc |-> pc, todo |-> todo,
                                    at |-> i, retry |-> retry]]

\* completeTournament creates its prizes as rows only.
CreatePrize(i, r) ==
    /\ boot[i].pc = "up"
    /\ r \in Prizes /\ status[r] = "NONE"
    /\ status' = [status EXCEPT ![r] = "PENDING"]
    /\ UNCHANGED <<attemptCount, minted, notified, job, run, call, boot, history, spent>>

\* enqueueReward: the row first, its job in a later step.
EnqueueCreate(c, i, r) ==
    /\ r \notin Prizes /\ status[r] = "NONE"
    /\ Start(c, i, "add", {r}, FALSE)
    /\ status' = [status EXCEPT ![r] = "PENDING"]
    /\ UNCHANGED <<attemptCount, minted, notified, job, run, boot, history, spent>>

\* retryReward and retryAllFailedRewards read the FAILED rows first.
RetryRead(c, i) ==
    /\ spent.retries < MaxRetries
    /\ LET failed == {r \in Rewards : status[r] = "FAILED"} IN
       \E todo \in (SUBSET failed) \ {{}} :
        /\ \/ Cardinality(todo) = 1
           \/ /\ "ADMIN" \in ActorRoles
              /\ \/ todo = failed /\ Cardinality(todo) <= RetryLimit
                 \/ Cardinality(todo) = RetryLimit
        /\ Start(c, i, "update", todo, TRUE)
    /\ spent' = [spent EXCEPT !.retries = @ + 1]
    /\ UNCHANGED <<rows, job, run, boot, history>>

\* The update does not look at the status again.
RetryUpdate(c) ==
    /\ call[c].pc = "update"
    /\ status' = [r \in Rewards |->
                    IF r \in call[c].todo THEN "PENDING" ELSE status[r]]
    /\ call' = [call EXCEPT ![c].pc = "add"]
    /\ resets' = [r \in Rewards |->
                    IF r \in call[c].todo THEN resets[r] + 1 ELSE resets[r]]
    /\ UNCHANGED <<attemptCount, minted, notified, job, run, boot, paid, spent>>

\* Retry jobs are told apart by Date.now(): the next stamp is new, or the last
\* one again when two retries fall into one millisecond.
RetryJob(r, j) ==
    \E n \in 1 .. MaxRetries :
        /\ j = <<r, n>>
        /\ \A m \in (n + 1) .. MaxRetries : job[<<r, m>>].state = "absent"
        /\ n = 1 \/ \E m \in {n - 1, n} : job[<<r, m>>].state # "absent"

\* The call after its job for r is added; the last one ends it.
Without(c, r) ==
    IF call[c].todo = {r} THEN IdleCall ELSE [call[c] EXCEPT !.todo = @ \ {r}]

AddCallJob(c) ==
    /\ call[c].pc = "add"
    /\ \E r \in call[c].todo, j \in Jobs :
        /\ IF call[c].retry THEN RetryJob(r, j) ELSE j = MainJob(r)
        /\ Add(j)
        /\ call' = [call EXCEPT ![c] = Without(c, r)]
    /\ UNCHANGED <<rows, run, boot, history, spent>>

\* A database or queue call of a service call fails.
AbortCall(c) ==
    /\ spent.faults < MaxFaults
    /\ call[c].pc # "idle"
    /\ spent' = [spent EXCEPT !.faults = @ + 1]
    /\ call' = [call EXCEPT ![c] = IdleCall]
    /\ UNCHANGED <<rows, job, run, boot, history>>

CallStep(c) == RetryUpdate(c) \/ AddCallJob(c)

-----------------------------------------------------------------------------
(* The life of an instance.                                                *)

\* The worker takes jobs from here on; HTTP calls come after the dispatch.
Boot(i) ==
    /\ boot[i].pc = "down"
    /\ boot' = [boot EXCEPT ![i].pc = "scan"]
    /\ UNCHANGED <<rows, job, run, call, history, spent>>

Dispatching(todo) ==
    [pc |-> IF todo = {} THEN "up" ELSE "dispatch", todo |-> todo]

\* Mutant of Scan: only interrupted rewards are looked for.
ScanProcessing(i) ==
    /\ boot[i].pc = "scan"
    /\ boot' = [boot EXCEPT
                 ![i] = Dispatching({r \in Rewards : status[r] = "PROCESSING"})]
    /\ UNCHANGED <<rows, job, run, call, history, spent>>

\* dispatchPendingRewards: up to DispatchLimit unsettled rows, in no order.
Scan(i) ==
    /\ boot[i].pc = "scan"
    /\ LET open == {r \in Rewards : status[r] \in {"PENDING", "PROCESSING"}} IN
       \E found \in SUBSET open :
        /\ \/ found = open /\ Cardinality(found) <= DispatchLimit
           \/ Cardinality(found) = DispatchLimit
        /\ boot' = [boot EXCEPT ![i] = Dispatching(found)]
    /\ UNCHANGED <<rows, job, run, call, history, spent>>

\* A reward whose id the queue still knows as a job is skipped.
Dispatch(i) ==
    /\ boot[i].pc = "dispatch"
    /\ \E r \in boot[i].todo :
        /\ Add(MainJob(r))
        /\ boot' = [boot EXCEPT ![i] = Dispatching(@.todo \ {r})]
    /\ UNCHANGED <<rows, run, call, history, spent>>

BootStep(i) == Boot(i) \/ Scan(i) \/ Dispatch(i)

\* The process ends, and with it everything it was doing.
Crash(i) ==
    /\ spent.crashes < MaxCrashes
    /\ boot[i].pc # "down"
    /\ spent' = [spent EXCEPT !.crashes = @ + 1]
    /\ boot' = [boot EXCEPT ![i] = Down]
    /\ run' = [s \in Slots |-> IF HostOf[s] = i THEN IdleRun ELSE run[s]]
    /\ call' = [c \in Calls |-> IF call[c].at = i THEN IdleCall ELSE call[c]]
    /\ UNCHANGED <<rows, job, history>>

-----------------------------------------------------------------------------

Next ==
    \/ \E s \in Slots : TakeJob(s) \/ RunStep(s) \/ Fault(s)
    \/ \E j \in Jobs : BackoffElapsed(j) \/ Stalled(j) \/ Evict(j)
    \/ \E i \in Instances, r \in Rewards : CreatePrize(i, r)
    \/ \E c \in Calls, i \in Instances, r \in Rewards : EnqueueCreate(c, i, r)
    \/ \E c \in Calls, i \in Instances : RetryRead(c, i)
    \/ \E c \in Calls : CallStep(c) \/ AbortCall(c)
    \/ \E i \in Instances : BootStep(i) \/ Crash(i)

Spec == Init /\ [][Next]_vars

\* The worker and the queue keep working, calls in flight go on, the process
\* is restarted when it is down.  Nobody has to make a call, and nothing has
\* to fail.
Fairness ==
    /\ \A s \in Slots : WF_vars(TakeJob(s)) /\ WF_vars(RunStep(s))
    /\ \A j \in Jobs : WF_vars(BackoffElapsed(j)) /\ WF_vars(Stalled(j))
    /\ \A c \in Calls : WF_vars(CallStep(c))
    /\ \A i \in Instances : WF_vars(BootStep(i))

FairSpec == Spec /\ Fairness

-----------------------------------------------------------------------------
(* Properties.                                                             *)

Holders(r) == {s \in Slots : run[s].pc \in Holding /\ Here(s) = r}

\* The provider credits a reward at most once, whatever jobs exist for it,
\* unless somebody retried the reward: the conditional update of processReward
\* makes duplicate, stalled and re-dispatched jobs harmless.
PaidOnceUnlessRetried == \A r \in Rewards \ retried : paid[r] <= 1

\* A retry is worth one credit, and no more: whatever rereads, duplicate jobs
\* and stale updates two retries of a reward bring, every credit belongs to an
\* attempt that the row counts, and every attempt to the creation of the row or
\* to an update of a retry.
CreditPerRelease ==
    \A r \in Rewards :
        /\ paid[r] + Cardinality({s \in Holders(r) : run[s].pc \in {"fetch", "provider"}})
             <= attemptCount[r]
        /\ attemptCount[r] <= 1 + resets[r]

\* A row that says SUCCEEDED was credited, retried or not.
SucceededWasPaid == \A r \in Rewards : status[r] = "SUCCEEDED" => paid[r] > 0

\* Where the ledger sees a reward.  The credits are counted beside it.
PhaseOf(r) ==
    IF r \in retried THEN "retried"
    ELSE CASE status[r] = "NONE"      -> "none"
           [] status[r] = "PENDING"   -> "owed"
           [] status[r] = "SUCCEEDED" -> "settled"
           [] status[r] = "FAILED"    -> "failed"
           [] OTHER -> IF paid[r] = 0 THEN "claimed" ELSE "credited"

Ledger == INSTANCE RewardLedger
    WITH phase <- [r \in Rewards |-> PhaseOf(r)], credits <- paid, retries <- resets

\* The pipeline implements the ledger: no interleaving of jobs, stalls, crashes
\* and recovery scans lets the provider credit a reward twice, before its claim
\* or after its settlement, but for one credit more by every retry.
ImplementsLedger == Ledger!Spec

\* "Reward claimed" is told to a user only of a reward that is SUCCEEDED and
\* stays so, unless somebody retries it.
NoticeIsTrue == \A r \in notified \ retried : status[r] = "SUCCEEDED"

\* Why PaidOnceUnlessRetried holds: the slot that made the claim is the only one
\* inside the reward, it is the only one that can credit it, and the row leaves
\* PENDING with the claim and never comes back to it.
OneHolder ==
    \A s, t \in Slots :
        run[s].pc \in Holding /\ run[t].pc \in Holding
            /\ Here(s) = Here(t) /\ Here(s) \notin retried => s = t
HolderStatus ==
    \A s \in Slots :
        run[s].pc \in Holding /\ Here(s) \notin retried =>
            status[Here(s)] = IF run[s].pc = "notify" THEN "SUCCEEDED" ELSE "PROCESSING"
HolderPaid ==
    \A s \in Slots :
        /\ run[s].pc \in {"fetch", "provider"} /\ Here(s) \notin retried
             => paid[Here(s)] = 0
        /\ run[s].pc \in {"mint", "transfer", "settle", "notify"} => paid[Here(s)] > 0
UnclaimedUnpaid ==
    \A r \in Rewards \ retried :
        status[r] \in {"NONE", "PENDING", "FAILED"} => paid[r] = 0
NeverFailedAgain == \A r \in retried : status[r] # "FAILED"

Custody ==
    /\ OneHolder /\ HolderStatus /\ HolderPaid /\ UnclaimedUnpaid /\ NeverFailedAgain
    /\ PaidOnceUnlessRetried /\ SucceededWasPaid /\ NoticeIsTrue

\* Only a retry takes a reward out of a terminal status.
TerminalUnlessRetried ==
    [][\A r \in Rewards :
        status[r] \in {"SUCCEEDED", "FAILED"} /\ status'[r] # status[r]
            => status'[r] = "PENDING" /\ r \in retried']_vars

\* A bonus that got its row is claimed by a worker in the end, although the
\* process may die between the row and its job; unless a call failed in between,
\* or the job stalled twice and the queue failed it.
BonusEventuallyClaimed ==
    \A r \in Rewards \ Prizes :
        status[r] = "PENDING" ~>
            status[r] # "PENDING" \/ spent.faults > 0 \/ job[MainJob(r)].state = "failed"

\* A bonus without an NFT is SUCCEEDED in the end unless a process dies or a
\* call fails, although the queue may take a running job for stalled and hand it
\* out again.
BonusEventuallySettled ==
    \A r \in Rewards \ (Prizes \cup Nfts) :
        status[r] = "PENDING" ~>
            status[r] = "SUCCEEDED" \/ spent.crashes > 0 \/ spent.faults > 0
=============================================================================
