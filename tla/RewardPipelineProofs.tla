------------------------ MODULE RewardPipelineProofs ------------------------
(* Theorems about RewardPipeline, for every value of its constants.         *)
EXTENDS RewardPipeline, FiniteSetTheorems, TLAPS

(* A job belongs to a reward, and a slot that is not idle runs such a job.  *)
LEMMA JobFacts ==
    /\ \A j \in Jobs : RewardOf(j) \in Rewards /\ j # None
    /\ \A r \in Rewards : MainJob(r) \in Jobs
    /\ None \notin Slots
  BY PipelineAssumption DEF Jobs, RewardOf, MainJob, PipelineAssumption

LEMMA HereFacts ==
    ASSUME RunType, NEW s \in Slots, run[s].pc # "idle"
    PROVE  run[s].job \in Jobs /\ Here(s) \in Rewards
  BY JobFacts DEF RunType, Here

(* How the two ways to leave processReward change the queue and the slot.   *)
LEMMA LeaveType ==
    ASSUME RunType, JobType, NEW s \in Slots, run[s].pc # "idle",
           NEW state \in JobStates, NEW made \in Nat, Leave(s, state, made)
    PROVE  RunType' /\ JobType'
  <1>1. run[s].job \in Jobs
    BY HereFacts
  <1>2. RunType'
    BY JobFacts DEF RunType, Leave, IdleRun, RunSteps
  <1>3. JobType'
    BY <1>1 DEF JobType, Leave
  <1> QED
    BY <1>2, <1>3

LEMMA CompleteType ==
    ASSUME RunType, JobType, NEW s \in Slots, run[s].pc # "idle", Complete(s)
    PROVE  RunType' /\ JobType'
  <1>1. run[s].job \in Jobs
    BY HereFacts
  <1>2. job[run[s].job].made \in Nat
    BY <1>1 DEF JobType
  <1> QED
    BY <1>2, LeaveType DEF Complete, JobStates

LEMMA RejectType ==
    ASSUME RunType, JobType, NEW s \in Slots, run[s].pc # "idle", Reject(s)
    PROVE  RunType' /\ JobType'
  <1>1. run[s].job \in Jobs
    BY HereFacts
  <1> DEFINE made == job[run[s].job].made + 1
             state == IF made < MaxAttempts THEN "delayed" ELSE "failed"
  <1>2. made \in Nat /\ state \in JobStates
    BY <1>1 DEF JobType, JobStates
  <1>3. Leave(s, state, made)
    BY DEF Reject
  <1> HIDE DEF made, state
  <1> QED
    BY <1>2, <1>3, LeaveType

LEMMA GoToType ==
    ASSUME RunType, NEW s \in Slots, run[s].pc # "idle",
           NEW pc \in RunSteps, pc # "idle", GoTo(s, pc)
    PROVE  RunType'
  BY DEF RunType, GoTo

LEMMA AddType ==
    ASSUME JobType, NEW j \in Jobs, Add(j)
    PROVE  JobType'
  BY DEF JobType, Add, NoEntry, JobStates

-----------------------------------------------------------------------------

(* The variables keep their types: in particular a slot is idle exactly     *)
(* when it has no job, whatever ends its run.                               *)
LEMMA TypeInit == Init => TypeOK
  <1> SUFFICES ASSUME Init PROVE TypeOK
    OBVIOUS
  <1>1. RowTypes /\ HistoryTypes /\ SpentType
    BY PipelineAssumption
    DEF Init, RowTypes, HistoryTypes, SpentType, Statuses, PipelineAssumption
  <1>2. JobType
    BY DEF Init, JobType, NoEntry, JobStates
  <1>3. RunType
    BY DEF Init, RunType, IdleRun, RunSteps
  <1>4. CallType
    BY DEF Init, CallType, IdleCall
  <1>5. BootType
    BY DEF Init, BootType, Down
  <1> QED
    BY <1>1, <1>2, <1>3, <1>4, <1>5 DEF TypeOK

LEMMA TypeRunStep ==
    ASSUME TypeOK, NEW s \in Slots, TakeJob(s) \/ RunStep(s) \/ Fault(s)
    PROVE  TypeOK'
  <1> USE DEF TypeOK
  <1>1. CASE TakeJob(s)
    <2>1. PICK j \in Jobs :
            /\ job' = [job EXCEPT ![j].state = "active", ![j].lock = s]
            /\ run' = [run EXCEPT ![s] = [pc |-> "claim", job |-> j]]
      BY <1>1 DEF TakeJob
    <2>2. JobType'
      BY <2>1 DEF JobType, JobStates
    <2>3. RunType'
      BY <2>1, JobFacts DEF RunType, RunSteps
    <2> QED
      BY <1>1, <2>2, <2>3
      DEF TakeJob, RowTypes, CallType, BootType, HistoryTypes, SpentType, rows, history
  <1>2. CASE Claim(s)
    <2>1. Here(s) \in Rewards
      BY <1>2, HereFacts DEF Claim, ClaimIf
    <2>2. RowTypes'
      BY <1>2, <2>1 DEF Claim, ClaimIf, RowTypes, Statuses
    <2>3. RunType' /\ JobType'
      BY <1>2, CompleteType, GoToType DEF Claim, ClaimIf, RunSteps, Holding, JobType
    <2> QED
      BY <1>2, <2>2, <2>3
      DEF Claim, ClaimIf, CallType, BootType, HistoryTypes, SpentType, history
  <1>3. CASE FetchReward(s)
    <2>1. RunType'
      BY <1>3, GoToType DEF FetchReward, RunSteps, Holding
    <2> QED
      BY <1>3, <2>1
      DEF FetchReward, RowTypes, JobType, CallType, BootType, HistoryTypes,
          SpentType, rows, history
  <1>4. CASE CallProvider(s)
    <2>1. RunType'
      BY <1>4, GoToType DEF CallProvider, RunSteps, Holding
    <2>2. HistoryTypes'
      BY <1>4, HereFacts DEF CallProvider, HistoryTypes
    <2> QED
      BY <1>4, <2>1, <2>2
      DEF CallProvider, RowTypes, JobType, CallType, BootType, SpentType, rows
  <1>5. CASE MintAsset(s)
    <2>1. Here(s) \in Rewards
      BY <1>5, HereFacts DEF MintAsset
    <2>2. RowTypes'
      BY <1>5, <2>1 DEF MintAsset, RowTypes
    <2>3. RunType' /\ JobType'
      BY <1>5, RejectType, GoToType DEF MintAsset, RunSteps, Holding, JobType
    <2> QED
      BY <1>5, <2>2, <2>3
      DEF MintAsset, CallType, BootType, HistoryTypes, SpentType, history
  <1>6. CASE RecordTransfer(s)
    <2>1. RunType' /\ JobType'
      BY <1>6, RejectType DEF RecordTransfer
    <2> QED
      BY <1>6, <2>1
      DEF RecordTransfer, RowTypes, CallType, BootType, HistoryTypes,
          SpentType, rows, history
  <1>7. CASE Settle(s)
    <2>1. RowTypes'
      BY <1>7, HereFacts DEF Settle, RowTypes, Statuses
    <2>2. RunType'
      BY <1>7, GoToType DEF Settle, RunSteps, Holding
    <2> QED
      BY <1>7, <2>1, <2>2
      DEF Settle, JobType, CallType, BootType, HistoryTypes, SpentType, history
  <1>8. CASE Notify(s)
    <2>1. RowTypes'
      BY <1>8, HereFacts DEF Notify, RowTypes
    <2>2. RunType' /\ JobType'
      BY <1>8, CompleteType DEF Notify
    <2> QED
      BY <1>8, <2>1, <2>2
      DEF Notify, CallType, BootType, HistoryTypes, SpentType, history
  <1>9. CASE Fault(s)
    <2>1. run[s].pc # "idle"
      BY <1>9 DEF Fault
    <2>2. RowTypes'
      BY <1>9, <2>1, HereFacts DEF Fault, RowTypes
    <2>3. RunType' /\ JobType'
      BY <1>9, <2>1, RejectType DEF Fault
    <2>4. SpentType'
      BY <1>9 DEF Fault, SpentType
    <2> QED
      BY <1>9, <2>2, <2>3, <2>4 DEF Fault, CallType, BootType, HistoryTypes, history
  <1> QED
    BY <1>1, <1>2, <1>3, <1>4, <1>5, <1>6, <1>7, <1>8, <1>9 DEF RunStep

LEMMA TypeQueueStep ==
    ASSUME TypeOK, NEW j \in Jobs, BackoffElapsed(j) \/ Stalled(j) \/ Evict(j)
    PROVE  TypeOK'
  <1>1. JobType'
    BY DEF TypeOK, BackoffElapsed, Stalled, Evict, JobType, JobStates, NoEntry
  <1> QED
    BY <1>1
    DEF TypeOK, BackoffElapsed, Stalled, Evict, RowTypes, RunType, CallType,
        BootType, HistoryTypes, SpentType, rows, history

LEMMA TypeCallStep ==
    ASSUME TypeOK, NEW c \in Calls, CallStep(c) \/ AbortCall(c)
    PROVE  TypeOK'
  <1> USE DEF TypeOK
  <1>1. CASE RetryUpdate(c)
    <2>1. RowTypes'
      BY <1>1 DEF RetryUpdate, RowTypes, Statuses
    <2>2. CallType' /\ HistoryTypes'
      BY <1>1 DEF RetryUpdate, CallType, HistoryTypes
    <2> QED
      BY <1>1, <2>1, <2>2 DEF RetryUpdate, JobType, RunType, BootType, SpentType
  <1>2. CASE AddCallJob(c)
    <2>1. PICK r \in call[c].todo, j \in Jobs :
            Add(j) /\ call' = [call EXCEPT ![c] = Without(c, r)]
      BY <1>2 DEF AddCallJob
    <2>2. JobType'
      BY <2>1, AddType
    <2>3. Without(c, r) \in [pc : {"idle", "update", "add"}, todo : SUBSET Rewards,
                             at : Instances \cup {None}, retry : BOOLEAN]
      BY DEF CallType, Without, IdleCall
    <2>4. CallType'
      BY <2>1, <2>3 DEF CallType
    <2> QED
      BY <1>2, <2>2, <2>4
      DEF AddCallJob, RowTypes, RunType, BootType, HistoryTypes, SpentType, rows, history
  <1>3. CASE AbortCall(c)
    <2>1. CallType' /\ SpentType'
      BY <1>3 DEF AbortCall, CallType, IdleCall, SpentType
    <2> QED
      BY <1>3, <2>1
      DEF AbortCall, RowTypes, JobType, RunType, BootType, HistoryTypes, rows, history
  <1> QED
    BY <1>1, <1>2, <1>3 DEF CallStep

LEMMA TypeNewCall ==
    ASSUME TypeOK, NEW i \in Instances,
           \/ \E r \in Rewards : CreatePrize(i, r)
           \/ \E c \in Calls, r \in Rewards : EnqueueCreate(c, i, r)
           \/ \E c \in Calls : RetryRead(c, i)
    PROVE  TypeOK'
  <1> USE DEF TypeOK
  <1>1. ASSUME NEW r \in Rewards, CreatePrize(i, r) PROVE TypeOK'
    <2>1. RowTypes'
      BY <1>1 DEF CreatePrize, RowTypes, Statuses
    <2> QED
      BY <1>1, <2>1
      DEF CreatePrize, JobType, RunType, CallType, BootType, HistoryTypes,
          SpentType, history
  <1>2. ASSUME NEW c \in Calls, NEW r \in Rewards, EnqueueCreate(c, i, r)
        PROVE  TypeOK'
    <2>1. RowTypes' /\ CallType'
      BY <1>2 DEF EnqueueCreate, Start, RowTypes, Statuses, CallType
    <2> QED
      BY <1>2, <2>1
      DEF EnqueueCreate, JobType, RunType, BootType, HistoryTypes, SpentType, history
  <1>3. ASSUME NEW c \in Calls, RetryRead(c, i) PROVE TypeOK'
    <2>1. PICK todo \in SUBSET Rewards : Start(c, i, "update", todo, TRUE)
      BY <1>3 DEF RetryRead
    <2>2. CallType'
      BY <2>1 DEF Start, CallType
    <2>3. SpentType'
      BY <1>3 DEF RetryRead, SpentType
    <2> QED
      BY <1>3, <2>2, <2>3
      DEF RetryRead, RowTypes, JobType, RunType, BootType, HistoryTypes, rows, history
  <1> QED
    BY <1>1, <1>2, <1>3

LEMMA TypeInstance ==
    ASSUME TypeOK, NEW i \in Instances, BootStep(i) \/ Crash(i)
    PROVE  TypeOK'
  <1> USE DEF TypeOK
  <1>1. CASE Boot(i)
    <2>1. BootType'
      BY <1>1 DEF Boot, BootType
    <2> QED
      BY <1>1, <2>1
      DEF Boot, RowTypes, JobType, RunType, CallType, HistoryTypes, SpentType,
          rows, history
  <1>2. CASE Scan(i)
    <2>1. PICK found \in SUBSET Rewards : boot' = [boot EXCEPT ![i] = Dispatching(found)]
      BY <1>2 DEF Scan
    <2>2. BootType'
      BY <2>1 DEF BootType, Dispatching
    <2> QED
      BY <1>2, <2>2
      DEF Scan, RowTypes, JobType, RunType, CallType, HistoryTypes, SpentType,
          rows, history
  <1>3. CASE Dispatch(i)
    <2>1. PICK r \in boot[i].todo :
            /\ Add(MainJob(r))
            /\ boot' = [boot EXCEPT ![i] = Dispatching(@.todo \ {r})]
      BY <1>3 DEF Dispatch
    <2>2. r \in Rewards
      BY <2>1 DEF BootType
    <2>3. BootType'
      BY <2>1 DEF BootType, Dispatching
    <2>4. JobType'
      BY <2>1, <2>2, AddType, JobFacts
    <2> QED
      BY <1>3, <2>3, <2>4
      DEF Dispatch, RowTypes, RunType, CallType, HistoryTypes, SpentType, rows, history
  <1>4. CASE Crash(i)
    <2>1. BootType' /\ SpentType'
      BY <1>4 DEF Crash, BootType, Down, SpentType
    <2>2. RunType'
      BY <1>4 DEF Crash, RunType, IdleRun, RunSteps
    <2>3. CallType'
      BY <1>4 DEF Crash, CallType, IdleCall
    <2> QED
      BY <1>4, <2>1, <2>2, <2>3 DEF Crash, RowTypes, JobType, HistoryTypes, rows, history
  <1> QED
    BY <1>1, <1>2, <1>3, <1>4 DEF BootStep

LEMMA TypeNext == TypeOK /\ [Next]_vars => TypeOK'
  <1> SUFFICES ASSUME TypeOK, [Next]_vars PROVE TypeOK'
    OBVIOUS
  <1>1. CASE UNCHANGED vars
    BY <1>1
    DEF TypeOK, vars, rows, history, RowTypes, JobType, RunType, CallType,
        BootType, HistoryTypes, SpentType
  <1>2. CASE Next
    BY <1>2, TypeRunStep, TypeQueueStep, TypeCallStep, TypeNewCall, TypeInstance DEF Next
  <1> QED
    BY <1>1, <1>2

(* Every variable has its type in every reachable state.                    *)
THEOREM TypeCorrect == Spec => []TypeOK
  BY TypeInit, TypeNext, PTL DEF Spec

-----------------------------------------------------------------------------
(* Custody is inductive.                                                    *)

(* retried changes only with resets.                                        *)
LEMMA RetriedSame == resets' = resets => retried' = retried
  BY DEF retried

(* An update of a retry resets the rewards it is about.                      *)
LEMMA RetriedMore ==
    ASSUME TypeOK, NEW c \in Calls, RetryUpdate(c)
    PROVE  retried' = retried \cup call[c].todo /\ call[c].todo \subseteq Rewards
  <1>1. /\ call[c].todo \subseteq Rewards /\ resets \in [Rewards -> Nat]
        /\ resets' = [r \in Rewards |->
                       IF r \in call[c].todo THEN resets[r] + 1 ELSE resets[r]]
    BY DEF TypeOK, CallType, HistoryTypes, RetryUpdate
  <1> QED
    BY <1>1 DEF retried

LEMMA CustodyInit == Init => Custody
  BY PipelineAssumption
  DEF Init, retried, Custody, OneHolder, HolderStatus, HolderPaid, UnclaimedUnpaid, NeverFailedAgain,
      PaidOnceUnlessRetried, SucceededWasPaid, NoticeIsTrue, IdleRun, Holding,
      PipelineAssumption

(* A step that leaves rows and history alone, and in which slots only let   *)
(* go of rewards, keeps Custody.                                            *)
LEMMA CustodyQuiet ==
    ASSUME TypeOK, Custody, UNCHANGED <<status, notified, paid, retried>>,
           \A t \in Slots : run'[t] = run[t] \/ run'[t].pc \notin Holding
    PROVE  Custody'
  <1>1. \A t \in Slots : run'[t].pc \in Holding => run'[t] = run[t]
    OBVIOUS
  <1>2. OneHolder' /\ HolderStatus'
    BY <1>1 DEF Custody, OneHolder, HolderStatus, Here
  <1>3. HolderPaid'
    BY <1>1 DEF Custody, HolderPaid, Here, Holding
  <1> QED
    BY <1>2, <1>3
    DEF Custody, UnclaimedUnpaid, NeverFailedAgain, PaidOnceUnlessRetried, SucceededWasPaid, NoticeIsTrue

LEMMA LeaveQuiet ==
    ASSUME RunType, NEW s \in Slots, NEW state, NEW made, Leave(s, state, made)
    PROVE  \A t \in Slots : run'[t] = run[t] \/ run'[t].pc \notin Holding
  BY DEF RunType, Leave, IdleRun, Holding

LEMMA CustodyClaim ==
    ASSUME TypeOK, Custody, NEW s \in Slots, Claim(s)
    PROVE  Custody'
  <1> DEFINE r == Here(s)
  <1>0. r \in Rewards /\ RunType
    BY HereFacts DEF TypeOK, Claim, ClaimIf
  <1>1. CASE status[r] # "PENDING"
    BY <1>0, <1>1, CustodyQuiet, LeaveQuiet, RetriedSame DEF Claim, ClaimIf, Complete, history
  <1>2. CASE status[r] = "PENDING"
    <2>1. /\ status' = [status EXCEPT ![r] = "PROCESSING"]
          /\ run' = [run EXCEPT ![s].pc = "fetch"]
          /\ UNCHANGED <<notified, paid, retried>>
      BY <1>2, RetriedSame DEF Claim, ClaimIf, GoTo, history
    <2>2. \A t \in Slots : Here(t)' = Here(t)
      BY <2>1 DEF TypeOK, RunType, Here
    <2>3. \A t \in Slots : run[t].pc \in Holding /\ Here(t) = r => r \in retried
      BY <1>2 DEF Custody, HolderStatus
    <2>4. \A t \in Slots \ {s} : run'[t] = run[t]
      BY <2>1 DEF TypeOK, RunType
    <2>5. run'[s].pc = "fetch"
      BY <2>1 DEF TypeOK, RunType
    <2>6. status \in [Rewards -> Statuses] /\ paid \in [Rewards -> Nat]
      BY DEF TypeOK, RowTypes, HistoryTypes
    <2>7. \A t \in Slots : run[t].pc \in Holding => Here(t) \in Rewards
      BY HereFacts DEF TypeOK, Holding
    <2>8. OneHolder'
      BY <2>1, <2>2, <2>3, <2>4, <2>5 DEF Custody, OneHolder, Holding
    <2>9. HolderStatus'
      BY <1>0, <2>1, <2>2, <2>3, <2>4, <2>5, <2>6, <2>7 DEF Custody, HolderStatus, Holding
    <2>10. r \notin retried => paid[r] = 0
      BY <1>0, <1>2 DEF Custody, UnclaimedUnpaid
    <2>11. HolderPaid'
      BY <2>1, <2>2, <2>4, <2>5, <2>10 DEF Custody, HolderPaid
    <2>12. UnclaimedUnpaid' /\ NeverFailedAgain' /\ PaidOnceUnlessRetried' /\ SucceededWasPaid' /\ NoticeIsTrue'
      BY <1>0, <1>2, <2>1, <2>6 
      DEF Custody, UnclaimedUnpaid, NeverFailedAgain, PaidOnceUnlessRetried, SucceededWasPaid, NoticeIsTrue,
          TypeOK, RowTypes
    <2> QED
      BY <2>8, <2>9, <2>11, <2>12 DEF Custody
  <1> QED
    BY <1>1, <1>2

(* The slots that GoTo does not move keep everything they had.              *)
LEMMA GoToFacts ==
    ASSUME RunType, NEW s \in Slots, NEW pc, GoTo(s, pc)
    PROVE  /\ run'[s].pc = pc
           /\ \A t \in Slots : Here(t)' = Here(t)
           /\ \A t \in Slots \ {s} : run'[t] = run[t]
  BY DEF RunType, GoTo, Here

LEMMA CustodyProvider ==
    ASSUME TypeOK, Custody, NEW s \in Slots, CallProvider(s)
    PROVE  Custody'
  <1> DEFINE r == Here(s)
  <1>1. r \in Rewards /\ RunType /\ paid \in [Rewards -> Nat]
    BY HereFacts DEF TypeOK, HistoryTypes, CallProvider
  <1>2. /\ run[s].pc = "provider"
        /\ paid' = [paid EXCEPT ![r] = @ + 1]
        /\ UNCHANGED <<status, notified, retried>>
    BY RetriedSame DEF CallProvider, rows
  <1>3. /\ run'[s].pc \in {"mint", "settle"}
        /\ \A t \in Slots : Here(t)' = Here(t)
        /\ \A t \in Slots \ {s} : run'[t] = run[t]
    BY <1>1, GoToFacts DEF CallProvider
  <1>4. \A t \in Slots : run[t].pc \in Holding => Here(t) \in Rewards
    BY HereFacts DEF TypeOK, Holding
  <1>5. OneHolder' /\ HolderStatus'
    BY <1>2, <1>3 DEF Custody, OneHolder, HolderStatus, Holding
  <1>6. r \notin retried => paid[r] = 0 /\ status[r] = "PROCESSING"
    BY <1>2 DEF Custody, HolderPaid, HolderStatus, Holding
  <1>7. HolderPaid'
    <2>1. SUFFICES ASSUME NEW t \in Slots
                   PROVE  /\ run'[t].pc \in {"fetch", "provider"} /\ Here(t) \notin retried
                               => paid'[Here(t)] = 0
                          /\ run'[t].pc \in {"mint", "transfer", "settle", "notify"}
                               => paid'[Here(t)] > 0
      BY <1>2, <1>3 DEF HolderPaid
    <2>2. CASE t = s
      BY <1>1, <1>2, <1>3, <2>2
    <2>3. CASE t # s
      <3>1. run'[t] = run[t]
        BY <1>3, <2>3
      <3>2. Here(t) = r /\ run[t].pc \in Holding => r \in retried
        BY <1>2, <2>3 DEF Custody, OneHolder, Holding
      <3> QED
        BY <1>1, <1>2, <1>4, <3>1, <3>2 DEF Custody, HolderPaid, Holding
    <2> QED
      BY <2>2, <2>3
  <1>8. UnclaimedUnpaid' /\ NeverFailedAgain' /\ PaidOnceUnlessRetried' /\ SucceededWasPaid' /\ NoticeIsTrue'
    BY <1>1, <1>2, <1>6
    DEF Custody, UnclaimedUnpaid, NeverFailedAgain, PaidOnceUnlessRetried, SucceededWasPaid, NoticeIsTrue
  <1> QED
    BY <1>5, <1>7, <1>8 DEF Custody

LEMMA CustodySettle ==
    ASSUME TypeOK, Custody, NEW s \in Slots, Settle(s)
    PROVE  Custody'
  <1> DEFINE r == Here(s)
  <1>1. /\ r \in Rewards /\ RunType
        /\ status \in [Rewards -> Statuses] /\ notified \subseteq Rewards
    BY HereFacts DEF TypeOK, RowTypes, Settle
  <1>2. /\ run[s].pc = "settle"
        /\ status' = [status EXCEPT ![r] = "SUCCEEDED"]
        /\ UNCHANGED <<notified, paid, retried>>
    BY RetriedSame DEF Settle, history
  <1>3. /\ run'[s].pc = "notify"
        /\ \A t \in Slots : Here(t)' = Here(t)
        /\ \A t \in Slots \ {s} : run'[t] = run[t]
    BY <1>1, GoToFacts DEF Settle
  <1>4. \A t \in Slots : run[t].pc \in Holding => Here(t) \in Rewards
    BY HereFacts DEF TypeOK, Holding
  <1>5. OneHolder'
    BY <1>2, <1>3 DEF Custody, OneHolder, Holding
  <1>6. \A t \in Slots \ {s} : run[t].pc \in Holding /\ Here(t) = r => r \in retried
    BY <1>2 DEF Custody, OneHolder, Holding
  <1>7. HolderStatus'
    BY <1>1, <1>2, <1>3, <1>4, <1>6 DEF Custody, HolderStatus, Holding
  <1>8. HolderPaid' /\ paid[r] > 0
    BY <1>2, <1>3 DEF Custody, HolderPaid
  <1>9. UnclaimedUnpaid' /\ NeverFailedAgain' /\ PaidOnceUnlessRetried' /\ SucceededWasPaid' /\ NoticeIsTrue'
    BY <1>1, <1>2, <1>8
    DEF Custody, UnclaimedUnpaid, NeverFailedAgain, PaidOnceUnlessRetried, SucceededWasPaid, NoticeIsTrue
  <1> QED
    BY <1>5, <1>7, <1>8, <1>9 DEF Custody

(* Moving on inside processReward without a write to the row.               *)
LEMMA CustodyMove ==
    ASSUME TypeOK, Custody, NEW s \in Slots,
           \/ FetchReward(s)
           \/ MintAsset(s) /\ Here(s) \notin minted
    PROVE  Custody'
  <1> DEFINE next == IF run[s].pc = "fetch" THEN "provider" ELSE "transfer"
  <1>1. /\ run[s].pc \in {"fetch", "mint"} /\ GoTo(s, next)
        /\ UNCHANGED <<status, notified, paid, retried>>
    BY RetriedSame DEF FetchReward, MintAsset, rows, history
  <1>2. /\ run'[s].pc = next
        /\ \A t \in Slots : Here(t)' = Here(t)
        /\ \A t \in Slots \ {s} : run'[t] = run[t]
    BY <1>1, GoToFacts DEF TypeOK
  <1>3. OneHolder' /\ HolderStatus' /\ HolderPaid'
    BY <1>1, <1>2 DEF Custody, OneHolder, HolderStatus, HolderPaid, Holding
  <1> QED
    BY <1>1, <1>3
    DEF Custody, UnclaimedUnpaid, NeverFailedAgain, PaidOnceUnlessRetried, SucceededWasPaid, NoticeIsTrue

LEMMA CustodyNotify ==
    ASSUME TypeOK, Custody, NEW s \in Slots,
           \/ Notify(s)
           \/ Fault(s)
    PROVE  Custody'
  <1> DEFINE r == Here(s)
  <1>1. /\ UNCHANGED <<status, paid, retried>> /\ run[s].pc \in Holding \cup {"claim"}
        /\ \/ notified' = notified
           \/ run[s].pc = "notify" /\ notified' = notified \cup {r}
    BY RetriedSame DEF Notify, Fault, history, Holding
  <1>2. \A t \in Slots : run'[t] = run[t] \/ run'[t].pc \notin Holding
    BY LeaveQuiet DEF TypeOK, Notify, Fault, Complete, Reject
  <1>3. \A t \in Slots : run'[t].pc \in Holding => run'[t] = run[t]
    BY <1>2
  <1>4. OneHolder' /\ HolderStatus' /\ HolderPaid'
    BY <1>1, <1>3 DEF Custody, OneHolder, HolderStatus, HolderPaid, Here, Holding
  <1>5. run[s].pc = "notify" /\ r \notin retried => status[r] = "SUCCEEDED"
    BY DEF Custody, HolderStatus, Holding
  <1>6. NoticeIsTrue'
    BY <1>1, <1>5 DEF Custody, NoticeIsTrue
  <1> QED
    BY <1>1, <1>4, <1>6
    DEF Custody, UnclaimedUnpaid, NeverFailedAgain, PaidOnceUnlessRetried, SucceededWasPaid

LEMMA CustodyRun ==
    ASSUME TypeOK, Custody, NEW s \in Slots, TakeJob(s) \/ RunStep(s) \/ Fault(s)
    PROVE  Custody'
  <1>1. CASE TakeJob(s)
    <2>1. \A t \in Slots : run'[t] = run[t] \/ run'[t].pc \notin Holding
      BY <1>1 DEF TakeJob, TypeOK, RunType, Holding
    <2> QED
      BY <1>1, <2>1, CustodyQuiet, RetriedSame DEF TakeJob, rows, history
  <1>2. CASE MintAsset(s) /\ Here(s) \in minted
    BY <1>2, CustodyQuiet, LeaveQuiet, RetriedSame DEF MintAsset, Reject, history, TypeOK
  <1>3. CASE RecordTransfer(s)
    BY <1>3, CustodyQuiet, LeaveQuiet, RetriedSame DEF RecordTransfer, Reject, rows, history, TypeOK
  <1> QED
    BY <1>1, <1>2, <1>3, CustodyClaim, CustodyMove, CustodyProvider, CustodySettle,
       CustodyNotify
    DEF RunStep

(* A row that appears, or is put back by a retry.                           *)
LEMMA CustodyRows ==
    ASSUME TypeOK, Custody, UNCHANGED <<run, notified, paid>>,
           retried \subseteq retried',
           \A r \in retried' \ retried : r \in Rewards /\ status'[r] = "PENDING",
           \A r \in Rewards : \/ status'[r] = status[r]
                              \/ status[r] = "NONE" /\ status'[r] = "PENDING"
                              \/ r \in retried' /\ status'[r] = "PENDING"
    PROVE  Custody'
  <1>1. \A t \in Slots : run[t].pc \in Holding => Here(t) \in Rewards
    BY HereFacts DEF TypeOK, Holding
  <1>2. OneHolder' /\ HolderPaid'
    BY DEF Custody, OneHolder, HolderPaid, Here
  <1>3. HolderStatus'
    BY <1>1 DEF Custody, HolderStatus, Here
  <1>4. UnclaimedUnpaid' /\ NeverFailedAgain' /\ PaidOnceUnlessRetried' /\ SucceededWasPaid'
    <2>1. retried \subseteq Rewards
      BY DEF retried
    <2> QED
      BY <2>1
      DEF Custody, UnclaimedUnpaid, NeverFailedAgain, PaidOnceUnlessRetried,
          SucceededWasPaid, TypeOK, HistoryTypes
  <1>5. NoticeIsTrue'
    BY DEF Custody, NoticeIsTrue, TypeOK, RowTypes
  <1> QED
    BY <1>2, <1>3, <1>4, <1>5 DEF Custody

LEMMA CustodyNext == TypeOK /\ Custody /\ [Next]_vars => Custody'
  <1> SUFFICES ASSUME TypeOK, Custody, [Next]_vars PROVE Custody'
    OBVIOUS
  <1>1. CASE UNCHANGED vars
    BY <1>1, CustodyQuiet, RetriedSame DEF vars, rows, history
  <1>2. CASE \E s \in Slots : TakeJob(s) \/ RunStep(s) \/ Fault(s)
    BY <1>2, CustodyRun
  <1>3. CASE \E j \in Jobs : BackoffElapsed(j) \/ Stalled(j) \/ Evict(j)
    BY <1>3, CustodyQuiet, RetriedSame DEF BackoffElapsed, Stalled, Evict, rows, history
  <1>4. CASE \E i \in Instances, r \in Rewards : CreatePrize(i, r)
    BY <1>4, CustodyRows, RetriedSame DEF CreatePrize, history, TypeOK, RowTypes
  <1>5. CASE \E c \in Calls, i \in Instances, r \in Rewards : EnqueueCreate(c, i, r)
    BY <1>5, CustodyRows, RetriedSame DEF EnqueueCreate, history, TypeOK, RowTypes
  <1>6. CASE \E c \in Calls : RetryUpdate(c)
    <2>1. PICK c \in Calls : RetryUpdate(c)
      BY <1>6
    <2>2. retried' = retried \cup call[c].todo /\ call[c].todo \subseteq Rewards
      BY <2>1, RetriedMore
    <2>3. /\ UNCHANGED <<run, notified, paid>>
          /\ status' = [r \in Rewards |->
                         IF r \in call[c].todo THEN "PENDING" ELSE status[r]]
      BY <2>1 DEF RetryUpdate
    <2> QED
      BY <2>2, <2>3, CustodyRows
  <1>7. CASE \/ \E c \in Calls, i \in Instances : RetryRead(c, i)
             \/ \E c \in Calls : AddCallJob(c) \/ AbortCall(c)
    BY <1>7, CustodyQuiet, RetriedSame DEF RetryRead, AddCallJob, AbortCall, rows, history
  <1>8. CASE \E i \in Instances : BootStep(i)
    BY <1>8, CustodyQuiet, RetriedSame DEF BootStep, Boot, Scan, Dispatch, rows, history
  <1>9. CASE \E i \in Instances : Crash(i)
    <2>1. \A t \in Slots : run'[t] = run[t] \/ run'[t].pc \notin Holding
      BY <1>9 DEF Crash, IdleRun, Holding
    <2> QED
      BY <1>9, <2>1, CustodyQuiet, RetriedSame DEF Crash, rows, history
  <1> QED
    BY <1>1, <1>2, <1>3, <1>4, <1>5, <1>6, <1>7, <1>8, <1>9 DEF Next, CallStep

LEMMA Invariance == Spec => [](TypeOK /\ Custody)
  BY TypeInit, TypeNext, CustodyInit, CustodyNext, PTL DEF Spec

(* Whatever jobs, stalls, crashes and recovery scans do, the provider       *)
(* credits a reward that nobody retried at most once.                       *)
THEOREM PaidOnce == Spec => []PaidOnceUnlessRetried
  BY Invariance, PTL DEF Custody

(* A SUCCEEDED reward was credited.                                         *)
THEOREM SucceededPaid == Spec => []SucceededWasPaid
  BY Invariance, PTL DEF Custody

(* A reward notified as claimed is SUCCEEDED and stays it, unless retried.  *)
THEOREM NoticeTrue == Spec => []NoticeIsTrue
  BY Invariance, PTL DEF Custody

-----------------------------------------------------------------------------
(* Every credit belongs to an attempt of the row.  The slots that have       *)
(* claimed and not yet credited are counted too; that they are finitely many *)
(* needs no bound on the slots: a claim adds one at a time.                  *)
Owing(r) == {s \in Holders(r) : run[s].pc \in {"fetch", "provider"}}

\* A row that waits for its claim is good for one attempt.
Claimable(r) == IF status[r] \in {"NONE", "PENDING"} THEN 1 ELSE 0

Covered(r) ==
    IsFiniteSet(Owing(r)) /\ paid[r] + Cardinality(Owing(r)) <= attemptCount[r]

AttemptsInv == \A r \in Rewards : Covered(r)
ReleasesInv == \A r \in Rewards : attemptCount[r] + Claimable(r) <= 1 + resets[r]

(* Slots that owe a credit are among those that owed it, nothing else        *)
(* changes.                                                                  *)
LEMMA AttemptsQuiet ==
    ASSUME TypeOK, AttemptsInv, UNCHANGED <<paid, attemptCount>>,
           \A t \in Slots : run'[t].pc \in {"fetch", "provider"} =>
               run[t].pc \in {"fetch", "provider"} /\ Here(t)' = Here(t)
    PROVE  AttemptsInv'
  <1> SUFFICES ASSUME NEW r \in Rewards PROVE Covered(r)'
    BY DEF AttemptsInv
  <1>1. Owing(r)' \in SUBSET Owing(r)
    BY DEF Owing, Holders, Holding
  <1>2. IsFiniteSet(Owing(r)) /\ paid[r] + Cardinality(Owing(r)) <= attemptCount[r]
    BY DEF AttemptsInv, Covered
  <1>3. /\ IsFiniteSet(Owing(r)') /\ Cardinality(Owing(r)') <= Cardinality(Owing(r))
        /\ Cardinality(Owing(r)') \in Nat /\ Cardinality(Owing(r)) \in Nat
    BY <1>1, <1>2, FS_Subset, FS_CardinalityType
  <1>4. paid[r] \in Nat /\ attemptCount[r] \in Nat
    BY DEF TypeOK, HistoryTypes, RowTypes
  <1>5. paid'[r] + Cardinality(Owing(r)') <= attemptCount'[r]
    BY <1>2, <1>3, <1>4
  <1> QED
    BY <1>3, <1>5 DEF Covered

(* The claim counts the attempt and makes the slot owe a credit.             *)
LEMMA AttemptsClaim ==
    ASSUME TypeOK, AttemptsInv, NEW s \in Slots, Claim(s)
    PROVE  AttemptsInv'
  <1>0. RunType /\ run[s].pc = "claim" /\ Here(s) \in Rewards
    BY HereFacts DEF TypeOK, Claim, ClaimIf
  <1>1. CASE status[Here(s)] # "PENDING"
    <2>1. \A t \in Slots : run'[t] = run[t] \/ run'[t].pc \notin Holding
      BY <1>0, <1>1, LeaveQuiet DEF Claim, ClaimIf, Complete
    <2> QED
      BY <1>1, <2>1, AttemptsQuiet DEF Claim, ClaimIf, history, Holding, Here
  <1>2. CASE status[Here(s)] = "PENDING"
    <2>1. /\ attemptCount' = [attemptCount EXCEPT ![Here(s)] = @ + 1]
          /\ GoTo(s, "fetch") /\ UNCHANGED paid
      BY <1>2 DEF Claim, ClaimIf, history
    <2>2. /\ run'[s].pc = "fetch"
          /\ \A t \in Slots : Here(t)' = Here(t)
          /\ \A t \in Slots \ {s} : run'[t] = run[t]
      BY <1>0, <2>1, GoToFacts
    <2> SUFFICES ASSUME NEW r \in Rewards PROVE Covered(r)'
      BY DEF AttemptsInv
    <2>3. /\ IsFiniteSet(Owing(r)) /\ paid[r] + Cardinality(Owing(r)) <= attemptCount[r]
          /\ Cardinality(Owing(r)) \in Nat
      BY FS_CardinalityType DEF AttemptsInv, Covered
    <2>4. paid[r] \in Nat /\ attemptCount[r] \in Nat
      BY DEF TypeOK, HistoryTypes, RowTypes
    <2>5. CASE r = Here(s)
      <3>1. Owing(r)' = Owing(r) \cup {s} /\ s \notin Owing(r)
        BY <1>0, <2>2, <2>5 DEF Owing, Holders, Holding
      <3>2. IsFiniteSet(Owing(r)') /\ Cardinality(Owing(r)') = Cardinality(Owing(r)) + 1
        BY <2>3, <3>1, FS_AddElement
      <3>3. attemptCount'[r] = attemptCount[r] + 1
        BY <2>1, <2>5 DEF TypeOK, RowTypes
      <3>4. paid'[r] + Cardinality(Owing(r)') <= attemptCount'[r]
        BY <2>1, <2>3, <2>4, <3>2, <3>3
      <3> QED
        BY <3>2, <3>4 DEF Covered
    <2>6. CASE r # Here(s)
      <3>1. Owing(r)' = Owing(r)
        BY <2>2, <2>6 DEF Owing, Holders
      <3>2. attemptCount'[r] = attemptCount[r]
        BY <2>1, <2>6 DEF TypeOK, RowTypes
      <3> QED
        BY <2>1, <2>3, <3>1, <3>2 DEF Covered
    <2> QED
      BY <2>5, <2>6
  <1> QED
    BY <1>1, <1>2

(* The credit pays what the slot owed.                                       *)
LEMMA AttemptsProvider ==
    ASSUME TypeOK, AttemptsInv, NEW s \in Slots, CallProvider(s)
    PROVE  AttemptsInv'
  <1>0. RunType /\ run[s].pc = "provider" /\ Here(s) \in Rewards
    BY HereFacts DEF TypeOK, CallProvider
  <1>1. paid' = [paid EXCEPT ![Here(s)] = @ + 1] /\ UNCHANGED attemptCount
    BY DEF CallProvider, rows
  <1>2. /\ run'[s].pc \in {"mint", "settle"}
        /\ \A t \in Slots : Here(t)' = Here(t)
        /\ \A t \in Slots \ {s} : run'[t] = run[t]
    BY <1>0, GoToFacts DEF CallProvider
  <1> SUFFICES ASSUME NEW r \in Rewards PROVE Covered(r)'
    BY DEF AttemptsInv
  <1>3. /\ IsFiniteSet(Owing(r)) /\ paid[r] + Cardinality(Owing(r)) <= attemptCount[r]
        /\ Cardinality(Owing(r)) \in Nat
    BY FS_CardinalityType DEF AttemptsInv, Covered
  <1>4. paid[r] \in Nat /\ attemptCount[r] \in Nat
    BY DEF TypeOK, HistoryTypes, RowTypes
  <1>5. CASE r = Here(s)
    <2>1. Owing(r)' = Owing(r) \ {s} /\ s \in Owing(r)
      BY <1>0, <1>2, <1>5 DEF Owing, Holders, Holding
    <2>2. /\ IsFiniteSet(Owing(r)') /\ Cardinality(Owing(r)') = Cardinality(Owing(r)) - 1
          /\ Cardinality(Owing(r)') \in Nat
      BY <1>3, <2>1, FS_RemoveElement, FS_CardinalityType
    <2>3. paid'[r] = paid[r] + 1
      BY <1>1, <1>5 DEF TypeOK, HistoryTypes
    <2>4. paid'[r] + Cardinality(Owing(r)') <= attemptCount'[r]
      BY <1>1, <1>3, <1>4, <2>2, <2>3
    <2> QED
      BY <2>2, <2>4 DEF Covered
  <1>6. CASE r # Here(s)
    <2>1. Owing(r)' = Owing(r)
      BY <1>2, <1>6 DEF Owing, Holders
    <2>2. paid'[r] = paid[r]
      BY <1>1, <1>6 DEF TypeOK, HistoryTypes
    <2> QED
      BY <1>1, <1>3, <2>1, <2>2 DEF Covered
  <1> QED
    BY <1>5, <1>6

(* The other steps of a run: none of them comes to owe a credit.             *)
LEMMA AttemptsRun ==
    ASSUME TypeOK, AttemptsInv, NEW s \in Slots,
           \/ TakeJob(s) \/ FetchReward(s) \/ MintAsset(s) \/ RecordTransfer(s)
           \/ Settle(s) \/ Notify(s) \/ Fault(s)
    PROVE  AttemptsInv'
  <1>0. RunType
    BY DEF TypeOK
  <1>1. UNCHANGED <<paid, attemptCount>>
    BY DEF TakeJob, FetchReward, MintAsset, RecordTransfer, Settle, Notify, Fault,
           rows, history
  <1>2. CASE TakeJob(s)
    BY <1>0, <1>1, <1>2, AttemptsQuiet DEF TakeJob, RunType, Here
  <1>3. CASE FetchReward(s)
    BY <1>0, <1>1, <1>3, GoToFacts, AttemptsQuiet DEF FetchReward
  <1>4. ASSUME NEW pc \in {"transfer", "notify"}, GoTo(s, pc) PROVE AttemptsInv'
    BY <1>0, <1>1, <1>4, GoToFacts, AttemptsQuiet
  <1>5. ASSUME NEW state, NEW made, Leave(s, state, made) PROVE AttemptsInv'
    <2>1. \A t \in Slots : run'[t] = run[t] \/ run'[t].pc \notin Holding
      BY <1>0, <1>5, LeaveQuiet
    <2> QED
      BY <1>1, <2>1, AttemptsQuiet DEF Holding, Here
  <1> QED
    BY <1>2, <1>3, <1>4, <1>5
    DEF MintAsset, RecordTransfer, Settle, Notify, Fault, Reject, Complete

LEMMA AttemptsNext == TypeOK /\ AttemptsInv /\ [Next]_vars => AttemptsInv'
  <1> SUFFICES ASSUME TypeOK, AttemptsInv, [Next]_vars PROVE AttemptsInv'
    OBVIOUS
  <1>1. ASSUME NEW s \in Slots, TakeJob(s) \/ RunStep(s) \/ Fault(s) PROVE AttemptsInv'
    BY <1>1, AttemptsClaim, AttemptsProvider, AttemptsRun DEF RunStep
  <1>2. ASSUME NEW i \in Instances, Crash(i) PROVE AttemptsInv'
    BY <1>2, AttemptsQuiet DEF Crash, rows, history, IdleRun, Here
  <1>3. ASSUME UNCHANGED <<paid, attemptCount, run>> PROVE AttemptsInv'
    BY <1>3, AttemptsQuiet DEF Here
  <1>4. CASE \/ \E i \in Instances, r \in Rewards : CreatePrize(i, r)
             \/ \E c \in Calls, i \in Instances, r \in Rewards : EnqueueCreate(c, i, r)
    BY <1>3, <1>4 DEF CreatePrize, EnqueueCreate, history
  <1>5. CASE \/ \E c \in Calls, i \in Instances : RetryRead(c, i)
             \/ \E c \in Calls : CallStep(c) \/ AbortCall(c)
    <2>1. ASSUME NEW c \in Calls, RetryUpdate(c) PROVE AttemptsInv'
      BY <1>3, <2>1 DEF RetryUpdate
    <2> QED
      BY <1>3, <1>5, <2>1 DEF RetryRead, CallStep, AddCallJob, AbortCall, rows, history
  <1>6. CASE \E i \in Instances : BootStep(i)
    BY <1>3, <1>6 DEF BootStep, Boot, Scan, Dispatch, rows, history
  <1>7. CASE UNCHANGED vars
    BY <1>3, <1>7 DEF rows, history, vars
  <1>8. CASE \E j \in Jobs : BackoffElapsed(j) \/ Stalled(j) \/ Evict(j)
    BY <1>3, <1>8 DEF BackoffElapsed, Stalled, Evict, rows, history
  <1> QED
    BY <1>1, <1>2, <1>4, <1>5, <1>6, <1>7, <1>8 DEF Next

(* Every attempt belongs to the creation of the row or to an update of a     *)
(* retry: the claim uses up what made the row claimable.                     *)
LEMMA ReleasesQuiet ==
    ASSUME TypeOK, ReleasesInv, UNCHANGED <<attemptCount, resets>>,
           \A r \in Rewards :
             \/ status'[r] = status[r] \/ status'[r] \notin {"NONE", "PENDING"}
             \/ status[r] = "NONE"
    PROVE  ReleasesInv'
  <1> SUFFICES ASSUME NEW r \in Rewards
               PROVE  attemptCount'[r] + Claimable(r)' <= 1 + resets'[r]
    BY DEF ReleasesInv
  <1>1. /\ attemptCount[r] + Claimable(r) <= 1 + resets[r]
        /\ attemptCount[r] \in Nat /\ resets[r] \in Nat
    BY DEF ReleasesInv, TypeOK, RowTypes, HistoryTypes
  <1>2. Claimable(r)' = Claimable(r) \/ Claimable(r)' = 0 \/ Claimable(r) = 1
    BY DEF Claimable
  <1>3. Claimable(r) \in 0 .. 1 /\ Claimable(r)' \in 0 .. 1
    BY DEF Claimable
  <1> QED
    BY <1>1, <1>2, <1>3

LEMMA ReleasesClaim ==
    ASSUME TypeOK, ReleasesInv, NEW s \in Slots, Claim(s)
    PROVE  ReleasesInv'
  <1>1. Here(s) \in Rewards
    BY HereFacts DEF TypeOK, Claim, ClaimIf
  <1>2. CASE status[Here(s)] # "PENDING"
    BY <1>2, ReleasesQuiet DEF Claim, ClaimIf, history
  <1>3. CASE status[Here(s)] = "PENDING"
    <2>1. /\ status' = [status EXCEPT ![Here(s)] = "PROCESSING"]
          /\ attemptCount' = [attemptCount EXCEPT ![Here(s)] = @ + 1]
          /\ UNCHANGED resets
      BY <1>3 DEF Claim, ClaimIf, history
    <2> QED
      BY <1>1, <1>3, <2>1
      DEF ReleasesInv, Claimable, TypeOK, RowTypes, HistoryTypes
  <1> QED
    BY <1>2, <1>3

LEMMA ReleasesNext == TypeOK /\ ReleasesInv /\ [Next]_vars => ReleasesInv'
  <1> SUFFICES ASSUME TypeOK, ReleasesInv, [Next]_vars PROVE ReleasesInv'
    OBVIOUS
  <1>1. ASSUME NEW s \in Slots, Settle(s) PROVE ReleasesInv'
    <2>1. \A r \in Rewards : status'[r] = status[r] \/ status'[r] = "SUCCEEDED"
      BY <1>1 DEF Settle, TypeOK, RowTypes
    <2> QED
      BY <1>1, <2>1, ReleasesQuiet DEF Settle, history
  <1>2. ASSUME NEW r \in Rewards, status[r] = "NONE",
               status' = [status EXCEPT ![r] = "PENDING"],
               UNCHANGED <<attemptCount, resets>>
        PROVE  ReleasesInv'
    <2>1. \A q \in Rewards : status'[q] = status[q] \/ status[q] = "NONE"
      BY <1>2 DEF TypeOK, RowTypes
    <2> QED
      BY <1>2, <2>1, ReleasesQuiet
  <1>3. ASSUME NEW c \in Calls, RetryUpdate(c) PROVE ReleasesInv'
    BY <1>3
    DEF RetryUpdate, ReleasesInv, Claimable, TypeOK, RowTypes, CallType, HistoryTypes
  <1>4. ASSUME UNCHANGED <<status, attemptCount, resets>> PROVE ReleasesInv'
    BY <1>4, ReleasesQuiet
  <1>5. ASSUME NEW s \in Slots, TakeJob(s) \/ RunStep(s) \/ Fault(s) PROVE ReleasesInv'
    BY <1>1, <1>4, <1>5, ReleasesClaim
    DEF TakeJob, RunStep, FetchReward, CallProvider, MintAsset, RecordTransfer,
        Notify, Fault, rows, history
  <1>6. CASE \/ \E i \in Instances, r \in Rewards : CreatePrize(i, r)
             \/ \E c \in Calls, i \in Instances, r \in Rewards : EnqueueCreate(c, i, r)
    BY <1>2, <1>6 DEF CreatePrize, EnqueueCreate, history
  <1>7. CASE \/ \E c \in Calls, i \in Instances : RetryRead(c, i)
             \/ \E c \in Calls : CallStep(c) \/ AbortCall(c)
    BY <1>3, <1>4, <1>7 DEF RetryRead, CallStep, AddCallJob, AbortCall, rows, history
  <1>8. CASE \E j \in Jobs : BackoffElapsed(j) \/ Stalled(j) \/ Evict(j)
    BY <1>4, <1>8 DEF BackoffElapsed, Stalled, Evict, rows, history
  <1>9. CASE \E i \in Instances : BootStep(i) \/ Crash(i)
    BY <1>4, <1>9 DEF BootStep, Boot, Scan, Dispatch, Crash, rows, history
  <1>10. CASE UNCHANGED vars
    BY <1>4, <1>10 DEF rows, history, vars
  <1> QED
    BY <1>5, <1>6, <1>7, <1>8, <1>9, <1>10 DEF Next

LEMMA CreditsInvariance == Spec => [](TypeOK /\ AttemptsInv /\ ReleasesInv)
  <1>1. Init => AttemptsInv
    <2> SUFFICES ASSUME Init, NEW r \in Rewards PROVE Covered(r)
      BY DEF AttemptsInv
    <2>1. Owing(r) = {}
      BY DEF Init, Owing, Holders, IdleRun
    <2> QED
      BY <2>1, FS_EmptySet DEF Covered, Init
  <1>2. Init => ReleasesInv
    BY DEF Init, ReleasesInv, Claimable
  <1> QED
    BY <1>1, <1>2, TypeInit, TypeNext, AttemptsNext, ReleasesNext, PTL DEF Spec

(* The provider credits a reward no more often than the row counts attempts, *)
(* and the row no more attempts than it was created and put back by retries: *)
(* one release is good for one claim, and one claim for one credit.          *)
THEOREM OneCreditPerRelease == Spec => []CreditPerRelease
  <1>1. TypeOK /\ AttemptsInv /\ ReleasesInv => CreditPerRelease
    <2> SUFFICES ASSUME TypeOK, AttemptsInv, ReleasesInv, NEW r \in Rewards
                 PROVE  /\ paid[r] + Cardinality(Owing(r)) <= attemptCount[r]
                        /\ attemptCount[r] <= 1 + resets[r]
      BY DEF CreditPerRelease, Owing
    <2>1. paid[r] + Cardinality(Owing(r)) <= attemptCount[r]
      BY DEF AttemptsInv, Covered
    <2>2. attemptCount[r] + Claimable(r) <= 1 + resets[r] /\ Claimable(r) \in 0 .. 1
      BY DEF ReleasesInv, Claimable
    <2> QED
      BY <2>1, <2>2 DEF TypeOK, RowTypes, HistoryTypes
  <1> QED
    BY <1>1, CreditsInvariance, PTL

(* A slot before the provider leaves room for its credit.                    *)
LEMMA OwingBound ==
    ASSUME TypeOK, AttemptsInv, ReleasesInv, NEW s \in Slots,
           run[s].pc = "provider"
    PROVE  paid[Here(s)] <= resets[Here(s)]
  <1>1. PICK r \in Rewards : r = Here(s)
    BY HereFacts DEF TypeOK
  <1>2. /\ IsFiniteSet(Owing(r)) /\ paid[r] + Cardinality(Owing(r)) <= attemptCount[r]
        /\ s \in Owing(r)
    BY <1>1 DEF AttemptsInv, Covered, Owing, Holders, Holding
  <1>3. Cardinality(Owing(r)) \in Nat /\ Cardinality(Owing(r)) # 0
    BY <1>2, FS_CardinalityType, FS_EmptySet
  <1>4. /\ attemptCount[r] + Claimable(r) <= 1 + resets[r] /\ Claimable(r) \in 0 .. 1
        /\ paid[r] \in Nat /\ attemptCount[r] \in Nat /\ resets[r] \in Nat
    BY DEF ReleasesInv, Claimable, TypeOK, RowTypes, HistoryTypes
  <1>5. paid[r] <= resets[r]
    BY <1>2, <1>3, <1>4
  <1> QED
    BY <1>1, <1>5

-----------------------------------------------------------------------------
(* The pipeline implements the ledger.                                      *)

LEMMA LedgerInit == Init => Ledger!Init
  BY PipelineAssumption DEF Init, retried, Ledger!Init, PhaseOf, PipelineAssumption

(* What the ledger sees.                                                    *)
Account == <<[r \in Rewards |-> PhaseOf(r)], paid, resets>>

(* A step that changes no row, credit or retry is a stutter of the ledger.  *)
LEMMA LedgerStutter ==
    ASSUME UNCHANGED <<status, paid, resets>>
    PROVE  UNCHANGED Account
  <1>1. \A r \in Rewards : PhaseOf(r)' = PhaseOf(r)
    BY RetriedSame DEF PhaseOf
  <1> QED
    BY <1>1 DEF Account

(* One reward that nobody retried moves from one phase to another.          *)
LEMMA LedgerMove ==
    ASSUME NEW r \in Rewards, NEW from, NEW to,
           PhaseOf(r) = from, PhaseOf(r)' = to,
           \A q \in Rewards \ {r} : PhaseOf(q)' = PhaseOf(q)
    PROVE  Ledger!Move(r, from, to)
  BY DEF Ledger!Move

(* A reward somebody retried stays where the ledger has it.                 *)
LEMMA LedgerStay ==
    ASSUME NEW r \in Rewards, r \in retried, UNCHANGED <<paid, resets>>,
           \A q \in Rewards \ {r} : PhaseOf(q)' = PhaseOf(q)
    PROVE  UNCHANGED Account
  <1>1. PhaseOf(r)' = PhaseOf(r)
    BY RetriedSame DEF PhaseOf
  <1>2. \A q \in Rewards : PhaseOf(q)' = PhaseOf(q)
    BY <1>1
  <1> QED
    BY <1>2 DEF Account

LEMMA LedgerNext ==
    ASSUME TypeOK, Custody, AttemptsInv, ReleasesInv, [Next]_vars
    PROVE  [Ledger!Next]_Account
  <1> USE DEF TypeOK
  <1>1. ASSUME NEW s \in Slots, Claim(s) PROVE [Ledger!Next]_Account
    <2>1. PICK r \in Rewards : r = Here(s)
      BY <1>1, HereFacts DEF Claim, ClaimIf
    <2>2. UNCHANGED <<paid, resets, retried>>
      BY <1>1, RetriedSame DEF Claim, ClaimIf, history
    <2>3. CASE status[r] # "PENDING"
      BY <1>1, <2>1, <2>2, <2>3, LedgerStutter DEF Claim, ClaimIf
    <2>4. CASE status[r] = "PENDING"
      <3>1. status' = [status EXCEPT ![r] = "PROCESSING"]
        BY <1>1, <2>1, <2>4 DEF Claim, ClaimIf
      <3>2. \A q \in Rewards \ {r} : PhaseOf(q)' = PhaseOf(q)
        BY <2>2, <3>1 DEF PhaseOf, RowTypes
      <3>3. CASE r \in retried
        BY <2>2, <3>2, <3>3, LedgerStay
      <3>4. CASE r \notin retried
        <4>1. paid[r] = 0
          BY <2>1, <2>4, <3>4 DEF Custody, UnclaimedUnpaid
        <4>2. PhaseOf(r) = "owed" /\ PhaseOf(r)' = "claimed"
          BY <2>2, <2>4, <3>1, <3>4, <4>1 DEF PhaseOf, RowTypes
        <4> QED
          BY <2>2, <3>2, <4>2, LedgerMove DEF Ledger!Next, Ledger!Claim
      <3> QED
        BY <3>3, <3>4
    <2> QED
      BY <2>3, <2>4
  <1>2. ASSUME NEW s \in Slots, CallProvider(s) PROVE [Ledger!Next]_Account
    <2>1. PICK r \in Rewards : r = Here(s)
      BY <1>2, HereFacts DEF CallProvider
    <2>2. /\ paid' = [paid EXCEPT ![r] = @ + 1]
          /\ UNCHANGED <<status, resets, retried>>
      BY <1>2, <2>1, RetriedSame DEF CallProvider, rows
    <2>3. \A q \in Rewards \ {r} : PhaseOf(q)' = PhaseOf(q)
      BY <2>2 DEF PhaseOf, HistoryTypes
    <2>4. Ledger!Pay(r)
      BY <2>2 DEF Ledger!Pay
    <2>5. CASE r \in retried
      <3>1. PhaseOf(r) = "retried" /\ \A q \in Rewards : PhaseOf(q)' = PhaseOf(q)
        BY <2>2, <2>3, <2>5 DEF PhaseOf
      <3>2. paid[r] <= resets[r]
        BY <1>2, <2>1, OwingBound DEF CallProvider
      <3> QED
        BY <2>4, <3>1, <3>2 DEF Ledger!Next, Ledger!CreditRetried
    <2>6. CASE r \notin retried
      <3>1. paid[r] = 0 /\ status[r] = "PROCESSING"
        BY <1>2, <2>1, <2>6 DEF CallProvider, Custody, HolderPaid, HolderStatus, Holding
      <3>2. paid'[r] = 1
        BY <2>1, <2>2, <3>1 DEF HistoryTypes
      <3>3. PhaseOf(r) = "claimed" /\ PhaseOf(r)' = "credited"
        BY <2>2, <2>6, <3>1, <3>2 DEF PhaseOf
      <3> QED
        BY <2>3, <2>4, <3>3, LedgerMove DEF Ledger!Next, Ledger!Credit
    <2> QED
      BY <2>5, <2>6
  <1>3. ASSUME NEW s \in Slots, Settle(s) PROVE [Ledger!Next]_Account
    <2>1. PICK r \in Rewards : r = Here(s)
      BY <1>3, HereFacts DEF Settle
    <2>2. /\ status' = [status EXCEPT ![r] = "SUCCEEDED"]
          /\ UNCHANGED <<paid, resets, retried>>
      BY <1>3, <2>1, RetriedSame DEF Settle, history
    <2>3. \A q \in Rewards \ {r} : PhaseOf(q)' = PhaseOf(q)
      BY <2>2 DEF PhaseOf, RowTypes
    <2>4. CASE r \in retried
      BY <2>2, <2>3, <2>4, LedgerStay
    <2>5. CASE r \notin retried
      <3>1. paid[r] > 0 /\ status[r] = "PROCESSING"
        BY <1>3, <2>1, <2>5 DEF Settle, Custody, HolderPaid, HolderStatus, Holding
      <3>2. PhaseOf(r) = "credited" /\ PhaseOf(r)' = "settled"
        BY <2>1, <2>2, <2>5, <3>1 DEF PhaseOf, RowTypes
      <3> QED
        BY <2>2, <2>3, <3>2, LedgerMove DEF Ledger!Next, Ledger!Settle
    <2> QED
      BY <2>4, <2>5
  <1>4. ASSUME NEW r \in Rewards, status[r] = "NONE",
               status' = [status EXCEPT ![r] = "PENDING"],
               UNCHANGED <<paid, resets>>
        PROVE  [Ledger!Next]_Account
    <2>1. \A q \in Rewards \ {r} : PhaseOf(q)' = PhaseOf(q)
      BY <1>4, RetriedSame DEF PhaseOf, RowTypes
    <2>2. CASE r \in retried
      BY <1>4, <2>1, <2>2, LedgerStay
    <2>3. CASE r \notin retried
      <3>1. PhaseOf(r) = "none" /\ PhaseOf(r)' = "owed"
        BY <1>4, <2>3, RetriedSame DEF PhaseOf, RowTypes
      <3> QED
        BY <1>4, <2>1, <3>1, LedgerMove DEF Ledger!Next, Ledger!Owe
    <2> QED
      BY <2>2, <2>3
  <1>5. ASSUME NEW c \in Calls, RetryUpdate(c) PROVE [Ledger!Next]_Account
    <2> DEFINE S == call[c].todo
    <2>1. retried' = retried \cup S /\ S \subseteq Rewards
      BY <1>5, RetriedMore
    <2>2. /\ \A r \in Rewards : status'[r] = IF r \in S THEN "PENDING" ELSE status[r]
          /\ resets' = [r \in Rewards |-> IF r \in S THEN resets[r] + 1 ELSE resets[r]]
          /\ UNCHANGED paid
      BY <1>5 DEF RetryUpdate
    <2> HIDE DEF S
    <2>3. \A r \in Rewards :
            PhaseOf(r)' = IF r \in S THEN "retried" ELSE PhaseOf(r)
      BY <2>1, <2>2 DEF PhaseOf
    <2>4. Ledger!Retry(S)
      BY <2>2, <2>3 DEF Ledger!Retry
    <2> QED
      BY <2>1, <2>4 DEF Ledger!Next
  <1>6. ASSUME UNCHANGED <<status, paid, resets>> PROVE [Ledger!Next]_Account
    BY <1>6, LedgerStutter
  <1>7. CASE UNCHANGED vars
    BY <1>6, <1>7 DEF vars, rows, history
  <1>8. ASSUME NEW s \in Slots, TakeJob(s) \/ RunStep(s) \/ Fault(s)
        PROVE  [Ledger!Next]_Account
    BY <1>1, <1>2, <1>3, <1>6, <1>8
    DEF TakeJob, RunStep, FetchReward, MintAsset, RecordTransfer, Notify, Fault,
        rows, history
  <1>9. CASE \E j \in Jobs : BackoffElapsed(j) \/ Stalled(j) \/ Evict(j)
    BY <1>6, <1>9 DEF BackoffElapsed, Stalled, Evict, rows, history
  <1>10. CASE \/ \E i \in Instances, r \in Rewards : CreatePrize(i, r)
              \/ \E c \in Calls, i \in Instances, r \in Rewards : EnqueueCreate(c, i, r)
    BY <1>4, <1>10 DEF CreatePrize, EnqueueCreate, history
  <1>11. CASE \/ \E c \in Calls, i \in Instances : RetryRead(c, i)
              \/ \E c \in Calls : CallStep(c) \/ AbortCall(c)
    BY <1>5, <1>6, <1>11 DEF RetryRead, CallStep, AddCallJob, AbortCall, rows, history
  <1>12. CASE \E i \in Instances : BootStep(i) \/ Crash(i)
    BY <1>6, <1>12 DEF BootStep, Boot, Scan, Dispatch, Crash, rows, history
  <1> QED
    BY <1>7, <1>8, <1>9, <1>10, <1>11, <1>12 DEF Next

(* Every behaviour of the pipeline is one of the ledger: each credit of the *)
(* provider is a step of it.  A reward nobody retried is owed, claimed,     *)
(* credited and settled in this order; whatever retries bring, each adds    *)
(* one credit at most.                                                      *)
THEOREM Refinement == Spec => ImplementsLedger
  <1>1. Init => Ledger!Init
    BY LedgerInit
  <1>2. TypeOK /\ Custody /\ AttemptsInv /\ ReleasesInv /\ [Next]_vars
         => [Ledger!Next]_Account
    BY LedgerNext
  <1> QED
    BY <1>1, <1>2, Invariance, CreditsInvariance, PTL
    DEF Spec, ImplementsLedger, Ledger!Spec, Ledger!account, Account

(* The ledger bounds the credits: exactly one for a reward that is credited *)
(* or settled, none before, and one more by every retry.                    *)
THEOREM LedgerPromise == Ledger!Spec => []Ledger!CreditsPromised
  <1> DEFINE Counts == /\ paid \in [Rewards -> Nat] /\ resets \in [Rewards -> Nat]
                       /\ Ledger!CreditsPromised
  <1>1. Ledger!Init => Counts
    BY DEF Ledger!Init, Ledger!CreditsPromised
  <1>2. Counts /\ [Ledger!Next]_Account => Counts'
    <2> SUFFICES ASSUME Counts, [Ledger!Next]_Account PROVE Counts'
      OBVIOUS
    <2> USE DEF Ledger!CreditsPromised
    <2>1. ASSUME NEW r \in Rewards, NEW from, NEW to,
                 from # "retried", to # "retried", Ledger!Move(r, from, to)
          PROVE  /\ PhaseOf(r) = from /\ PhaseOf(r)' = to
                 /\ \A q \in Rewards \ {r} : PhaseOf(q)' = PhaseOf(q)
      BY <2>1 DEF Ledger!Move
    <2>2. ASSUME NEW r \in Rewards, Ledger!Owe(r) PROVE Counts'
      BY <2>1, <2>2 DEF Ledger!Owe
    <2>3. ASSUME NEW r \in Rewards, Ledger!Claim(r) PROVE Counts'
      BY <2>1, <2>3 DEF Ledger!Claim
    <2>4. ASSUME NEW r \in Rewards, Ledger!Credit(r) PROVE Counts'
      BY <2>1, <2>4 DEF Ledger!Credit, Ledger!Pay
    <2>5. ASSUME NEW r \in Rewards, Ledger!Settle(r) PROVE Counts'
      BY <2>1, <2>5 DEF Ledger!Settle
    <2>6. ASSUME NEW r \in Rewards, Ledger!CreditRetried(r) PROVE Counts'
      BY <2>6 DEF Ledger!CreditRetried, Ledger!Pay
    <2>7. ASSUME NEW S \in SUBSET Rewards, Ledger!Retry(S) PROVE Counts'
      BY <2>7 DEF Ledger!Retry
    <2>8. CASE UNCHANGED Account
      BY <2>8 DEF Account
    <2> QED
      BY <2>2, <2>3, <2>4, <2>5, <2>6, <2>7, <2>8 DEF Ledger!Next
  <1> QED
    BY <1>1, <1>2, PTL DEF Ledger!Spec, Ledger!account, Account

(* A step of the pipeline takes a terminal reward nowhere but back to       *)
(* PENDING, and only in a retry.                                            *)
THEOREM Terminal == Spec => TerminalUnlessRetried
  <1> DEFINE Kept == \A r \in Rewards :
        status[r] \in {"SUCCEEDED", "FAILED"} /\ status'[r] # status[r]
            => status'[r] = "PENDING" /\ r \in retried'
  <1>1. TypeOK /\ Custody /\ [Next]_vars => [Kept]_vars
    <2> SUFFICES ASSUME TypeOK, Custody, Next PROVE Kept
      OBVIOUS
    <2> USE DEF TypeOK, RowTypes
    <2>1. ASSUME NEW s \in Slots, Claim(s) PROVE Kept
      BY <2>1 DEF Claim, ClaimIf
    <2>2. ASSUME NEW s \in Slots, Settle(s) PROVE Kept
      <3>1. PICK r \in Rewards : r = Here(s)
        BY <2>2, HereFacts DEF Settle
      <3>2. status' = [status EXCEPT ![r] = "SUCCEEDED"] /\ status[r] # "FAILED"
        BY <2>2, <3>1 DEF Settle, Custody, HolderStatus, NeverFailedAgain, Holding
      <3> QED
        BY <3>2
    <2>3. ASSUME NEW r \in Rewards, status[r] = "NONE",
                 status' = [status EXCEPT ![r] = "PENDING"]
          PROVE  Kept
      BY <2>3
    <2>4. ASSUME NEW c \in Calls, RetryUpdate(c) PROVE Kept
      BY <2>4, RetriedMore DEF RetryUpdate
    <2>5. ASSUME status' = status PROVE Kept
      BY <2>5
    <2>6. ASSUME NEW s \in Slots, TakeJob(s) \/ RunStep(s) \/ Fault(s) PROVE Kept
      BY <2>1, <2>2, <2>5, <2>6
      DEF TakeJob, RunStep, FetchReward, CallProvider, MintAsset, RecordTransfer,
          Notify, Fault, rows
    <2>7. CASE \E j \in Jobs : BackoffElapsed(j) \/ Stalled(j) \/ Evict(j)
      BY <2>5, <2>7 DEF BackoffElapsed, Stalled, Evict, rows
    <2>8. CASE \/ \E i \in Instances, r \in Rewards : CreatePrize(i, r)
               \/ \E c \in Calls, i \in Instances, r \in Rewards : EnqueueCreate(c, i, r)
      BY <2>3, <2>8 DEF CreatePrize, EnqueueCreate
    <2>9. CASE \/ \E c \in Calls, i \in Instances : RetryRead(c, i)
               \/ \E c \in Calls : CallStep(c) \/ AbortCall(c)
      BY <2>4, <2>5, <2>9 DEF RetryRead, CallStep, AddCallJob, AbortCall, rows
    <2>10. CASE \E i \in Instances : BootStep(i) \/ Crash(i)
      BY <2>5, <2>10 DEF BootStep, Boot, Scan, Dispatch, Crash, rows
    <2> QED
      BY <2>6, <2>7, <2>8, <2>9, <2>10 DEF Next
  <1> QED
    BY <1>1, Invariance, PTL DEF Spec, TerminalUnlessRetried

-----------------------------------------------------------------------------
(* A bonus that waits for a worker is not forgotten: what of                 *)
(* BonusEventuallyClaimed is not about fairness.                             *)

\* Somebody is going to bring r to a worker: the queue, the call that created
\* it, or a process that is down, about to scan, or dispatching it.  A job that
\* stalled twice is with the queue too, which lists it as failed.
Queued(r)    == job[MainJob(r)].state \in {"waiting", "active", "delayed", "failed"}
Adding(c, r) == call[c].pc = "add" /\ ~call[c].retry /\ r \in call[c].todo
Finding(i, r) ==
    \/ boot[i].pc \in {"down", "scan"}
    \/ boot[i].pc = "dispatch" /\ r \in boot[i].todo
Tended(r) ==
    \/ Queued(r)
    \/ \E c \in Calls : Adding(c, r)
    \/ \E i \in Instances : Finding(i, r)

Forgotten(r) == status[r] = "PENDING" /\ ~Tended(r)

\* What may make it forgotten: a call fails, the queue drops the record of a
\* failed job, a scan has more unsettled rows than it takes.
Unsettled == {r \in Rewards : status[r] \in {"PENDING", "PROCESSING"}}
Excused(r) ==
    \/ spent'.faults # spent.faults
    \/ job[MainJob(r)].state = "failed"
    \/ ~(IsFiniteSet(Unsettled) /\ Cardinality(Unsettled) <= DispatchLimit)

Remembers ==
    \A r \in Rewards \ (Prizes \cup retried') :
        Forgotten(r)' => Forgotten(r) \/ Excused(r)

\* Only rewards that have a row are worked on, and a job is completed only when
\* its reward has been claimed.
Known(r) == r \in Rewards /\ status[r] # "NONE"

OnlyKnown ==
    /\ \A j \in Jobs : job[j].state # "absent" => Known(RewardOf(j))
    /\ \A s \in Slots : run[s].pc # "idle" => Known(Here(s))
    /\ \A c \in Calls : \A r \in call[c].todo : Known(r)
    /\ \A i \in Instances : \A r \in boot[i].todo : Known(r)

CompletedClaimed ==
    \A r \in Rewards \ (Prizes \cup retried) :
        job[MainJob(r)].state = "completed" => status[r] # "PENDING"

\* What is proved of every step.
Keeps == OnlyKnown' /\ CompletedClaimed' /\ Remembers

LEMMA KnownInit == Init => OnlyKnown /\ CompletedClaimed
  BY JobFacts DEF Init, OnlyKnown, CompletedClaimed, NoEntry, IdleRun, IdleCall, Down

\* Rows stay: what was worked on still has its row.
LEMMA StillKnown ==
    ASSUME OnlyKnown, \A r \in Rewards : Known(r) => Known(r)',
           \A j \in Jobs : job'[j].state # "absent" => Known(RewardOf(j)),
           \A s \in Slots : run'[s].pc # "idle" => Known(Here(s)'),
           \A c \in Calls : \A r \in call'[c].todo : Known(r)',
           \A i \in Instances : \A r \in boot'[i].todo : Known(r)'
    PROVE  OnlyKnown'
  <1>1. \A r : Known(r) => Known(r)'
    BY DEF Known
  <1>2. \A j \in Jobs : job'[j].state # "absent" => Known(RewardOf(j))'
    BY <1>1 DEF RewardOf
  <1>3. \A s \in Slots : run'[s].pc # "idle" => Known(Here(s))'
    BY DEF Known
  <1> QED
    BY <1>2, <1>3 DEF OnlyKnown

\* A step of the queue moves a job on, hands it out, or drops a finished one.
LEMMA KeepsQueue ==
    ASSUME TypeOK, OnlyKnown, CompletedClaimed,
           UNCHANGED <<status, call, boot, retried>>,
           \A s \in Slots : run'[s].pc # "idle" => Known(Here(s)'),
           \A j \in Jobs :
             \/ job'[j].state = job[j].state
             \/ /\ job[j].state # "absent"
                /\ job'[j].state \in {"waiting", "active", "delayed", "failed"}
             \/ job[j].state \in {"completed", "failed"} /\ job'[j].state = "absent"
    PROVE  Keeps
  <1>1. OnlyKnown'
    BY StillKnown DEF OnlyKnown, Known
  <1>2. CompletedClaimed'
    BY JobFacts DEF CompletedClaimed
  <1>3. ASSUME NEW r \in Rewards, Forgotten(r)', ~Forgotten(r), ~Excused(r) PROVE FALSE
    <2>1. Queued(r)
      BY <1>3 DEF Forgotten, Tended, Adding, Finding
    <2>2. ~Queued(r)'
      BY <1>3 DEF Forgotten, Tended
    <2>3. MainJob(r) \in Jobs /\ MainJob(r)' = MainJob(r)
      <3>1. MainJob(r) \in Jobs
        BY JobFacts
      <3> QED
        BY <3>1 DEF MainJob
    <2> QED
      BY <1>3, <2>1, <2>2, <2>3 DEF Queued, Excused
  <1> QED
    BY <1>1, <1>2, <1>3 DEF Keeps, Remembers

LEMMA KeepsTake ==
    ASSUME TypeOK, OnlyKnown, CompletedClaimed,
           \/ \E s \in Slots : TakeJob(s)
           \/ \E j \in Jobs : BackoffElapsed(j) \/ Stalled(j) \/ Evict(j)
    PROVE  Keeps
  <1> USE DEF TypeOK, JobType
  <1>1. ASSUME NEW s \in Slots, TakeJob(s) PROVE Keeps
    <2>1. PICK j \in Jobs :
            /\ job[j].state = "waiting"
            /\ job' = [job EXCEPT ![j].state = "active", ![j].lock = s]
            /\ run' = [run EXCEPT ![s] = [pc |-> "claim", job |-> j]]
      BY <1>1 DEF TakeJob
    <2>2. \A t \in Slots : run'[t].pc # "idle" => Known(Here(t)')
      <3>1. run'[s].job = j /\ Known(RewardOf(j))
        BY <2>1 DEF RunType, OnlyKnown
      <3>2. \A t \in Slots \ {s} : run'[t] = run[t]
        BY <2>1 DEF RunType
      <3> QED
        BY <3>1, <3>2 DEF OnlyKnown, Here
    <2>3. \A k \in Jobs :
            \/ job'[k].state = job[k].state
            \/ job[k].state # "absent" /\ job'[k].state = "active"
      BY <2>1
    <2>4. UNCHANGED <<status, call, boot, retried>>
      BY <1>1, RetriedSame DEF TakeJob, rows, history
    <2> QED
      BY <2>2, <2>3, <2>4, KeepsQueue
  <1>2. ASSUME NEW j \in Jobs, UNCHANGED <<rows, run, call, boot, history, spent>>,
               \A k \in Jobs \ {j} : job'[k] = job[k],
               \/ /\ job[j].state # "absent"
                  /\ job'[j].state \in {"waiting", "active", "delayed", "failed"}
               \/ job[j].state \in {"completed", "failed"} /\ job'[j].state = "absent"
        PROVE  Keeps
    <2>1. \A s \in Slots : run'[s].pc # "idle" => Known(Here(s)')
      BY <1>2 DEF OnlyKnown, Here
    <2>2. UNCHANGED <<status, call, boot, retried>>
      BY <1>2, RetriedSame DEF rows, history
    <2> QED
      BY <1>2, <2>1, <2>2, KeepsQueue
  <1>3. ASSUME NEW j \in Jobs, BackoffElapsed(j) PROVE Keeps
    BY <1>2, <1>3 DEF BackoffElapsed
  <1>4. ASSUME NEW j \in Jobs, Stalled(j) PROVE Keeps
    <2>1. /\ job[j].state = "active"
          /\ job' = [job EXCEPT
                ![j].state  = IF job[j].stalls = 0 THEN "waiting" ELSE "failed",
                ![j].stalls = 1, ![j].lock = None]
          /\ UNCHANGED <<rows, run, call, boot, history, spent>>
      BY <1>4, Zenon DEF Stalled
    <2>2. /\ \A k \in Jobs \ {j} : job'[k] = job[k]
          /\ job'[j].state \in {"waiting", "failed"}
      BY <2>1
    <2> QED
      BY <1>2, <2>1, <2>2
  <1>5. ASSUME NEW j \in Jobs, Evict(j) PROVE Keeps
    <2>1. job[j].state \in {"completed", "failed"} /\ job' = [job EXCEPT ![j] = NoEntry]
      BY <1>5 DEF Evict
    <2>2. job'[j].state = "absent" /\ \A k \in Jobs \ {j} : job'[k] = job[k]
      BY <2>1 DEF NoEntry
    <2>3. UNCHANGED <<rows, run, call, boot, history, spent>>
      BY <1>5 DEF Evict
    <2> QED
      BY <1>2, <2>1, <2>2, <2>3
  <1> QED
    BY <1>1, <1>3, <1>4, <1>5

\* A step of a run either leaves the queue alone or ends the run.  It calls the
\* job completed when the reward was not PENDING, or has been settled.
LEMMA LeaveEffect ==
    ASSUME TypeOK, NEW s \in Slots, run[s].pc # "idle", NEW state, NEW made,
           Leave(s, state, made)
    PROVE  /\ \A t \in Slots : run'[t].pc # "idle" => run'[t] = run[t]
           /\ \A j \in Jobs \ {run[s].job} : job'[j] = job[j]
           /\ job'[run[s].job].state \in {job[run[s].job].state, state}
           /\ run[s].job \in Jobs
  <1>1. run[s].job \in Jobs
    BY HereFacts DEF TypeOK
  <1> QED
    BY <1>1 DEF Leave, IdleRun, TypeOK, RunType, JobType

LEMMA RunEffect ==
    ASSUME TypeOK, Custody, NEW s \in Slots, RunStep(s) \/ Fault(s)
    PROVE  /\ UNCHANGED <<call, boot, retried>>
           /\ \A r \in Rewards : status'[r] # status[r] => status'[r] \in {"PROCESSING", "SUCCEEDED"}
           /\ \A t \in Slots : run'[t].pc # "idle" => run[t].pc # "idle" /\ Here(t)' = Here(t)
           /\ \A j \in Jobs :
                \/ job'[j].state = job[j].state
                \/ /\ run[s].pc # "idle" /\ j = run[s].job
                   /\ \/ job'[j].state \in {"delayed", "failed"}
                      \/ /\ job'[j].state = "completed"
                         /\ Here(s) \in retried \/ status'[Here(s)] # "PENDING"
  <1> DEFINE Moved == \A t \in Slots :
               run'[t].pc # "idle" => run[t].pc # "idle" /\ Here(t)' = Here(t)
             Outcome(ends) == \A j \in Jobs :
               \/ job'[j].state = job[j].state
               \/ run[s].pc # "idle" /\ j = run[s].job /\ job'[j].state \in ends
  <1>1. run[s].pc # "idle" /\ Here(s) \in Rewards /\ RunType
    BY HereFacts
    DEF TypeOK, RunStep, Claim, ClaimIf, FetchReward, CallProvider, MintAsset,
        RecordTransfer, Settle, Notify, Fault
  <1>2. UNCHANGED <<call, boot, retried>>
    BY RetriedSame DEF RunStep, Claim, ClaimIf, FetchReward, CallProvider, MintAsset,
           RecordTransfer, Settle, Notify, Fault, history
  <1>3. \A r \in Rewards : status'[r] # status[r] => status'[r] \in {"PROCESSING", "SUCCEEDED"}
    BY <1>1
    DEF RunStep, Claim, ClaimIf, FetchReward, CallProvider, MintAsset,
        RecordTransfer, Settle, Notify, Fault, rows, TypeOK, RowTypes
  <1>4. ASSUME NEW pc, GoTo(s, pc), UNCHANGED job PROVE Moved /\ Outcome({})
    BY <1>1, <1>4, GoToFacts
  <1>5. ASSUME Reject(s) PROVE Moved /\ Outcome({"delayed", "failed"})
    BY <1>1, <1>5, LeaveEffect DEF Reject, Here
  <1>6. ASSUME Complete(s) PROVE Moved /\ Outcome({"completed"})
    BY <1>1, <1>6, LeaveEffect DEF Complete, Here
  <1>7. ASSUME Complete(s), RunStep(s)
        PROVE  Here(s) \in retried \/ status'[Here(s)] # "PENDING"
    <2>1. run'[s].pc = "idle"
      BY <1>1, <1>7 DEF Complete, Leave, IdleRun, RunType
    <2>2. Claim(s) \/ Notify(s) \/ MintAsset(s) \/ RecordTransfer(s)
      BY <1>1, <1>7, <2>1, GoToFacts DEF RunStep, FetchReward, CallProvider, Settle
    <2>3. CASE Claim(s)
      BY <1>1, <2>1, <2>3, GoToFacts DEF Claim, ClaimIf
    <2>4. CASE Notify(s)
      BY <1>1, <2>4 DEF Notify, Custody, HolderStatus, Holding
    <2>5. CASE MintAsset(s) \/ RecordTransfer(s)
      BY <1>1, <2>5
      DEF MintAsset, RecordTransfer, rows, Custody, HolderStatus, Holding
    <2> QED
      BY <2>2, <2>3, <2>4, <2>5
  <1> DEFINE Good == Moved /\ \A j \in Jobs :
                \/ job'[j].state = job[j].state
                \/ /\ run[s].pc # "idle" /\ j = run[s].job
                   /\ \/ job'[j].state \in {"delayed", "failed"}
                      \/ /\ job'[j].state = "completed"
                         /\ Here(s) \in retried \/ status'[Here(s)] # "PENDING"
  <1>8. CASE Complete(s) /\ RunStep(s)
    <2>1. Good
      BY <1>6, <1>7, <1>8
    <2> QED
      BY <1>2, <1>3, <2>1
  <1>9. CASE Reject(s) \/ \E pc : GoTo(s, pc) /\ UNCHANGED job
    <2>1. Good
      BY <1>4, <1>5, <1>9
    <2> QED
      BY <1>2, <1>3, <2>1
  <1> HIDE DEF Moved, Outcome
  <1>10. \/ Complete(s) /\ RunStep(s)
         \/ Reject(s)
         \/ \E pc : GoTo(s, pc) /\ UNCHANGED job
    BY DEF RunStep, Claim, ClaimIf, FetchReward, CallProvider, MintAsset,
           RecordTransfer, Settle, Notify, Fault
  <1> QED
    BY <1>8, <1>9, <1>10

LEMMA KeepsRun ==
    ASSUME TypeOK, Custody, OnlyKnown, CompletedClaimed, NEW s \in Slots,
           RunStep(s) \/ Fault(s)
    PROVE  Keeps
  <1>1. /\ UNCHANGED <<call, boot, retried>>
        /\ \A r \in Rewards : status'[r] # status[r] => status'[r] \in {"PROCESSING", "SUCCEEDED"}
        /\ \A t \in Slots : run'[t].pc # "idle" => run[t].pc # "idle" /\ Here(t)' = Here(t)
    BY RunEffect
  <1>2. \A j \in Jobs :
          \/ job'[j].state = job[j].state
          \/ /\ run[s].pc # "idle" /\ j = run[s].job
             /\ \/ job'[j].state \in {"delayed", "failed"}
                \/ /\ job'[j].state = "completed"
                   /\ Here(s) \in retried \/ status'[Here(s)] # "PENDING"
    BY RunEffect
  <1>3. OnlyKnown'
    <2>1. \A r \in Rewards : Known(r) => Known(r)'
      BY <1>1 DEF Known
    <2>2. \A j \in Jobs : job'[j].state # "absent" => Known(RewardOf(j))
      BY <1>2 DEF OnlyKnown, Here
    <2>3. \A t \in Slots : run'[t].pc # "idle" => Known(Here(t)')
      BY <1>1 DEF OnlyKnown
    <2> QED
      BY <1>1, <2>1, <2>2, <2>3, StillKnown DEF OnlyKnown, Known
  <1>4. ASSUME NEW r \in Rewards \ retried, status'[r] = "PENDING"
        PROVE  /\ status[r] = "PENDING"
               /\ \/ job'[MainJob(r)].state = job[MainJob(r)].state
                  \/ job'[MainJob(r)].state \in {"delayed", "failed"}
    <2>1. status[r] = "PENDING"
      BY <1>1, <1>4
    <2>2. MainJob(r) \in Jobs /\ (MainJob(r) = run[s].job => Here(s) = r)
      BY JobFacts DEF MainJob, Here, RewardOf
    <2> QED
      BY <1>2, <1>4, <2>1, <2>2
  <1>5. CompletedClaimed'
    BY <1>1, <1>4 DEF CompletedClaimed, MainJob
  <1>6. ASSUME NEW r \in Rewards \ retried, Forgotten(r)', ~Forgotten(r) PROVE FALSE
    <2>1. status'[r] = "PENDING" /\ ~Queued(r)'
      BY <1>6 DEF Forgotten, Tended
    <2>2. Queued(r)
      BY <1>1, <1>4, <1>6, <2>1 DEF Forgotten, Tended, Adding, Finding
    <2> QED
      BY <1>4, <2>1, <2>2 DEF Queued, MainJob
  <1> QED
    BY <1>1, <1>3, <1>5, <1>6 DEF Keeps, Remembers

\* A step that puts no record of a job away keeps what the queue has.
LEMMA KeepsCalls ==
    ASSUME TypeOK, OnlyKnown, CompletedClaimed, UNCHANGED run,
           \A r \in Rewards \ (Prizes \cup retried') :
             \/ status'[r] = status[r]
             \/ status[r] = "NONE" /\ \E c \in Calls : Adding(c, r)',
           \A r \in Rewards : Known(r) => Known(r)',
           retried \subseteq retried',
           \A j \in Jobs :
             \/ job'[j] = job[j]
             \/ /\ job[j].state = "absent" /\ job'[j].state = "waiting"
                /\ Known(RewardOf(j)),
           \A c \in Calls : \A r \in call'[c].todo : Known(r)',
           \A i \in Instances : \A r \in boot'[i].todo : Known(r)',
           \A r \in Rewards : Known(r) /\ Tended(r) =>
             \/ Tended(r)'
             \/ job'[MainJob(r)].state # "absent"
             \/ Excused(r)
    PROVE  Keeps
  <1>1. OnlyKnown'
    <2>1. \A j \in Jobs : job'[j].state # "absent" => Known(RewardOf(j))
      BY DEF OnlyKnown
    <2>2. \A s \in Slots : run'[s].pc # "idle" => Known(Here(s)')
      BY DEF OnlyKnown, Here
    <2> QED
      BY <2>1, <2>2, StillKnown
  <1>2. \A r \in Rewards : MainJob(r) \in Jobs /\ RewardOf(MainJob(r)) = r
    <2>1. \A r \in Rewards : MainJob(r) \in Jobs
      BY JobFacts
    <2>2. \A r \in Rewards : RewardOf(MainJob(r)) = r
      BY DEF MainJob, RewardOf
    <2> QED
      BY <2>1, <2>2
  <1>3. CompletedClaimed'
    <2> SUFFICES ASSUME NEW r \in Rewards \ (Prizes \cup retried'),
                        job'[MainJob(r)].state = "completed"
                 PROVE  status'[r] # "PENDING"
      BY DEF CompletedClaimed, MainJob
    <2>1. job[MainJob(r)].state = "completed"
      BY <1>2
    <2>2. Known(r)
      BY <1>2, <2>1 DEF OnlyKnown
    <2> QED
      BY <2>1, <2>2 DEF CompletedClaimed, Known
  <1>4. ASSUME NEW r \in Rewards \ (Prizes \cup retried'), Forgotten(r)',
               ~Forgotten(r), ~Excused(r)
        PROVE  FALSE
    <2>1. status'[r] = "PENDING" /\ ~Tended(r)'
      BY <1>4 DEF Forgotten
    <2>2. status[r] = "PENDING"
      BY <2>1 DEF Tended
    <2>3. Known(r) /\ Tended(r)
      BY <1>4, <2>2 DEF Forgotten, Known
    <2>4. job'[MainJob(r)].state # "absent"
      BY <1>4, <2>1, <2>3
    <2>5. job'[MainJob(r)].state = "completed"
      BY <1>2, <2>1, <2>4 DEF Tended, Queued, MainJob, TypeOK, JobType, JobStates
    <2>6. job[MainJob(r)].state = "completed"
      BY <1>2, <2>5
    <2> QED
      BY <2>2, <2>6 DEF CompletedClaimed
  <1> QED
    BY <1>1, <1>3, <1>4 DEF Keeps, Remembers

LEMMA KeepsCall ==
    ASSUME TypeOK, OnlyKnown, CompletedClaimed, NEW c \in Calls,
           CallStep(c) \/ AbortCall(c)
    PROVE  Keeps
  <1>1. \A j \in Jobs : RewardOf(j) \in Rewards
    BY JobFacts
  <1>2. CASE RetryUpdate(c)
    <2>1. /\ call[c].pc = "update" /\ UNCHANGED <<job, run, boot>>
          /\ status' = [r \in Rewards |->
                          IF r \in call[c].todo THEN "PENDING" ELSE status[r]]
          /\ call' = [call EXCEPT ![c].pc = "add"]
          /\ retried' = retried \cup call[c].todo
      BY <1>2, RetriedMore DEF RetryUpdate
    <2>2. \A r \in Rewards : Known(r) => Known(r)'
      BY <2>1 DEF Known
    <2>3. \A d \in Calls : call'[d].todo = call[d].todo /\ (d # c => call'[d] = call[d])
      BY <2>1 DEF TypeOK, CallType
    <2>4. \A r \in Rewards : Tended(r) => Tended(r)'
      BY <2>1, <2>3 DEF Tended, Queued, Adding, Finding, MainJob
    <2>5. \A r \in Rewards \ (Prizes \cup retried') : status'[r] = status[r]
      BY <2>1
    <2>6. /\ \A d \in Calls : \A r \in call'[d].todo : Known(r)'
          /\ \A i \in Instances : \A r \in boot'[i].todo : Known(r)'
      BY <2>1, <2>2, <2>3 DEF OnlyKnown, Known
    <2> QED
      BY <2>1, <2>2, <2>4, <2>5, <2>6, KeepsCalls
  <1>3. CASE AddCallJob(c)
    <2>1. PICK r \in call[c].todo, j \in Jobs :
            /\ IF call[c].retry THEN RetryJob(r, j) ELSE j = MainJob(r)
            /\ Add(j)
            /\ call' = [call EXCEPT ![c] = Without(c, r)]
      BY <1>3 DEF AddCallJob
    <2>2. UNCHANGED <<status, run, boot, retried>>
      BY <1>3, RetriedSame DEF AddCallJob, rows, history
    <2>3. Known(r) /\ RewardOf(j) = r
      <3>1. \E n : j = <<r, n>>
        BY <2>1, Zenon DEF RetryJob, MainJob
      <3>2. RewardOf(j) = r
        BY <3>1 DEF RewardOf
      <3> QED
        BY <2>1, <3>2 DEF OnlyKnown
    <2>4. /\ \A k \in Jobs \ {j} : job'[k] = job[k]
          /\ \/ job'[j] = job[j]
             \/ job[j].state = "absent" /\ job'[j].state = "waiting"
          /\ job'[j].state # "absent"
      BY <2>1 DEF Add, NoEntry, TypeOK, JobType
    <2>5. /\ \A d \in Calls \ {c} : call'[d] = call[d]
          /\ call'[c] = Without(c, r)
      BY <2>1 DEF TypeOK, CallType
    <2>6. /\ call'[c].todo = call[c].todo \ {r}
          /\ call[c].todo # {r} =>
               call'[c].pc = call[c].pc /\ call'[c].retry = call[c].retry
      <3>1. CASE call[c].todo = {r}
        <4>1. call'[c] = IdleCall
          BY <2>5, <3>1 DEF Without
        <4> QED
          BY <3>1, <4>1 DEF IdleCall
      <3>2. CASE call[c].todo # {r}
        <4>1. call'[c] = [call[c] EXCEPT !.todo = @ \ {r}]
          BY <2>5, <3>2 DEF Without
        <4>2. call[c] \in [pc : {"idle", "update", "add"}, todo : SUBSET Rewards,
                           at : Instances \cup {None}, retry : BOOLEAN]
          BY DEF TypeOK, CallType
        <4> QED
          BY <3>2, <4>1, <4>2
      <3> QED
        BY <3>1, <3>2
    <2>7. ASSUME NEW q \in Rewards, Tended(q)
          PROVE  Tended(q)' \/ job'[MainJob(q)].state # "absent"
      <3>1. MainJob(q) \in Jobs /\ MainJob(q)' = MainJob(q)
        <4>1. MainJob(q) \in Jobs
          BY JobFacts
        <4> QED
          BY <4>1 DEF MainJob
      <3>2. CASE Queued(q)
        BY <2>4, <3>1, <3>2 DEF Queued
      <3>3. ASSUME NEW i \in Instances, Finding(i, q) PROVE Tended(q)'
        BY <2>2, <3>3 DEF Finding, Tended
      <3>4. ASSUME NEW d \in Calls, Adding(d, q), d # c \/ q # r PROVE Tended(q)'
        BY <2>5, <2>6, <3>4 DEF Adding, Tended
      <3>5. ASSUME Adding(c, r), q = r PROVE job'[MainJob(q)].state # "absent"
        BY <2>1, <2>4, <3>5 DEF Adding
      <3> QED
        BY <2>7, <3>2, <3>3, <3>4, <3>5 DEF Tended
    <2>8. \A d \in Calls : call'[d].todo \subseteq call[d].todo
      BY <2>5, <2>6
    <2>9. /\ \A d \in Calls : \A q \in call'[d].todo : Known(q)'
          /\ \A i \in Instances : \A q \in boot'[i].todo : Known(q)'
      BY <2>2, <2>8 DEF OnlyKnown, Known
    <2>10. \A q \in Rewards : Known(q) => Known(q)'
      BY <2>2 DEF Known
    <2>11. \A k \in Jobs :
             \/ job'[k] = job[k]
             \/ /\ job[k].state = "absent" /\ job'[k].state = "waiting"
                /\ Known(RewardOf(k))
      BY <2>3, <2>4
    <2> QED
      BY <2>2, <2>7, <2>9, <2>10, <2>11, KeepsCalls
  <1>4. CASE AbortCall(c)
    <2>1. /\ UNCHANGED <<status, job, run, boot, retried>>
          /\ call' = [call EXCEPT ![c] = IdleCall]
      BY <1>4, RetriedSame DEF AbortCall, rows, history
    <2>2. spent'.faults # spent.faults
      BY <1>4 DEF AbortCall, TypeOK, SpentType
    <2>3. \A d \in Calls : call'[d].todo \subseteq call[d].todo
      BY <2>1 DEF IdleCall, TypeOK, CallType
    <2>4. /\ \A d \in Calls : \A q \in call'[d].todo : Known(q)'
          /\ \A i \in Instances : \A q \in boot'[i].todo : Known(q)'
          /\ \A q \in Rewards : Known(q) => Known(q)'
      BY <2>1, <2>3 DEF OnlyKnown, Known
    <2>5. \A q \in Rewards : Excused(q)
      BY <2>2 DEF Excused
    <2> QED
      BY <2>1, <2>4, <2>5, KeepsCalls
  <1> QED
    BY <1>2, <1>3, <1>4 DEF CallStep

LEMMA KeepsNewCall ==
    ASSUME TypeOK, OnlyKnown, CompletedClaimed, NEW i \in Instances,
           \/ \E r \in Rewards : CreatePrize(i, r)
           \/ \E c \in Calls, r \in Rewards : EnqueueCreate(c, i, r)
           \/ \E c \in Calls : RetryRead(c, i)
    PROVE  Keeps
  <1>1. ASSUME NEW r \in Rewards, CreatePrize(i, r) PROVE Keeps
    <2>1. /\ r \in Prizes /\ status' = [status EXCEPT ![r] = "PENDING"]
          /\ UNCHANGED <<job, run, call, boot, retried>>
      BY <1>1, RetriedSame DEF CreatePrize, history
    <2>2. \A q \in Rewards : Known(q) => Known(q)'
      BY <2>1 DEF Known, TypeOK, RowTypes
    <2>3. \A q \in Rewards \ (Prizes \cup retried') : status'[q] = status[q]
      BY <2>1 DEF TypeOK, RowTypes
    <2>4. /\ \A d \in Calls : \A q \in call'[d].todo : Known(q)'
          /\ \A k \in Instances : \A q \in boot'[k].todo : Known(q)'
      BY <2>1, <2>2 DEF OnlyKnown, Known
    <2>5. \A q \in Rewards : Tended(q) => Tended(q)'
      BY <2>1 DEF Tended, Queued, Adding, Finding, MainJob
    <2> QED
      BY <2>1, <2>2, <2>3, <2>4, <2>5, KeepsCalls
  <1>2. ASSUME NEW c \in Calls, NEW pc, NEW todo, NEW retry, Start(c, i, pc, todo, retry),
               \A q \in todo : Known(q)',
               \A q \in Rewards : Known(q) => Known(q)',
               \A q \in Rewards \ (Prizes \cup retried') :
                 \/ status'[q] = status[q]
                 \/ /\ status[q] = "NONE"
                    /\ pc = "add" /\ retry = FALSE /\ q \in todo,
               UNCHANGED <<job, run, boot, retried>>
        PROVE  Keeps
    <2>1. /\ call[c].pc = "idle" /\ \A d \in Calls \ {c} : call'[d] = call[d]
          /\ call'[c] = [pc |-> pc, todo |-> todo, at |-> i, retry |-> retry]
      BY <1>2 DEF Start, TypeOK, CallType
    <2>2. /\ \A d \in Calls : \A q \in call'[d].todo : Known(q)'
          /\ \A k \in Instances : \A q \in boot'[k].todo : Known(q)'
      BY <1>2, <2>1 DEF OnlyKnown, Known
    <2>3. \A q \in Rewards : Tended(q) => Tended(q)'
      BY <1>2, <2>1 DEF Tended, Queued, Adding, Finding, MainJob
    <2>4. \A q : pc = "add" /\ retry = FALSE /\ q \in todo => Adding(c, q)'
      BY <2>1 DEF Adding
    <2> QED
      BY <1>2, <2>2, <2>3, <2>4, KeepsCalls
  <1>3. ASSUME NEW c \in Calls, NEW r \in Rewards, EnqueueCreate(c, i, r) PROVE Keeps
    <2>1. /\ Start(c, i, "add", {r}, FALSE) /\ status[r] = "NONE"
          /\ status' = [status EXCEPT ![r] = "PENDING"]
          /\ UNCHANGED <<job, run, boot, retried>>
      BY <1>3, RetriedSame DEF EnqueueCreate, history
    <2>2. /\ \A q \in Rewards : Known(q) => Known(q)'
          /\ \A q \in Rewards \ {r} : status'[q] = status[q]
          /\ \A q \in {r} : Known(q)'
      BY <2>1 DEF Known, TypeOK, RowTypes
    <2>3. \A q \in Rewards \ (Prizes \cup retried') :
            \/ status'[q] = status[q]
            \/ status[q] = "NONE" /\ "add" = "add" /\ FALSE = FALSE /\ q \in {r}
      BY <2>1, <2>2
    <2> QED
      BY <1>2, <2>1, <2>2, <2>3
  <1>4. ASSUME NEW c \in Calls, RetryRead(c, i) PROVE Keeps
    <2>1. PICK todo \in SUBSET {r \in Rewards : status[r] = "FAILED"} :
            Start(c, i, "update", todo, TRUE)
      BY <1>4 DEF RetryRead
    <2>2. UNCHANGED <<status, job, run, boot, retried>>
      BY <1>4, RetriedSame DEF RetryRead, rows, history
    <2>3. (\A q \in Rewards : Known(q) => Known(q)') /\ \A q \in todo : Known(q)'
      BY <2>1, <2>2 DEF Known
    <2> QED
      BY <1>2, <2>1, <2>2, <2>3
  <1> QED
    BY <1>1, <1>3, <1>4

LEMMA KeepsInstance ==
    ASSUME TypeOK, OnlyKnown, CompletedClaimed, NEW i \in Instances,
           BootStep(i) \/ Crash(i)
    PROVE  Keeps
  <1> DEFINE WorkIn(b) == \A k \in Instances : \A q \in b[k].todo : Known(q)'
  <1>0. \A q \in Rewards : MainJob(q) \in Jobs
    BY JobFacts
  <1>1. \A q \in Rewards : MainJob(q)' = MainJob(q)
    BY DEF MainJob
  <1>2. CASE Boot(i) \/ Crash(i)
    <2>1. UNCHANGED <<status, job, retried>>
      BY <1>2, RetriedSame DEF Boot, Crash, rows, history
    <2>2. /\ \A k \in Instances \ {i} : boot'[k] = boot[k]
          /\ boot'[i].pc \in {"down", "scan"} /\ boot'[i].todo \subseteq boot[i].todo
      BY <1>2 DEF Boot, Crash, Down, TypeOK, BootType
    <2>3. \A q \in Rewards : Tended(q)'
      BY <2>2 DEF Tended, Finding
    <2>4. \A c \in Calls : call'[c].todo \subseteq call[c].todo
      BY <1>2 DEF Boot, Crash, IdleCall, TypeOK, CallType
    <2>5. \A q \in Rewards : Known(q) => Known(q)'
      BY <2>1 DEF Known
    <2>6. /\ \A c \in Calls : \A q \in call'[c].todo : Known(q)'
          /\ WorkIn(boot')
      BY <2>1, <2>2, <2>4 DEF OnlyKnown, Known
    <2>7. OnlyKnown'
      <3>1. \A j \in Jobs : job'[j].state # "absent" => Known(RewardOf(j))
        BY <2>1 DEF OnlyKnown
      <3>2. \A s \in Slots : run'[s].pc # "idle" => Known(Here(s)')
        BY <1>2 DEF OnlyKnown, Here, Boot, Crash, IdleRun
      <3> QED
        BY <2>5, <2>6, <3>1, <3>2, StillKnown
    <2>8. CompletedClaimed'
      BY <2>1 DEF CompletedClaimed, MainJob
    <2> QED
      BY <2>3, <2>7, <2>8 DEF Keeps, Remembers, Forgotten
  <1>3. CASE Scan(i)
    <2>1. PICK found \in SUBSET Unsettled :
            /\ \/ found = Unsettled
               \/ Cardinality(found) = DispatchLimit
            /\ boot' = [boot EXCEPT ![i] = Dispatching(found)]
      BY <1>3 DEF Scan, Unsettled
    <2>2. boot[i].pc = "scan" /\ UNCHANGED <<status, job, run, call, retried>>
      BY <1>3, RetriedSame DEF Scan, rows, history
    <2>3. /\ \A k \in Instances \ {i} : boot'[k] = boot[k]
          /\ boot'[i] = Dispatching(found) /\ boot'[i].todo = found
      BY <2>1 DEF Dispatching, TypeOK, BootType
    <2>4. \A q \in Rewards : Known(q) => Known(q)'
      BY <2>2 DEF Known
    <2>5. /\ \A c \in Calls : \A q \in call'[c].todo : Known(q)'
          /\ WorkIn(boot')
      BY <2>2, <2>3 DEF OnlyKnown, Known, Unsettled
    <2>6. ASSUME NEW q \in Rewards, status[q] = "PENDING", ~Excused(q)
          PROVE  Finding(i, q)'
      <3>1. IsFiniteSet(Unsettled) /\ Cardinality(Unsettled) <= DispatchLimit
        BY <2>6 DEF Excused
      <3>2. found = Unsettled
        <4>1. /\ Cardinality(found) <= Cardinality(Unsettled)
              /\ Cardinality(found) = Cardinality(Unsettled) => found = Unsettled
              /\ Cardinality(found) \in Nat /\ Cardinality(Unsettled) \in Nat
          BY <2>1, <3>1, FS_Subset, FS_CardinalityType
        <4> QED
          BY <2>1, <3>1, <4>1, PipelineAssumption DEF PipelineAssumption
      <3>3. q \in found
        BY <2>6, <3>2 DEF Unsettled
      <3>4. boot'[i].pc = "dispatch" /\ q \in boot'[i].todo
        BY <2>3, <3>3 DEF Dispatching
      <3> QED
        BY <3>4 DEF Finding
    <2>7. \A q \in Rewards : Forgotten(q)' => Forgotten(q) \/ Excused(q)
      BY <2>2, <2>6 DEF Forgotten, Tended
    <2>8. OnlyKnown'
      <3>1. \A s \in Slots : run'[s].pc # "idle" => Known(Here(s)')
        BY <2>2 DEF OnlyKnown, Here
      <3>2. \A j \in Jobs : job'[j].state # "absent" => Known(RewardOf(j))
        BY <2>2 DEF OnlyKnown
      <3> QED
        BY <2>4, <2>5, <3>1, <3>2, StillKnown
    <2>9. CompletedClaimed'
      BY <2>2 DEF CompletedClaimed, MainJob
    <2> QED
      BY <2>7, <2>8, <2>9 DEF Keeps, Remembers
  <1>4. CASE Dispatch(i)
    <2>1. PICK r \in boot[i].todo :
            /\ Add(MainJob(r))
            /\ boot' = [boot EXCEPT ![i] = Dispatching(@.todo \ {r})]
      BY <1>4 DEF Dispatch
    <2>2. boot[i].pc = "dispatch" /\ UNCHANGED <<status, run, call, retried>>
      BY <1>4, RetriedSame DEF Dispatch, rows, history
    <2>3. Known(r) /\ r \in Rewards
      BY <2>1 DEF OnlyKnown, Known
    <2>4. /\ \A k \in Jobs \ {MainJob(r)} : job'[k] = job[k]
          /\ \/ job'[MainJob(r)] = job[MainJob(r)]
             \/ job[MainJob(r)].state = "absent" /\ job'[MainJob(r)].state = "waiting"
          /\ job'[MainJob(r)].state # "absent"
      BY <1>0, <2>1, <2>3 DEF Add, NoEntry, TypeOK, JobType
    <2>5. /\ \A k \in Instances \ {i} : boot'[k] = boot[k]
          /\ boot'[i].todo = boot[i].todo \ {r}
          /\ boot'[i].todo # {} => boot'[i].pc = "dispatch"
      BY <2>1 DEF Dispatching, TypeOK, BootType
    <2>6. \A q \in Rewards : Known(q) => Known(q)'
      BY <2>2 DEF Known
    <2>7. /\ \A c \in Calls : \A q \in call'[c].todo : Known(q)'
          /\ WorkIn(boot')
      BY <2>2, <2>5 DEF OnlyKnown, Known
    <2>8. \A k \in Jobs :
            \/ job'[k] = job[k]
            \/ /\ job[k].state = "absent" /\ job'[k].state = "waiting"
               /\ Known(RewardOf(k))
      <3>1. RewardOf(MainJob(r)) = r
        BY DEF RewardOf, MainJob
      <3> QED
        BY <2>3, <2>4, <3>1
    <2>9. ASSUME NEW q \in Rewards, Tended(q)
          PROVE  Tended(q)' \/ job'[MainJob(q)].state # "absent"
      <3>1. CASE Queued(q)
        BY <1>0, <1>1, <2>4, <3>1 DEF Queued
      <3>2. ASSUME NEW c \in Calls, Adding(c, q) PROVE Tended(q)'
        BY <2>2, <3>2 DEF Adding, Tended
      <3>3. ASSUME NEW k \in Instances, Finding(k, q), k # i \/ q # r PROVE Tended(q)'
        BY <2>2, <2>5, <3>3 DEF Finding, Tended
      <3>4. CASE q = r
        BY <2>4, <3>4
      <3> QED
        BY <2>9, <3>1, <3>2, <3>3, <3>4 DEF Tended
    <2> QED
      BY <2>2, <2>6, <2>7, <2>8, <2>9, KeepsCalls
  <1> QED
    BY <1>2, <1>3, <1>4 DEF BootStep

LEMMA KeepsNext ==
    TypeOK /\ Custody /\ OnlyKnown /\ CompletedClaimed /\ [Next]_vars
        => OnlyKnown' /\ CompletedClaimed' /\ [Remembers]_vars
  <1> SUFFICES ASSUME TypeOK, Custody, OnlyKnown, CompletedClaimed, [Next]_vars
               PROVE  OnlyKnown' /\ CompletedClaimed' /\ [Remembers]_vars
    OBVIOUS
  <1>1. CASE UNCHANGED vars
    BY <1>1, RetriedSame DEF vars, rows, history, OnlyKnown, CompletedClaimed, Known, Here
  <1>2. CASE Next
    BY <1>2, KeepsTake, KeepsRun, KeepsCall, KeepsNewCall, KeepsInstance DEF Next, Keeps
  <1> QED
    BY <1>1, <1>2

(* A bonus that waits and was never retried is always with the queue, with    *)
(* the call that created it or with a process that will look for it, although  *)
(* processes die between the row and its job; it slips through only where a    *)
(* call fails, a failed job's record is dropped, or a scan is too short.       *)
THEOREM Remembered == Spec => [][Remembers]_vars
  <1>1. Spec => [](OnlyKnown /\ CompletedClaimed)
    BY KnownInit, KeepsNext, Invariance, PTL DEF Spec
  <1> QED
    BY <1>1, KeepsNext, Invariance, PTL DEF Spec

=============================================================================
