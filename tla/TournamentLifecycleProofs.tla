---------------------- MODULE TournamentLifecycleProofs ----------------------
(* Theorems about TournamentLifecycle, for every value of its constants.    *)
EXTENDS TournamentLifecycle, FiniteSetTheorems, TLAPS

TourType ==
    /\ status \in [Tournaments -> Statuses]
    /\ time \in [Tournaments -> 0 .. 2]
    /\ players \in [Tournaments -> SUBSET Users]
    /\ score \in [Tournaments -> [Users -> Nat]]
ResultType ==
    /\ rank \in [Tournaments -> [Users -> Nat]]
    /\ winner \in [Tournaments -> Users \cup {None}]
    /\ prizes \in [Tournaments -> [Users -> Nat]]
LockType == lock \in Passes \cup {None} /\ lapses \in Nat
Memory == [pc : PassSteps, todo : SUBSET Tournaments, t : Tournaments \cup {None},
           order : Orders, winners : SUBSET Users, rows : SUBSET Users]

CallType ==
    /\ call \in [Calls -> [op : {"idle", "join", "leave", "edit"},
                           t : Tournaments \cup {None}, u : Users \cup {None}]]
    /\ \A c \in Calls :
        /\ call[c].op # "idle" => call[c].t \in Tournaments
        /\ call[c].op \in {"join", "leave"} => call[c].u \in Users
SpentType == spent \in [edits : Nat, crashes : Nat, faults : Nat]

(* A pass has a tournament in hand when it is about to write it, and its     *)
(* winners are among the players it ranked.                                  *)
PassType ==
    /\ pass \in [Passes -> Memory]
    /\ \A p \in Passes :
        pass[p].pc \in {"mark", "tellStart", "commit", "tellEnd"} =>
            pass[p].t \in Tournaments

LEMMA LapsedSame == lapses' = lapses => lapsed' = lapsed
  BY DEF lapsed

(* A lock that expires under a running pass is a lapse, and no other.        *)
LEMMA LapseFacts ==
    ASSUME LockType, LockExpires
    PROVE  /\ lapsed => lapsed'
           /\ pass[lock].pc # "idle" => lapsed'
           /\ pass[lock].pc = "idle" => lapsed' = lapsed
  BY DEF LockType, LockExpires, lapsed

LEMMA IdleMemory == IdlePass \in Memory /\ IdlePass.pc = "idle"
  <1>1. [u \in {} |-> 0] \in [{} -> 1 .. Cardinality({})]
    OBVIOUS
  <1>2. [u \in {} |-> 0] \in Orders
    BY <1>1 DEF Orders
  <1> QED
    BY <1>2 DEF IdlePass, Memory, PassSteps

(* The two ways a pass goes on without a tournament in hand.                 *)
LEMMA LoopType ==
    ASSUME PassType, NEW p \in Passes, NEW todo \in SUBSET Tournaments,
           NEW pc \in {"start", "complete"}, NEW after \in {"findStarted", "release"},
           Loop(p, todo, pc, after)
    PROVE  PassType'
  <1> DEFINE new == [IdlePass EXCEPT !.pc = IF todo = {} THEN after ELSE pc, !.todo = todo]
  <1>1. new \in Memory /\ new.pc \in {"start", "complete", "findStarted", "release"}
    BY IdleMemory DEF Memory, PassSteps
  <1>2. pass' = [pass EXCEPT ![p] = new]
    BY DEF Loop
  <1> HIDE DEF new
  <1> QED
    BY <1>1, <1>2 DEF PassType

LEMMA ThrowType ==
    ASSUME PassType, NEW p \in Passes, Throw(p)
    PROVE  PassType'
  <1> DEFINE new == [IdlePass EXCEPT !.pc = "release"]
  <1>1. new \in Memory /\ new.pc = "release"
    BY IdleMemory DEF Memory, PassSteps
  <1>2. pass' = [pass EXCEPT ![p] = new]
    BY DEF Throw
  <1> HIDE DEF new
  <1> QED
    BY <1>1, <1>2 DEF PassType

LEMMA EndType ==
    ASSUME PassType, NEW p \in Passes, pass' = [pass EXCEPT ![p] = IdlePass]
    PROVE  PassType'
  BY IdleMemory DEF PassType

TypeInv == TourType /\ ResultType /\ LockType /\ PassType /\ CallType /\ SpentType

LEMMA InitType == Init => TypeInv
  <1> SUFFICES ASSUME Init PROVE TypeInv
    OBVIOUS
  <1>1. TourType /\ ResultType /\ LockType
    BY DEF Init, TourType, ResultType, LockType, Statuses
  <1>2. PassType
    BY IdleMemory DEF Init, PassType
  <1>3. CallType /\ SpentType
    BY DEF Init, CallType, SpentType, IdleCall
  <1> QED
    BY <1>1, <1>2, <1>3 DEF TypeInv

(* The service functions and the environment.                                *)
LEMMA ReadType ==
    ASSUME TypeInv, NEW c \in Calls, NEW t \in Tournaments, NEW u \in Users,
           JoinRead(c, t, u) \/ LeaveRead(c, t, u)
    PROVE  TypeInv'
  <1>1. CallType'
    BY DEF TypeInv, CallType, JoinRead, LeaveRead
  <1> QED
    BY <1>1 DEF TypeInv, TourType, ResultType, LockType, PassType, SpentType,
                JoinRead, LeaveRead, results

LEMMA EditReadType ==
    ASSUME TypeInv, NEW c \in Calls, NEW t \in Tournaments, EditRead(c, t)
    PROVE  TypeInv'
  <1>1. CallType' /\ SpentType'
    BY DEF TypeInv, CallType, SpentType, EditRead
  <1> QED
    BY <1>1 DEF TypeInv, TourType, ResultType, LockType, PassType, EditRead, results

LEMMA CallWriteType ==
    ASSUME TypeInv, NEW c \in Calls, CallWrite(c)
    PROVE  TypeInv'
  <1>1. call' = [call EXCEPT ![c] = IdleCall] => CallType'
    BY DEF TypeInv, CallType, IdleCall
  <1>2. CASE JoinWrite(c)
    <2>1. TourType'
      BY <1>2 DEF JoinWrite, TypeInv, TourType, CallType
    <2> QED
      BY <1>1, <1>2, <2>1 DEF JoinWrite, TypeInv, ResultType, LockType, PassType,
                              SpentType, results
  <1>3. CASE LeaveWrite(c)
    <2>1. TourType' /\ ResultType'
      BY <1>3 DEF LeaveWrite, TypeInv, TourType, ResultType, CallType
    <2>2. \A m \in Memory : [m EXCEPT !.rows = @ \ {call[c].u}] \in Memory
      BY DEF Memory
    <2>3. PassType'
      BY <1>3, <2>2 DEF LeaveWrite, TypeInv, PassType, Memory
    <2> QED
      BY <1>1, <1>3, <2>1, <2>3 DEF LeaveWrite, TypeInv, LockType, SpentType
  <1>4. CASE EditWrite(c)
    <2>1. TourType'
      BY <1>4 DEF EditWrite, EditStatuses, TypeInv, TourType, CallType, Statuses
    <2> QED
      BY <1>1, <1>4, <2>1 DEF EditWrite, TypeInv, ResultType, LockType, PassType,
                              SpentType, results
  <1> QED
    BY <1>2, <1>3, <1>4 DEF CallWrite

LEMMA StatusType ==
    ASSUME TypeInv, NEW t \in Tournaments, Create(t) \/ Cancel(t) \/ TimePasses(t)
    PROVE  TypeInv'
  <1>1. Create(t) \/ Cancel(t) => TourType'
    BY DEF TypeInv, TourType, Create, Cancel, Statuses
  <1>2. TimePasses(t) => TourType'
    BY DEF TypeInv, TourType, TimePasses
  <1> QED
    BY <1>1, <1>2 DEF TypeInv, ResultType, LockType, PassType, CallType, SpentType, results,
                Create, Cancel, TimePasses

LEMMA ScoreType ==
    ASSUME TypeInv, NEW t \in Tournaments, NEW u \in Users, WinMatch(t, u)
    PROVE  TypeInv'
  <1>1. TourType'
    BY DEF TypeInv, TourType, WinMatch
  <1> QED
    BY <1>1 DEF TypeInv, ResultType, LockType, PassType, CallType, SpentType, results,
                WinMatch

(* The steps of a pass.  Those that only go through its loops first.         *)
LEMMA SearchType ==
    ASSUME TypeInv, NEW p \in Passes,
           FindOpen(p) \/ TellStart(p) \/ FindStarted(p) \/ TellEnd(p)
    PROVE  TypeInv'
  <1>1. PassType'
    <2>1. pass[p].todo \in SUBSET Tournaments
      BY DEF TypeInv, PassType, Memory
    <2>2. CASE FindOpen(p)
      BY <2>2, LoopType DEF FindOpen, TypeInv
    <2>3. CASE TellStart(p)
      BY <2>1, <2>3, LoopType DEF TellStart, TypeInv
    <2>4. CASE FindStarted(p)
      BY <2>4, LoopType DEF FindStarted, TypeInv
    <2>5. CASE TellEnd(p)
      BY <2>1, <2>5, LoopType DEF TellEnd, TypeInv
    <2> QED
      BY <2>2, <2>3, <2>4, <2>5
  <1> QED
    BY <1>1 DEF TypeInv, TourType, ResultType, LockType, CallType, SpentType, results,
                FindOpen, TellStart, FindStarted, TellEnd

LEMMA MarkType ==
    ASSUME TypeInv, NEW p \in Passes, Start(p) \/ Mark(p)
    PROVE  TypeInv'
  <1>1. CASE Start(p)
    <2>1. PassType'
      <3>1. PICK t \in pass[p].todo :
              IF status[t] = "OPEN"
              THEN pass' = [pass EXCEPT ![p].pc = "mark", ![p].t = t, ![p].todo = @ \ {t}]
              ELSE Throw(p)
        BY <1>1 DEF Start
      <3>2. t \in Tournaments
        BY DEF TypeInv, PassType, Memory
      <3>3. CASE status[t] = "OPEN"
        BY <3>1, <3>2, <3>3 DEF TypeInv, PassType, Memory, PassSteps
      <3>4. CASE status[t] # "OPEN"
        BY <3>1, <3>4, ThrowType DEF TypeInv
      <3> QED
        BY <3>3, <3>4
    <2> QED
      BY <1>1, <2>1 DEF TypeInv, TourType, ResultType, LockType, CallType, SpentType,
                        results, Start
  <1>2. CASE Mark(p)
    <2>1. PassType'
      BY <1>2 DEF Mark, TypeInv, PassType, Memory, PassSteps
    <2>2. TourType'
      BY <1>2 DEF Mark, TypeInv, TourType, PassType, Statuses
    <2> QED
      BY <1>2, <2>1, <2>2 DEF TypeInv, ResultType, LockType, CallType, SpentType,
                              results, Mark
  <1> QED
    BY <1>1, <1>2

LEMMA ReadResultsType ==
    ASSUME TypeInv, NEW p \in Passes, ReadResults(p)
    PROVE  TypeInv'
  <1>1. PICK t \in pass[p].todo :
          IF status[t] = "STARTED"
          THEN \E order \in Rankings(t) :
                pass' = [pass EXCEPT ![p] =
                  [pc |-> "commit", todo |-> @.todo \ {t}, t |-> t, order |-> order,
                   winners |-> {u \in players[t] : order[u] <= 4 /\ score[t][u] > 0},
                   rows |-> players[t]]]
          ELSE Throw(p)
    BY DEF ReadResults
  <1>2. t \in Tournaments /\ players[t] \in SUBSET Users
    BY DEF TypeInv, PassType, Memory, TourType
  <1>3. CASE status[t] = "STARTED"
    <2>1. PICK order \in Rankings(t) :
            pass' = [pass EXCEPT ![p] =
              [pc |-> "commit", todo |-> @.todo \ {t}, t |-> t, order |-> order,
               winners |-> {u \in players[t] : order[u] <= 4 /\ score[t][u] > 0},
               rows |-> players[t]]]
      BY <1>1, <1>3
    <2>2. order \in Orders
      BY <1>2 DEF Rankings, Orders
    <2>3. {u \in players[t] : order[u] <= 4 /\ score[t][u] > 0} \in SUBSET Users
      BY <1>2
    <2> DEFINE winners == {u \in players[t] : order[u] <= 4 /\ score[t][u] > 0}
               new == [pc |-> "commit", todo |-> pass[p].todo \ {t}, t |-> t,
                       order |-> order, winners |-> winners, rows |-> players[t]]
    <2>4. new \in Memory /\ new.t \in Tournaments
      <3>1. winners \in SUBSET Users
        BY <2>3
      <3> HIDE DEF winners
      <3> QED
        BY <1>2, <2>2, <3>1 DEF Memory, PassSteps, TypeInv, PassType
    <2>5. pass' = [pass EXCEPT ![p] = new]
      BY <2>1
    <2> HIDE DEF new
    <2> QED
      BY <2>4, <2>5 DEF TypeInv, PassType, TourType, ResultType, LockType, CallType,
                        SpentType, results, ReadResults
  <1>4. CASE status[t] # "STARTED"
    <2>1. PassType'
      BY <1>1, <1>4, ThrowType DEF TypeInv
    <2> QED
      BY <2>1 DEF TypeInv, TourType, ResultType, LockType, CallType, SpentType,
                  results, ReadResults
  <1> QED
    BY <1>3, <1>4

LEMMA CommitType ==
    ASSUME TypeInv, NEW p \in Passes, Commit(p)
    PROVE  TypeInv'
  <1> DEFINE t == pass[p].t
             order == pass[p].order
             winners == pass[p].winners
  <1>1. /\ t \in Tournaments /\ order \in Orders /\ winners \in SUBSET Users
        /\ pass[p].pc = "commit"
    BY DEF Commit, TypeInv, PassType, Memory
  <1>2. CASE pass[p].rows = DOMAIN order
    <2>1. TourType'
      BY <1>1, <1>2 DEF Commit, TypeInv, TourType, Statuses
    <2>2. winner' \in [Tournaments -> Users \cup {None}]
      BY <1>1, <1>2 DEF Commit, TypeInv, ResultType
    <2>3. rank' \in [Tournaments -> [Users -> Nat]]
      <3>1. \A u \in DOMAIN order : order[u] \in Nat
        <4>1. PICK read \in SUBSET Users : order \in [read -> 1 .. Cardinality(read)]
          BY <1>1 DEF Orders
        <4> QED
          BY <4>1
      <3>2. rank' = [rank EXCEPT ![t] =
                      [u \in Users |-> IF u \in DOMAIN order THEN order[u] ELSE @[u]]]
        BY <1>2 DEF Commit
      <3> HIDE DEF order
      <3> QED
        BY <1>1, <3>1, <3>2 DEF TypeInv, ResultType
    <2>4. prizes' \in [Tournaments -> [Users -> Nat]]
      <3>1. prizes' = [prizes EXCEPT ![t] =
                        [u \in Users |-> IF u \in winners THEN @[u] + 1 ELSE @[u]]]
        BY <1>2 DEF Commit
      <3> HIDE DEF winners
      <3> QED
        BY <1>1, <3>1 DEF TypeInv, ResultType
    <2>5. PassType'
      <3>1. pass' = [pass EXCEPT ![p].pc = "tellEnd"]
        BY <1>2 DEF Commit
      <3> DEFINE new == [pass[p] EXCEPT !.pc = "tellEnd"]
      <3>2. new \in Memory /\ new.t \in Tournaments
        BY <1>1 DEF TypeInv, PassType, Memory, PassSteps
      <3>3. pass' = [pass EXCEPT ![p] = new]
        BY <3>1
      <3> HIDE DEF new
      <3> QED
        BY <3>2, <3>3 DEF TypeInv, PassType
    <2> QED
      BY <2>1, <2>2, <2>3, <2>4, <2>5 DEF TypeInv, ResultType, LockType, CallType,
                                          SpentType, Commit
  <1>3. CASE pass[p].rows # DOMAIN order
    <2>1. PassType'
      BY <1>3, ThrowType DEF Commit, TypeInv
    <2> QED
      BY <1>3, <2>1 DEF TypeInv, TourType, ResultType, LockType, CallType, SpentType,
                        results, Commit
  <1> QED
    BY <1>2, <1>3

(* The lock, and how a pass begins and ends.                                 *)
LEMMA LockStepType ==
    ASSUME TypeInv, NEW p \in Passes,
           Acquire(p) \/ Release(p) \/ PassFault(p) \/ PassCrash(p)
    PROVE  TypeInv'
  <1>1. CASE Acquire(p)
    <2>1. PassType' /\ LockType'
      BY <1>1 DEF Acquire, TypeInv, PassType, LockType, Memory, PassSteps
    <2> QED
      BY <1>1, <2>1 DEF Acquire, TypeInv, TourType, ResultType, CallType, SpentType, results
  <1>2. CASE Release(p)
    <2>1. PassType' /\ LockType'
      BY <1>2, EndType DEF Release, TypeInv, LockType
    <2> QED
      BY <1>2, <2>1 DEF Release, TypeInv, TourType, ResultType, CallType, SpentType, results
  <1>3. CASE PassFault(p)
    <2>1. PassType'
      BY <1>3, ThrowType DEF PassFault, TypeInv
    <2>2. SpentType'
      BY <1>3 DEF PassFault, TypeInv, SpentType
    <2> QED
      BY <1>3, <2>1, <2>2 DEF PassFault, TypeInv, TourType, ResultType, CallType, LockType, results
  <1>4. CASE PassCrash(p)
    <2>1. PassType'
      BY <1>4, EndType DEF PassCrash, TypeInv
    <2>2. SpentType'
      BY <1>4 DEF PassCrash, TypeInv, SpentType
    <2> QED
      BY <1>4, <2>1, <2>2 DEF PassCrash, TypeInv, TourType, ResultType, CallType, LockType, results
  <1> QED
    BY <1>1, <1>2, <1>3, <1>4

LEMMA LockExpiresType == TypeInv /\ LockExpires => TypeInv'
  BY DEF LockExpires, TypeInv, TourType, ResultType, LockType, PassType, CallType,
         SpentType, results

(* One quantifier of Next at a time.                                         *)
LEMMA TypeInvariance == TypeInv /\ [Next]_vars => TypeInv'
  <1> SUFFICES ASSUME TypeInv, [Next]_vars PROVE TypeInv'
    OBVIOUS
  <1>1. ASSUME NEW p \in Passes, Acquire(p) \/ PassStep(p) \/ PassFault(p) \/ PassCrash(p)
        PROVE  TypeInv'
    BY <1>1, SearchType, MarkType, ReadResultsType, CommitType, LockStepType DEF PassStep
  <1>2. CASE UNCHANGED vars
    BY <1>2 DEF vars, TypeInv, TourType, ResultType, LockType, PassType, CallType,
                SpentType, results
  <1> QED
    BY <1>1, <1>2, ReadType, EditReadType, CallWriteType, StatusType, ScoreType,
       LockExpiresType DEF Next

(* Every value stays in its type: in particular a status is one of the enum,  *)
(* whatever sequence of calls and passes wrote it.                            *)
THEOREM TypeCorrect == Spec => []TypeOK
  <1>1. TypeInv => TypeOK
    BY DEF TypeInv, TypeOK, TourType, ResultType, LockType, PassType, CallType,
           SpentType, Memory
  <1> QED
    BY <1>1, InitType, TypeInvariance, PTL DEF Spec

-----------------------------------------------------------------------------
(* Mutual exclusion is inductive by itself: the lock names the only pass that *)
(* runs, and Acquire needs it free.                                           *)
LEMMA MutexInvariance ==
    TypeInv /\ MutexUnlessLapsed /\ [Next]_vars => MutexUnlessLapsed'
  <1> SUFFICES ASSUME TypeInv, MutexUnlessLapsed, [Next]_vars PROVE MutexUnlessLapsed'
    OBVIOUS
  <1>1. ASSUME NEW p \in Passes, Acquire(p) PROVE MutexUnlessLapsed'
    <2>1. \A q \in Passes : q # p => pass'[q] = pass[q]
      BY <1>1 DEF Acquire, TypeInv, PassType
    <2>2. None \notin Passes
      BY LifecycleAssumption
    <2> QED
      BY <1>1, <2>1, <2>2, LapsedSame DEF Acquire, MutexUnlessLapsed
  <1>2. ASSUME NEW p \in Passes, PassStep(p) \/ PassFault(p) \/ PassCrash(p)
        PROVE  MutexUnlessLapsed'
    <2>1. pass[p].pc # "idle" /\ UNCHANGED lapsed
      BY <1>2, LapsedSame DEF PassStep, FindOpen, Start, Mark, TellStart, FindStarted, ReadResults,
                  Commit, TellEnd, Release, PassFault, PassCrash
    <2>2. \A q \in Passes : q # p => pass'[q] = pass[q]
      BY <1>2 DEF TypeInv, PassType, PassStep, FindOpen, Start, Mark, TellStart,
                  FindStarted, ReadResults, Commit, TellEnd, Release, PassFault,
                  PassCrash, Loop, Throw
    <2>3. CASE Release(p)
      BY <2>1, <2>2, <2>3 DEF Release, MutexUnlessLapsed, TypeInv, PassType, IdlePass
    <2>4. CASE ~ Release(p)
      <3>1. UNCHANGED lock
        BY <1>2, <2>4 DEF PassStep, FindOpen, Start, Mark, TellStart, FindStarted,
                          ReadResults, Commit, TellEnd, PassFault, PassCrash
      <3> QED
        BY <2>1, <2>2, <3>1 DEF MutexUnlessLapsed
    <2> QED
      BY <2>3, <2>4
  <1>3. CASE LockExpires
    BY <1>3, LapseFacts, LapsedSame DEF LockExpires, MutexUnlessLapsed, TypeInv, LockType
  <1>4. ASSUME NEW c \in Calls, CallWrite(c) PROVE MutexUnlessLapsed'
    <2>1. \A q \in Passes : pass'[q].pc = pass[q].pc
      BY <1>4 DEF CallWrite, JoinWrite, LeaveWrite, EditWrite, TypeInv, PassType, Memory
    <2>2. UNCHANGED <<lock, lapsed>>
      BY <1>4, LapsedSame DEF CallWrite, JoinWrite, LeaveWrite, EditWrite, EditStatuses
    <2> QED
      BY <2>1, <2>2 DEF MutexUnlessLapsed
  <1>5. CASE UNCHANGED <<lock, lapsed, pass>>
    BY <1>5 DEF MutexUnlessLapsed
  <1>6. [Next]_vars => \/ UNCHANGED <<lock, lapsed, pass>>
                       \/ \E c \in Calls : CallWrite(c)
                       \/ \E p \in Passes : Acquire(p) \/ PassStep(p)
                                            \/ PassFault(p) \/ PassCrash(p)
                       \/ LockExpires
    BY LapsedSame DEF Next, vars, Create, Cancel, TimePasses, WinMatch, EditRead, JoinRead, LeaveRead
  <1> QED
    BY <1>1, <1>2, <1>3, <1>4, <1>5, <1>6

(* While no lock expired under a running pass, the pass whose lock is set is   *)
(* the only one that runs: whatever the passes do, and however they fail.      *)
THEOREM Mutex == Spec => []MutexUnlessLapsed
  <1>1. Init => MutexUnlessLapsed
    BY DEF Init, MutexUnlessLapsed, IdlePass
  <1> QED
    BY <1>1, InitType, TypeInvariance, MutexInvariance, PTL DEF Spec

-----------------------------------------------------------------------------
(* Passes that overlap.  The lock that is free, or set by a pass that is gone, *)
(* counts as the pass it will admit: with it every lapse adds one, and neither  *)
(* a release of somebody else's lock nor a death adds any.                     *)
Running == {p \in Passes : pass[p].pc # "idle"}
Vacancy == IF lock = None \/ pass[lock].pc = "idle" THEN 1 ELSE 0

OverlapInv == IsFiniteSet(Running) /\ Cardinality(Running) + Vacancy <= 1 + lapses

(* What OverlapInv says in numbers.                                            *)
LEMMA OverlapFacts ==
    ASSUME TypeInv, OverlapInv
    PROVE  /\ IsFiniteSet(Running) /\ Cardinality(Running) \in Nat
           /\ Cardinality(Running) + Vacancy <= 1 + lapses
           /\ Vacancy \in 0 .. 1 /\ lapses \in Nat
  BY FS_CardinalityType DEF OverlapInv, Vacancy, TypeInv, LockType

LEMMA OverlapSame ==
    ASSUME TypeInv, OverlapInv, UNCHANGED <<lock, lapses>>,
           \A p \in Passes : pass'[p].pc = "idle" <=> pass[p].pc = "idle"
    PROVE  OverlapInv'
  <1>1. Running' = Running
    BY DEF Running
  <1>2. Vacancy' = Vacancy
    BY DEF Vacancy, TypeInv, LockType
  <1> QED
    BY <1>1, <1>2 DEF OverlapInv

LEMMA OverlapAcquire ==
    ASSUME TypeInv, OverlapInv, NEW p \in Passes, Acquire(p)
    PROVE  OverlapInv'
  <1>1. /\ pass' = [pass EXCEPT ![p].pc = "findOpen"] /\ pass[p].pc = "idle"
        /\ lock = None /\ lock' = p /\ UNCHANGED lapses
    BY DEF Acquire
  <1>2. Running' = Running \cup {p} /\ p \notin Running
    BY <1>1 DEF Running, TypeInv, PassType
  <1>3. IsFiniteSet(Running') /\ Cardinality(Running') = Cardinality(Running) + 1
    BY <1>2, OverlapFacts, FS_AddElement
  <1>4. Vacancy = 1
    BY <1>1 DEF Vacancy
  <1>5. p # None
    BY LifecycleAssumption
  <1>6. pass'[p].pc = "findOpen"
    BY <1>1 DEF TypeInv, PassType
  <1>7. Vacancy' = 0
    BY <1>1, <1>5, <1>6 DEF Vacancy
  <1> QED
    BY <1>1, <1>3, <1>4, <1>7, OverlapFacts DEF OverlapInv

(* A pass ends or dies: it makes room for the one its lock may admit.          *)
LEMMA OverlapEnd ==
    ASSUME TypeInv, OverlapInv, NEW p \in Passes, Release(p) \/ PassCrash(p)
    PROVE  OverlapInv'
  <1>1. /\ pass' = [pass EXCEPT ![p] = IdlePass] /\ pass[p].pc # "idle"
        /\ UNCHANGED lapses
    BY DEF Release, PassCrash
  <1>2. Running' = Running \ {p} /\ p \in Running
    BY <1>1, IdleMemory DEF Running, TypeInv, PassType
  <1>3. /\ IsFiniteSet(Running') /\ Cardinality(Running') = Cardinality(Running) - 1
        /\ Cardinality(Running') \in Nat
    BY <1>2, OverlapFacts, FS_RemoveElement, FS_CardinalityType
  <1>4. Vacancy' \in 0 .. 1
    BY DEF Vacancy
  <1> QED
    BY <1>1, <1>3, <1>4, OverlapFacts DEF OverlapInv

LEMMA OverlapExpires ==
    ASSUME TypeInv, OverlapInv, LockExpires
    PROVE  OverlapInv'
  <1>1. Running' = Running
    BY DEF LockExpires, Running
  <1>2. Vacancy' = 1
    BY DEF LockExpires, Vacancy
  <1>3. lapses' = lapses + 1 \/ (lapses' = lapses /\ Vacancy = 1)
    BY DEF LockExpires, Vacancy
  <1> QED
    BY <1>1, <1>2, <1>3, OverlapFacts DEF OverlapInv

LEMMA OverlapNext == TypeInv /\ OverlapInv /\ [Next]_vars => OverlapInv'
  <1> SUFFICES ASSUME TypeInv, OverlapInv, [Next]_vars PROVE OverlapInv'
    OBVIOUS
  <1>1. ASSUME NEW p \in Passes, PassStep(p) \/ PassFault(p), ~ Release(p)
        PROVE  OverlapInv'
    <2>1. pass[p].pc # "idle" /\ UNCHANGED <<lock, lapses>>
      BY <1>1 DEF PassStep, FindOpen, Start, Mark, TellStart, FindStarted, ReadResults,
                  Commit, TellEnd, PassFault
    <2>2. \A q \in Passes \ {p} : pass'[q] = pass[q]
      BY <1>1 DEF TypeInv, PassType, PassStep, FindOpen, Start, Mark, TellStart,
                  FindStarted, ReadResults, Commit, TellEnd, PassFault, Loop, Throw
    <2>3. pass'[p].pc # "idle"
      <3> USE DEF TypeInv, PassType
      <3>1. ASSUME NEW todo, NEW pc, NEW after, pc # "idle", after # "idle",
                   Loop(p, todo, pc, after)
            PROVE  pass'[p].pc # "idle"
        BY <3>1 DEF Loop, IdlePass
      <3>2. ASSUME Throw(p) PROVE pass'[p].pc # "idle"
        BY <3>2 DEF Throw, IdlePass
      <3>3. CASE FindOpen(p) \/ TellStart(p) \/ FindStarted(p) \/ TellEnd(p)
        <4>1. \E todo, pc, after :
                pc # "idle" /\ after # "idle" /\ Loop(p, todo, pc, after)
          <5>1. CASE FindOpen(p)
            BY <5>1, Zenon DEF FindOpen
          <5>2. CASE FindStarted(p)
            BY <5>2, Zenon DEF FindStarted
          <5>3. CASE TellStart(p) \/ TellEnd(p)
            BY <5>3, Zenon DEF TellStart, TellEnd
          <5> QED
            BY <3>3, <5>1, <5>2, <5>3
        <4> QED
          BY <3>1, <4>1
      <3>4. CASE Start(p) \/ Mark(p)
        <4>1. CASE Mark(p)
          BY <4>1 DEF Mark, Memory
        <4>2. CASE Start(p)
          <5>1. PICK t \in pass[p].todo :
                  IF status[t] = "OPEN"
                  THEN pass' = [pass EXCEPT ![p].pc = "mark", ![p].t = t,
                                            ![p].todo = @ \ {t}]
                  ELSE Throw(p)
            BY <4>2, Zenon DEF Start
          <5> QED
            BY <3>2, <5>1 DEF Memory
        <4> QED
          BY <3>4, <4>1, <4>2
      <3>5. CASE ReadResults(p)
        <4>1. PICK t \in pass[p].todo :
                IF status[t] = "STARTED"
                THEN \E order \in Rankings(t) :
                      pass' = [pass EXCEPT ![p] =
                        [pc |-> "commit", todo |-> @.todo \ {t}, t |-> t, order |-> order,
                         winners |-> {u \in players[t] : order[u] <= 4 /\ score[t][u] > 0},
                         rows |-> players[t]]]
                ELSE Throw(p)
          BY <3>5, Zenon DEF ReadResults
        <4>2. CASE status[t] = "STARTED"
          <5>1. \E new : new.pc = "commit" /\ pass' = [pass EXCEPT ![p] = new]
            BY <4>1, <4>2
          <5> QED
            BY <5>1
        <4>3. CASE status[t] # "STARTED"
          BY <3>2, <4>1, <4>3
        <4> QED
          BY <4>2, <4>3
      <3>6. CASE Commit(p) \/ PassFault(p)
        <4>1. pass' = [pass EXCEPT ![p].pc = "tellEnd"] \/ Throw(p)
          BY <3>6, Zenon DEF Commit, PassFault
        <4> QED
          BY <3>2, <4>1 DEF Memory
      <3> QED
        BY <1>1, <3>3, <3>4, <3>5, <3>6 DEF PassStep
    <2> QED
      BY <2>1, <2>2, <2>3, OverlapSame
  <1>2. ASSUME NEW c \in Calls, CallWrite(c) PROVE OverlapInv'
    <2>1. \A q \in Passes : pass'[q].pc = pass[q].pc
      BY <1>2 DEF CallWrite, JoinWrite, LeaveWrite, EditWrite, TypeInv, PassType, Memory
    <2>2. UNCHANGED <<lock, lapses>>
      BY <1>2 DEF CallWrite, JoinWrite, LeaveWrite, EditWrite, EditStatuses
    <2> QED
      BY <2>1, <2>2, OverlapSame
  <1>3. CASE UNCHANGED <<lock, lapses, pass>>
    BY <1>3, OverlapSame
  <1>4. \/ UNCHANGED <<lock, lapses, pass>> \/ LockExpires
        \/ \E c \in Calls : CallWrite(c)
        \/ \E p \in Passes : Acquire(p) \/ PassStep(p) \/ PassFault(p) \/ PassCrash(p)
    BY DEF Next, vars, Create, Cancel, TimePasses, WinMatch, EditRead, JoinRead, LeaveRead
  <1> QED
    BY <1>1, <1>2, <1>3, <1>4, OverlapAcquire, OverlapEnd, OverlapExpires

(* At any time no more passes run than one and one for every lock that has     *)
(* lapsed, for any number of processes: a pass that deletes the lock of its    *)
(* successor admits a third one only when it has ended itself.                 *)
THEOREM Overlaps == Spec => []OverlapsCounted
  <1>1. Init => OverlapInv
    <2> SUFFICES ASSUME Init PROVE OverlapInv
      OBVIOUS
    <2>1. Running = {}
      BY DEF Init, Running, IdlePass
    <2>2. IsFiniteSet(Running) /\ Cardinality(Running) = 0
      BY <2>1, FS_EmptySet
    <2>3. Vacancy = 1 /\ lapses = 0
      BY DEF Init, Vacancy
    <2> QED
      BY <2>2, <2>3 DEF OverlapInv
  <1>2. TypeInv /\ OverlapInv => OverlapsCounted
    <2> SUFFICES ASSUME TypeInv, OverlapInv PROVE Cardinality(Running) <= 1 + lapses
      BY DEF OverlapsCounted, Running
    <2> QED
      BY OverlapFacts
  <1> QED
    BY <1>1, <1>2, InitType, TypeInvariance, OverlapNext, PTL DEF Spec

-----------------------------------------------------------------------------
(* Prizes.  Start and completion are written unconditionally, so one prize     *)
(* each is not inductive: that the writer finds an unpaid tournament is.       *)
UnpaidUntilCommit ==
    lapsed \/
    /\ \A t \in Tournaments, u \in Users :
        status[t] \in {"NONE", "OPEN", "STARTED"} => prizes[t][u] = 0
    /\ \A p \in Passes, u \in Users :
        pass[p].pc \in {"mark", "commit"} => prizes[pass[p].t][u] = 0

PaidInv == MutexUnlessLapsed /\ UnpaidUntilCommit /\ PrizesOnceUnlessLapsed

(* A step that pays nobody, and reopens nothing that was over.                 *)
LEMMA UnpaidStep ==
    ASSUME TypeInv, PaidInv, UNCHANGED prizes, lapsed => lapsed',
           \A t \in Tournaments :
               status'[t] \in {"NONE", "OPEN", "STARTED"} =>
                   \/ status[t] \in {"NONE", "OPEN", "STARTED"}
                   \/ \E p \in Passes : pass[p].pc = "mark" /\ pass[p].t = t,
           \A p \in Passes : pass'[p].pc \in {"mark", "commit"} =>
               \/ pass[p].pc \in {"mark", "commit"} /\ pass'[p].t = pass[p].t
               \/ pass'[p].t \in Tournaments /\ status[pass'[p].t] \in {"OPEN", "STARTED"}
    PROVE  UnpaidUntilCommit' /\ PrizesOnceUnlessLapsed'
  <1>1. PrizesOnceUnlessLapsed'
    BY DEF PaidInv, PrizesOnceUnlessLapsed
  <1>2. CASE lapsed'
    BY <1>1, <1>2 DEF UnpaidUntilCommit
  <1>3. CASE ~ lapsed'
    <2>1. ~ lapsed
      BY <1>3
    <2>2. ASSUME NEW t \in Tournaments, NEW u \in Users,
                 status'[t] \in {"NONE", "OPEN", "STARTED"}
          PROVE  prizes'[t][u] = 0
      BY <2>1, <2>2 DEF PaidInv, UnpaidUntilCommit
    <2>3. ASSUME NEW p \in Passes, NEW u \in Users, pass'[p].pc \in {"mark", "commit"}
          PROVE  prizes'[pass'[p].t][u] = 0
      BY <2>1, <2>3 DEF PaidInv, UnpaidUntilCommit
    <2> QED
      BY <1>1, <2>2, <2>3 DEF UnpaidUntilCommit
  <1> QED
    BY <1>2, <1>3

LEMMA ServicePaid ==
    ASSUME TypeInv, PaidInv,
           \/ \E t \in Tournaments : Create(t) \/ Cancel(t) \/ TimePasses(t)
           \/ \E t \in Tournaments, u \in Users : WinMatch(t, u)
           \/ \E c \in Calls, t \in Tournaments : EditRead(c, t)
           \/ \E c \in Calls, t \in Tournaments, u \in Users :
                JoinRead(c, t, u) \/ LeaveRead(c, t, u)
           \/ \E c \in Calls : CallWrite(c)
    PROVE  UnpaidUntilCommit' /\ PrizesOnceUnlessLapsed'
  <1>1. UNCHANGED <<prizes, lapsed>>
    BY LapsedSame DEF Create, Cancel, TimePasses, WinMatch, EditRead, JoinRead, LeaveRead,
           CallWrite, JoinWrite, LeaveWrite, EditWrite, EditStatuses, results
  <1>2. ASSUME NEW t \in Tournaments, status'[t] \in {"NONE", "OPEN", "STARTED"}
        PROVE  status[t] \in {"NONE", "OPEN", "STARTED"}
    BY <1>2 DEF Create, Cancel, TimePasses, WinMatch, EditRead, JoinRead, LeaveRead,
                CallWrite, JoinWrite, LeaveWrite, EditWrite, EditStatuses, TypeInv, TourType
  <1>3. ASSUME NEW p \in Passes PROVE pass'[p].pc = pass[p].pc /\ pass'[p].t = pass[p].t
    <2>1. CASE UNCHANGED pass
      BY <2>1
    <2>2. CASE \E c \in Calls : LeaveWrite(c)
      BY <2>2 DEF LeaveWrite, TypeInv, PassType, Memory
    <2> QED
      BY <2>1, <2>2 DEF Create, Cancel, TimePasses, WinMatch, EditRead, JoinRead,
                        LeaveRead, CallWrite, JoinWrite, EditWrite, EditStatuses
  <1> QED
    BY <1>1, <1>2, <1>3, UnpaidStep

(* The steps of a pass that leave the status alone.                            *)
LEMMA ReadingPaid ==
    ASSUME TypeInv, PaidInv, NEW p \in Passes,
           \/ Acquire(p) \/ FindOpen(p) \/ Start(p) \/ TellStart(p) \/ FindStarted(p)
           \/ ReadResults(p) \/ TellEnd(p) \/ Release(p) \/ PassFault(p) \/ PassCrash(p)
    PROVE  UnpaidUntilCommit' /\ PrizesOnceUnlessLapsed'
  <1>1. UNCHANGED <<prizes, lapsed, status>>
    BY LapsedSame DEF Acquire, FindOpen, Start, TellStart, FindStarted, ReadResults, TellEnd,
           Release, PassFault, PassCrash, results
  <1>2. \A q \in Passes : q # p => pass'[q] = pass[q]
    BY DEF Acquire, FindOpen, Start, TellStart, FindStarted, ReadResults, TellEnd,
           Release, PassFault, PassCrash, Loop, Throw, TypeInv, PassType
  <1>3. pass'[p].pc \in {"mark", "commit"} =>
            pass'[p].t \in Tournaments /\ status[pass'[p].t] \in {"OPEN", "STARTED"}
    <2>1. CASE Acquire(p)
      BY <2>1 DEF Acquire, TypeInv, PassType, Memory
    <2>2. CASE Release(p) \/ PassFault(p) \/ PassCrash(p)
      BY <2>2 DEF Release, PassFault, PassCrash, Throw, IdlePass, TypeInv, PassType
    <2>3. CASE FindOpen(p) \/ TellStart(p) \/ FindStarted(p) \/ TellEnd(p)
      <3>1. PICK todo \in SUBSET Tournaments, pc \in {"start", "complete"},
                 after \in {"findStarted", "release"} : Loop(p, todo, pc, after)
        BY <2>3 DEF FindOpen, TellStart, FindStarted, TellEnd, TypeInv, PassType, Memory
      <3> QED
        BY <3>1 DEF Loop, IdlePass, TypeInv, PassType
    <2>4. CASE Start(p)
      <3>1. PICK t \in pass[p].todo :
              IF status[t] = "OPEN"
              THEN pass' = [pass EXCEPT ![p].pc = "mark", ![p].t = t, ![p].todo = @ \ {t}]
              ELSE Throw(p)
        BY <2>4 DEF Start
      <3>2. CASE status[t] = "OPEN"
        BY <3>1, <3>2 DEF TypeInv, PassType, Memory
      <3>3. CASE status[t] # "OPEN"
        BY <3>1, <3>3 DEF Throw, IdlePass, TypeInv, PassType
      <3> QED
        BY <3>2, <3>3
    <2>5. CASE ReadResults(p)
      BY <2>5 DEF ReadResults, Throw, IdlePass, TypeInv, PassType, Memory
    <2> QED
      BY <2>1, <2>2, <2>3, <2>4, <2>5
  <1> QED
    BY <1>1, <1>2, <1>3, UnpaidStep

LEMMA MarkPaid ==
    ASSUME TypeInv, PaidInv, NEW p \in Passes, Mark(p)
    PROVE  UnpaidUntilCommit' /\ PrizesOnceUnlessLapsed'
  <1>1. UNCHANGED <<prizes, lapsed>>
    BY LapsedSame DEF Mark, results
  <1>2. \A q \in Passes : pass'[q].pc \in {"mark", "commit"} => pass'[q] = pass[q]
    BY DEF Mark, TypeInv, PassType, Memory
  <1>3. \A t \in Tournaments : t # pass[p].t => status'[t] = status[t]
    BY DEF Mark, TypeInv, TourType
  <1> QED
    BY <1>1, <1>2, <1>3, UnpaidStep DEF Mark

(* The only step that pays: its pass is the only one that runs, and finds the  *)
(* tournament unpaid.                                                          *)
LEMMA CommitPaid ==
    ASSUME TypeInv, PaidInv, NEW p \in Passes, Commit(p)
    PROVE  UnpaidUntilCommit' /\ PrizesOnceUnlessLapsed'
  <1>1. CASE lapsed
    BY <1>1, LapsedSame DEF Commit, UnpaidUntilCommit, PrizesOnceUnlessLapsed
  <1>2. CASE ~ lapsed /\ pass[p].rows = DOMAIN pass[p].order
    <2>1. /\ pass[p].pc = "commit" /\ pass[p].t \in Tournaments
          /\ status' = [status EXCEPT ![pass[p].t] = "COMPLETED"]
          /\ pass' = [pass EXCEPT ![p].pc = "tellEnd"]
          /\ UNCHANGED lapsed
      BY <1>2, LapsedSame DEF Commit, TypeInv, PassType
    <2>2. \A u \in Users : prizes[pass[p].t][u] = 0
      BY <1>2, <2>1 DEF PaidInv, UnpaidUntilCommit
    <2>3. prizes' = [prizes EXCEPT ![pass[p].t] =
                      [u \in Users |-> IF u \in pass[p].winners THEN @[u] + 1 ELSE @[u]]]
      BY <1>2 DEF Commit
    <2>4. \A u \in Users : prizes'[pass[p].t][u] <= 1
      BY <2>1, <2>2, <2>3 DEF TypeInv, ResultType
    <2>5. \A t \in Tournaments : t # pass[p].t => prizes'[t] = prizes[t]
      BY <2>3 DEF TypeInv, ResultType
    <2>6. PrizesOnceUnlessLapsed'
      BY <1>2, <2>4, <2>5 DEF PaidInv, PrizesOnceUnlessLapsed
    <2>7. \A q \in Passes : pass'[q].pc \notin {"mark", "commit"}
      <3>1. \A q \in Passes : q # p => pass[q].pc = "idle"
        BY <1>2, <2>1 DEF PaidInv, MutexUnlessLapsed
      <3> QED
        BY <2>1, <3>1 DEF TypeInv, PassType, Memory
    <2>8. ASSUME NEW t \in Tournaments, NEW u \in Users,
                 status'[t] \in {"NONE", "OPEN", "STARTED"}
          PROVE  prizes'[t][u] = 0
      <3>1. t # pass[p].t /\ status'[t] = status[t]
        BY <2>1, <2>8 DEF TypeInv, TourType
      <3> QED
        BY <1>2, <2>5, <2>8, <3>1 DEF PaidInv, UnpaidUntilCommit
    <2> QED
      BY <2>6, <2>7, <2>8 DEF UnpaidUntilCommit
  <1>3. CASE pass[p].rows # DOMAIN pass[p].order
    <2>1. UNCHANGED <<prizes, lapsed, status>> /\ Throw(p)
      BY <1>3, LapsedSame DEF Commit, results
    <2>2. \A q \in Passes : pass'[q].pc \in {"mark", "commit"} => pass'[q] = pass[q]
      BY <2>1 DEF Throw, IdlePass, TypeInv, PassType
    <2> QED
      BY <2>1, <2>2, UnpaidStep
  <1> QED
    BY <1>1, <1>2, <1>3

LEMMA PaidInvariance == TypeInv /\ PaidInv /\ [Next]_vars => PaidInv'
  <1> SUFFICES ASSUME TypeInv, PaidInv, [Next]_vars PROVE PaidInv'
    OBVIOUS
  <1>1. MutexUnlessLapsed'
    BY MutexInvariance DEF PaidInv
  <1>2. UnpaidUntilCommit' /\ PrizesOnceUnlessLapsed'
    <2>1. CASE LockExpires
      BY <2>1, UnpaidStep, LapseFacts DEF LockExpires, results, TypeInv
    <2>2. CASE UNCHANGED vars
      BY <2>2, UnpaidStep, LapsedSame DEF vars, results
    <2>3. ASSUME NEW p \in Passes,
                 Acquire(p) \/ PassStep(p) \/ PassFault(p) \/ PassCrash(p)
          PROVE  UnpaidUntilCommit' /\ PrizesOnceUnlessLapsed'
      BY <2>3, ReadingPaid, MarkPaid, CommitPaid DEF PassStep
    <2> QED
      BY <2>1, <2>2, <2>3, ServicePaid DEF Next
  <1> QED
    BY <1>1, <1>2 DEF PaidInv

(* A winner gets one prize per tournament as long as no lock expires under a   *)
(* running pass, however edits, cancellations, faults and deaths interleave    *)
(* with the passes.                                                            *)
THEOREM PrizedOnce == Spec => []PrizesOnceUnlessLapsed
  <1>1. Init => PaidInv
    BY DEF Init, PaidInv, MutexUnlessLapsed, UnpaidUntilCommit, PrizesOnceUnlessLapsed,
           IdlePass
  <1>2. PaidInv => PrizesOnceUnlessLapsed
    BY DEF PaidInv
  <1> QED
    BY <1>1, <1>2, InitType, TypeInvariance, PaidInvariance, PTL DEF Spec

-----------------------------------------------------------------------------
(* Results.  A commit overwrites whatever results there are, and takes them    *)
(* from what the pass read some steps ago.  Inductive with it: the tournament  *)
(* that is still to be written has no results, and the ranks a pass carries    *)
(* are those of somebody's first place, of different players.                  *)
Unwritten(t) == winner[t] = None /\ \A u \in Users : rank[t][u] = 0

UnwrittenUntilCommit ==
    /\ \A t \in Tournaments : status[t] \in {"NONE", "OPEN", "STARTED"} => Unwritten(t)
    /\ \A p \in Passes : pass[p].pc \in {"mark", "commit"} => Unwritten(pass[p].t)

Fit(order, winners) ==
    /\ \A u, v \in DOMAIN order : order[u] = order[v] => u = v
    /\ \A u \in DOMAIN order : order[u] \in Nat \ {0}
    /\ \A u \in winners : u \in DOMAIN order /\ order[u] <= 4
    /\ winners # {} => \E u \in winners : order[u] = 1

FitUntilCommit ==
    \A p \in Passes : pass[p].pc = "commit" => Fit(pass[p].order, pass[p].winners)

\* ResultsAgree of all users: who is not a player has no rank.
Agree(t) ==
    /\ \A u, v \in Users : rank[t][u] = rank[t][v] /\ rank[t][u] # 0 => u = v
    /\ \A u \in Users : rank[t][u] # 0 =>
        /\ winner[t] = u => rank[t][u] = 1 /\ prizes[t][u] > 0
        /\ prizes[t][u] > 0 => rank[t][u] <= 4

WrittenInv ==
    lapsed \/ (UnwrittenUntilCommit /\ \A t \in Tournaments : Agree(t))

ResultsInv == PaidInv /\ FitUntilCommit /\ WrittenInv

(* Ranks of n players without a tie are 1 to n: somebody is first.             *)
LEMMA SomebodyFirst ==
    ASSUME NEW S, IsFiniteSet(S), S # {}, NEW f \in [S -> 1 .. Cardinality(S)],
           \A u, v \in S : u # v => f[u] # f[v]
    PROVE  \E u \in S : f[u] = 1
  <1>1. PICK n : n = Cardinality(S) /\ n \in Nat /\ n # 0
    BY FS_CardinalityType, FS_EmptySet
  <1>2. IsFiniteSet(2 .. n) /\ Cardinality(2 .. n) < n
    <2>1. 2 \in Int /\ n \in Int
      BY <1>1
    <2>2. IsFiniteSet(2 .. n) /\ Cardinality(2 .. n) = IF 2 > n THEN 0 ELSE n - 2 + 1
      BY <2>1, FS_Interval
    <2>3. (IF 2 > n THEN 0 ELSE n - 2 + 1) < n
      BY <1>1
    <2> QED
      BY <2>2, <2>3
  <1>3. SUFFICES ASSUME \A u \in S : f[u] # 1 PROVE FALSE
    OBVIOUS
  <1>4. f \in [S -> 2 .. n]
    BY <1>1, <1>3
  <1>5. Cardinality(2 .. n) < Cardinality(S)
    BY <1>1, <1>2
  <1>6. \E u, v \in S : u # v /\ f[u] = f[v]
    BY <1>2, <1>4, <1>5, FS_PigeonHole
  <1> QED
    BY <1>6

(* What completeTournament ranks: the first place, if anybody gets a prize, is *)
(* one of those who do.                                                        *)
LEMMA RankingsFit ==
    ASSUME TypeInv, NEW t \in Tournaments, NEW order \in Rankings(t)
    PROVE  Fit(order, {u \in players[t] : order[u] <= 4 /\ score[t][u] > 0})
  <1> DEFINE S == players[t]
             W == {u \in S : order[u] <= 4 /\ score[t][u] > 0}
  <1>1. S \in SUBSET Users /\ IsFiniteSet(S) /\ Cardinality(S) \in Nat
    BY LifecycleAssumption, FS_Subset, FS_CardinalityType
    DEF TypeInv, TourType, LifecycleAssumption
  <1>2. /\ order \in [S -> 1 .. Cardinality(S)]
        /\ \A u, v \in S : u # v => order[u] # order[v]
        /\ \A u, v \in S : u # v /\ score[t][u] > score[t][v] => order[u] < order[v]
    BY DEF Rankings
  <1>3. \A u \in S : order[u] \in Nat \ {0} /\ score[t][u] \in Nat
    BY <1>1, <1>2 DEF TypeInv, TourType
  <1>4. ASSUME W # {} PROVE \E u \in W : order[u] = 1
    <2>1. PICK w \in S : order[w] <= 4 /\ score[t][w] > 0
      BY <1>4
    <2>2. PICK u \in S : order[u] = 1
      BY <1>1, <1>2, <2>1, SomebodyFirst
    <2>3. score[t][u] > 0
      <3>1. SUFFICES ASSUME score[t][u] = 0 PROVE FALSE
        BY <1>3
      <3>2. u # w /\ score[t][w] > score[t][u]
        BY <2>1, <3>1
      <3>3. order[w] < order[u]
        BY <1>2, <3>2
      <3> QED
        BY <1>3, <2>2, <3>3
    <2> QED
      BY <2>2, <2>3
  <1>5. DOMAIN order = S
    BY <1>2
  <1> QED
    BY <1>2, <1>3, <1>4, <1>5 DEF Fit

(* A step that writes no result, unless it takes ranks away, and after which   *)
(* what is still to be written was so before.                                  *)
LEMMA WrittenStep ==
    ASSUME TypeInv, ResultsInv, UNCHANGED <<winner, prizes>>, lapsed => lapsed',
           \A t \in Tournaments, u \in Users : rank'[t][u] \in {0, rank[t][u]},
           \A t \in Tournaments :
               status'[t] \in {"NONE", "OPEN", "STARTED"} =>
                   \/ status[t] \in {"NONE", "OPEN", "STARTED"}
                   \/ \E p \in Passes : pass[p].pc = "mark" /\ pass[p].t = t,
           \A p \in Passes : pass'[p].pc \in {"mark", "commit"} =>
               \/ pass[p].pc \in {"mark", "commit"} /\ pass'[p].t = pass[p].t
               \/ pass'[p].t \in Tournaments /\ status[pass'[p].t] \in {"OPEN", "STARTED"}
    PROVE  WrittenInv'
  <1>1. CASE lapsed'
    BY <1>1 DEF WrittenInv
  <1>2. CASE ~ lapsed'
    <2>1. UnwrittenUntilCommit /\ \A t \in Tournaments : Agree(t)
      BY <1>2 DEF ResultsInv, WrittenInv
    <2>2. ASSUME NEW t \in Tournaments PROVE Agree(t)'
      <3>1. Agree(t)
        BY <2>1
      <3>2. \A u \in Users : rank'[t][u] # 0 => rank'[t][u] = rank[t][u]
        OBVIOUS
      <3> QED
        BY <3>1, <3>2 DEF Agree
    <2>3. ASSUME NEW t \in Tournaments, Unwritten(t) PROVE Unwritten(t)'
      BY <2>3 DEF Unwritten
    <2>4. ASSUME NEW t \in Tournaments, status'[t] \in {"NONE", "OPEN", "STARTED"}
          PROVE  Unwritten(t)'
      BY <2>1, <2>3, <2>4 DEF UnwrittenUntilCommit
    <2>5. ASSUME NEW p \in Passes, pass'[p].pc \in {"mark", "commit"}
          PROVE  Unwritten(pass[p].t)'
      <3>1. pass'[p].t \in Tournaments /\ Unwritten(pass'[p].t)
        BY <2>1, <2>5 DEF UnwrittenUntilCommit, TypeInv, PassType
      <3>2. PICK t \in Tournaments : t = pass'[p].t
        BY <3>1
      <3> QED
        BY <2>3, <3>1, <3>2 DEF Unwritten
    <2>6. UnwrittenUntilCommit'
      BY <2>4, <2>5 DEF UnwrittenUntilCommit, Unwritten
    <2> QED
      BY <2>2, <2>6 DEF WrittenInv
  <1> QED
    BY <1>1, <1>2

LEMMA ServiceWritten ==
    ASSUME TypeInv, ResultsInv,
           \/ \E t \in Tournaments : Create(t) \/ Cancel(t) \/ TimePasses(t)
           \/ \E t \in Tournaments, u \in Users : WinMatch(t, u)
           \/ \E c \in Calls, t \in Tournaments : EditRead(c, t)
           \/ \E c \in Calls, t \in Tournaments, u \in Users :
                JoinRead(c, t, u) \/ LeaveRead(c, t, u)
           \/ \E c \in Calls : CallWrite(c)
    PROVE  FitUntilCommit' /\ WrittenInv'
  <1>1. UNCHANGED <<winner, prizes, lapsed>>
    BY LapsedSame DEF Create, Cancel, TimePasses, WinMatch, EditRead, JoinRead, LeaveRead,
           CallWrite, JoinWrite, LeaveWrite, EditWrite, EditStatuses, results
  <1>2. ASSUME NEW t \in Tournaments, status'[t] \in {"NONE", "OPEN", "STARTED"}
        PROVE  status[t] \in {"NONE", "OPEN", "STARTED"}
    BY <1>2 DEF Create, Cancel, TimePasses, WinMatch, EditRead, JoinRead, LeaveRead,
                CallWrite, JoinWrite, LeaveWrite, EditWrite, EditStatuses, TypeInv, TourType
  <1>3. \/ UNCHANGED <<rank, pass>>
        \/ \E c \in Calls : LeaveWrite(c)
    BY DEF Create, Cancel, TimePasses, WinMatch, EditRead, JoinRead,
           LeaveRead, CallWrite, JoinWrite, EditWrite, EditStatuses, results
  <1>4. ASSUME NEW p \in Passes
        PROVE  /\ pass'[p].pc = pass[p].pc /\ pass'[p].t = pass[p].t
               /\ pass'[p].order = pass[p].order /\ pass'[p].winners = pass[p].winners
    <2>1. ASSUME NEW c \in Calls, LeaveWrite(c)
          PROVE  pass'[p] = pass[p] \/ pass'[p] = [pass[p] EXCEPT !.rows = @ \ {call[c].u}]
      BY <2>1 DEF LeaveWrite
    <2>2. pass[p] \in Memory
      BY DEF TypeInv, PassType
    <2> QED
      BY <1>3, <2>1, <2>2 DEF Memory
  <1>5. ASSUME NEW t \in Tournaments, NEW u \in Users
        PROVE  rank'[t][u] \in {0, rank[t][u]}
    <2>1. ASSUME NEW c \in Calls, LeaveWrite(c) PROVE rank'[t][u] \in {0, rank[t][u]}
      <3>1. rank' = [rank EXCEPT ![call[c].t][call[c].u] = 0]
        BY <2>1 DEF LeaveWrite
      <3> QED
        BY <3>1 DEF TypeInv, ResultType
    <2> QED
      BY <1>3, <2>1
  <1>6. WrittenInv'
    BY <1>1, <1>2, <1>4, <1>5, WrittenStep
  <1>7. FitUntilCommit'
    BY <1>4 DEF ResultsInv, FitUntilCommit
  <1> QED
    BY <1>6, <1>7

(* The steps of a pass that leave status and results alone.                    *)
LEMMA ReadingWritten ==
    ASSUME TypeInv, ResultsInv, NEW p \in Passes,
           \/ Acquire(p) \/ FindOpen(p) \/ Start(p) \/ TellStart(p) \/ FindStarted(p)
           \/ ReadResults(p) \/ TellEnd(p) \/ Release(p) \/ PassFault(p) \/ PassCrash(p)
    PROVE  FitUntilCommit' /\ WrittenInv'
  <1>1. UNCHANGED <<results, lapsed, status>>
    BY LapsedSame DEF Acquire, FindOpen, Start, TellStart, FindStarted, ReadResults, TellEnd,
           Release, PassFault, PassCrash
  <1>2. \A q \in Passes : q # p => pass'[q] = pass[q]
    BY DEF Acquire, FindOpen, Start, TellStart, FindStarted, ReadResults, TellEnd,
           Release, PassFault, PassCrash, Loop, Throw, TypeInv, PassType
  <1> DEFINE Taken ==
        /\ pass'[p].pc \in {"mark", "commit"} =>
            pass'[p].t \in Tournaments /\ status[pass'[p].t] \in {"OPEN", "STARTED"}
        /\ pass'[p].pc = "commit" => Fit(pass'[p].order, pass'[p].winners)
  <1>3. Taken
    <2>1. CASE Acquire(p)
      BY <2>1 DEF Acquire, TypeInv, PassType, Memory
    <2>2. CASE Release(p) \/ PassFault(p) \/ PassCrash(p)
      BY <2>2 DEF Release, PassFault, PassCrash, Throw, IdlePass, TypeInv, PassType
    <2>3. CASE FindOpen(p) \/ TellStart(p) \/ FindStarted(p) \/ TellEnd(p)
      <3>1. PICK todo \in SUBSET Tournaments, pc \in {"start", "complete"},
                 after \in {"findStarted", "release"} : Loop(p, todo, pc, after)
        BY <2>3 DEF FindOpen, TellStart, FindStarted, TellEnd, TypeInv, PassType, Memory
      <3> QED
        BY <3>1 DEF Loop, IdlePass, TypeInv, PassType
    <2>4. CASE Start(p)
      <3>1. PICK t \in pass[p].todo :
              IF status[t] = "OPEN"
              THEN pass' = [pass EXCEPT ![p].pc = "mark", ![p].t = t, ![p].todo = @ \ {t}]
              ELSE Throw(p)
        BY <2>4 DEF Start
      <3>2. CASE status[t] = "OPEN"
        BY <3>1, <3>2 DEF TypeInv, PassType, Memory
      <3>3. CASE status[t] # "OPEN"
        BY <3>1, <3>3 DEF Throw, IdlePass, TypeInv, PassType
      <3> QED
        BY <3>2, <3>3
    <2>5. CASE ReadResults(p)
      <3>1. PICK t \in pass[p].todo :
              IF status[t] = "STARTED"
              THEN \E order \in Rankings(t) :
                    pass' = [pass EXCEPT ![p] =
                      [pc |-> "commit", todo |-> @.todo \ {t}, t |-> t, order |-> order,
                       winners |-> {u \in players[t] : order[u] <= 4 /\ score[t][u] > 0},
                       rows |-> players[t]]]
              ELSE Throw(p)
        BY <2>5 DEF ReadResults
      <3>2. t \in Tournaments
        BY DEF TypeInv, PassType, Memory
      <3>3. CASE status[t] = "STARTED"
        <4>1. PICK order \in Rankings(t) :
                pass' = [pass EXCEPT ![p] =
                  [pc |-> "commit", todo |-> @.todo \ {t}, t |-> t, order |-> order,
                   winners |-> {u \in players[t] : order[u] <= 4 /\ score[t][u] > 0},
                   rows |-> players[t]]]
          BY <3>1, <3>3
        <4>2. Fit(order, {u \in players[t] : order[u] <= 4 /\ score[t][u] > 0})
          BY <3>2, RankingsFit
        <4>3. /\ pass'[p].t = t /\ pass'[p].order = order
              /\ pass'[p].winners = {u \in players[t] : order[u] <= 4 /\ score[t][u] > 0}
          BY <4>1 DEF TypeInv, PassType
        <4> QED
          BY <3>2, <3>3, <4>2, <4>3
      <3>4. CASE status[t] # "STARTED"
        BY <3>1, <3>4 DEF Throw, IdlePass, TypeInv, PassType
      <3> QED
        BY <3>3, <3>4
    <2> QED
      BY <2>1, <2>2, <2>3, <2>4, <2>5
  <1>4. FitUntilCommit'
    BY <1>2, <1>3 DEF ResultsInv, FitUntilCommit
  <1>5. WrittenInv'
    BY <1>1, <1>2, <1>3, WrittenStep DEF results
  <1> QED
    BY <1>4, <1>5

LEMMA MarkWritten ==
    ASSUME TypeInv, ResultsInv, NEW p \in Passes, Mark(p)
    PROVE  FitUntilCommit' /\ WrittenInv'
  <1>1. UNCHANGED <<results, lapsed>> /\ pass[p].pc = "mark"
    BY LapsedSame DEF Mark
  <1>2. \A q \in Passes : pass'[q].pc \in {"mark", "commit"} => pass'[q] = pass[q]
    BY DEF Mark, TypeInv, PassType, Memory
  <1>3. \A t \in Tournaments : t # pass[p].t => status'[t] = status[t]
    BY DEF Mark, TypeInv, TourType
  <1>4. WrittenInv'
    BY <1>1, <1>2, <1>3, WrittenStep DEF results
  <1>5. FitUntilCommit'
    BY <1>2 DEF ResultsInv, FitUntilCommit
  <1> QED
    BY <1>4, <1>5

(* The commit writes all the results of one tournament, which had none.        *)
LEMMA CommitAgree ==
    ASSUME TypeInv, ResultsInv, NEW p \in Passes, Commit(p), ~ lapsed,
           pass[p].rows = DOMAIN pass[p].order, NEW t, t = pass[p].t
    PROVE  t \in Tournaments /\ Agree(t)'
  <1>0. PICK order, winners : order = pass[p].order /\ winners = pass[p].winners
    OBVIOUS
  <1>1. pass[p].pc = "commit" /\ t \in Tournaments /\ winners \in SUBSET Users
    BY <1>0 DEF Commit, TypeInv, PassType, Memory
  <1>2. Unwritten(t) /\ \A u \in Users : prizes[t][u] = 0
    BY <1>1 DEF ResultsInv, WrittenInv, UnwrittenUntilCommit, PaidInv, UnpaidUntilCommit
  <1>3. Fit(order, winners)
    BY <1>0, <1>1 DEF ResultsInv, FitUntilCommit
  <1>4. /\ rank' = [rank EXCEPT ![t] =
              [u \in Users |-> IF u \in DOMAIN order THEN order[u] ELSE @[u]]]
        /\ prizes' = [prizes EXCEPT ![t] =
              [u \in Users |-> IF u \in winners THEN @[u] + 1 ELSE @[u]]]
        /\ \/ winners = {} /\ UNCHANGED winner
           \/ \E champion \in winners :
                /\ \A u \in winners : order[champion] <= order[u]
                /\ winner' = [winner EXCEPT ![t] = champion]
    BY <1>0 DEF Commit
  <1>5. \A u \in Users : rank'[t][u] = IF u \in DOMAIN order THEN order[u] ELSE 0
    BY <1>1, <1>2, <1>4 DEF Unwritten, TypeInv, ResultType
  <1>6. \A u \in Users : prizes'[t][u] = IF u \in winners THEN 1 ELSE 0
    BY <1>1, <1>2, <1>4 DEF TypeInv, ResultType
  <1>7. \A u \in Users : winner'[t] = u => u \in winners /\ order[u] = 1
    <2>1. CASE winners = {} /\ UNCHANGED winner
      BY <1>2, <2>1, LifecycleAssumption DEF Unwritten, LifecycleAssumption
    <2>2. ASSUME NEW champion \in winners,
                 \A u \in winners : order[champion] <= order[u],
                 winner' = [winner EXCEPT ![t] = champion]
          PROVE  \A u \in Users : winner'[t] = u => u \in winners /\ order[u] = 1
      <3>1. winner'[t] = champion
        BY <1>1, <2>2 DEF TypeInv, ResultType
      <3>2. order[champion] = 1
        BY <1>3, <2>2 DEF Fit
      <3> QED
        BY <2>2, <3>1, <3>2
    <2> QED
      BY <1>4, <2>1, <2>2
  <1> QED
    BY <1>1, <1>3, <1>5, <1>6, <1>7 DEF Agree, Fit

LEMMA CommitWritten ==
    ASSUME TypeInv, ResultsInv, NEW p \in Passes, Commit(p)
    PROVE  FitUntilCommit' /\ WrittenInv'
  <1>0. UNCHANGED lapsed /\ pass[p].pc = "commit" /\ pass[p].t \in Tournaments
    BY LapsedSame DEF Commit, TypeInv, PassType
  <1>1. CASE pass[p].rows # DOMAIN pass[p].order
    <2>1. UNCHANGED <<results, lapsed, status>> /\ Throw(p)
      BY <1>1, LapsedSame DEF Commit
    <2>2. \A q \in Passes : pass'[q].pc \in {"mark", "commit"} => pass'[q] = pass[q]
      BY <2>1 DEF Throw, IdlePass, TypeInv, PassType
    <2>3. WrittenInv'
      BY <2>1, <2>2, WrittenStep DEF results
    <2> QED
      BY <2>2, <2>3 DEF ResultsInv, FitUntilCommit
  <1>2. CASE pass[p].rows = DOMAIN pass[p].order
    <2>1. pass' = [pass EXCEPT ![p].pc = "tellEnd"]
      BY <1>2 DEF Commit
    <2>2. \A q \in Passes : pass'[q].pc \in {"mark", "commit"} => q # p /\ pass'[q] = pass[q]
      BY <2>1 DEF TypeInv, PassType, Memory
    <2>3. FitUntilCommit'
      BY <2>2 DEF ResultsInv, FitUntilCommit
    <2>4. CASE lapsed
      BY <1>0, <2>3, <2>4 DEF WrittenInv
    <2>5. CASE ~ lapsed
      <3>1. PICK t \in Tournaments : t = pass[p].t
        BY <1>0
      <3>2. Agree(t)'
        BY <1>2, <2>5, <3>1, CommitAgree
      <3>3. \A o \in Tournaments \ {t} :
              /\ rank'[o] = rank[o] /\ winner'[o] = winner[o]
              /\ prizes'[o] = prizes[o] /\ status'[o] = status[o]
        BY <1>2, <3>1 DEF Commit, TypeInv, ResultType, TourType
      <3>4. \A o \in Tournaments \ {t} : Agree(o) /\ (Unwritten(o) => Unwritten(o)')
        BY <2>5, <3>3 DEF ResultsInv, WrittenInv, Unwritten
      <3>5. \A o \in Tournaments : Agree(o)'
        BY <3>2, <3>3, <3>4 DEF Agree
      <3>6. status'[t] = "COMPLETED"
        BY <1>2, <3>1 DEF Commit, TypeInv, TourType
      <3>7. \A q \in Passes : pass'[q].pc \notin {"mark", "commit"}
        <4>1. \A q \in Passes : q # p => pass[q].pc = "idle"
          BY <1>0, <2>5 DEF ResultsInv, PaidInv, MutexUnlessLapsed
        <4> QED
          BY <2>2, <4>1
      <3>8. \A o \in Tournaments : status'[o] \in {"NONE", "OPEN", "STARTED"} => Unwritten(o)'
        BY <2>5, <3>3, <3>4, <3>6 DEF ResultsInv, WrittenInv, UnwrittenUntilCommit
      <3>9. UnwrittenUntilCommit'
        BY <3>7, <3>8 DEF UnwrittenUntilCommit
      <3> QED
        BY <2>3, <3>5, <3>9 DEF WrittenInv
    <2> QED
      BY <2>4, <2>5
  <1> QED
    BY <1>1, <1>2

LEMMA ResultsInvariance == TypeInv /\ ResultsInv /\ [Next]_vars => ResultsInv'
  <1> SUFFICES ASSUME TypeInv, ResultsInv, [Next]_vars PROVE ResultsInv'
    OBVIOUS
  <1>1. PaidInv'
    BY PaidInvariance DEF ResultsInv
  <1>2. CASE LockExpires
    <2>1. WrittenInv'
      BY <1>2, WrittenStep, LapseFacts, LapsedSame DEF LockExpires, results, TypeInv, LockType
    <2> QED
      BY <1>1, <1>2, <2>1 DEF ResultsInv, FitUntilCommit, LockExpires
  <1>3. CASE UNCHANGED vars
    <2>1. WrittenInv'
      BY <1>3, WrittenStep, LapsedSame DEF vars, results
    <2> QED
      BY <1>1, <1>3, <2>1 DEF ResultsInv, FitUntilCommit, vars
  <1>4. ASSUME NEW p \in Passes, Acquire(p) \/ PassStep(p) \/ PassFault(p) \/ PassCrash(p)
        PROVE  FitUntilCommit' /\ WrittenInv'
    BY <1>4, ReadingWritten, MarkWritten, CommitWritten DEF PassStep
  <1> QED
    BY <1>1, <1>2, <1>3, <1>4, ServiceWritten DEF Next, ResultsInv

LEMMA ResultsInit == Init => ResultsInv
  <1>1. Init => PaidInv
    BY DEF Init, PaidInv, MutexUnlessLapsed, UnpaidUntilCommit, PrizesOnceUnlessLapsed,
           IdlePass
  <1>2. Init => FitUntilCommit /\ WrittenInv
    BY DEF Init, FitUntilCommit, WrittenInv, UnwrittenUntilCommit, Unwritten, Agree,
           IdlePass
  <1> QED
    BY <1>1, <1>2 DEF ResultsInv

(* As long as no lock expires under a running pass, the results of a           *)
(* tournament agree with each other: different ranks, a winner who is first    *)
(* and has a prize, prizes for the first four only, although they are computed *)
(* from scores and rows that have moved on when they are written.              *)
THEOREM ResultsSound == Spec => []ResultsAgree
  <1>1. TypeInv /\ ResultsInv => ResultsAgree
    BY DEF ResultsInv, WrittenInv, Agree, ResultsAgree, TypeInv, TourType
  <1> QED
    BY <1>1, InitType, TypeInvariance, ResultsInit, ResultsInvariance, PTL DEF Spec

-----------------------------------------------------------------------------
(* The ledger.  Of all steps only a commit maps to a decision.                 *)

Outcomes == [t \in Tournaments |-> [winner |-> winner[t], prizes |-> prizes[t]]]

LEMMA CommitDecides ==
    ASSUME TypeInv, ResultsInv, NEW p \in Passes, Commit(p), ~ lapsed
    PROVE  UNCHANGED <<Outcomes, lapsed>> \/ Ledger!Next
  <1>1. CASE pass[p].rows # DOMAIN pass[p].order
    BY <1>1, LapsedSame DEF Commit, results, Outcomes
  <1>2. CASE pass[p].rows = DOMAIN pass[p].order
    <2>1. PICK t, order, winners : /\ t = pass[p].t /\ order = pass[p].order
                                   /\ winners = pass[p].winners
      OBVIOUS
    <2>2. t \in Tournaments /\ winners \in SUBSET Users /\ pass[p].pc = "commit"
      BY <2>1 DEF Commit, TypeInv, PassType, Memory
    <2>3. UNCHANGED lapsed
      BY LapsedSame DEF Commit
    <2>4. prizes' = [prizes EXCEPT ![t] =
              [u \in Users |-> IF u \in winners THEN @[u] + 1 ELSE @[u]]]
      BY <1>2, <2>1 DEF Commit
    <2>5. CASE winners = {} /\ UNCHANGED winner
      <3>1. prizes' = prizes
        BY <2>2, <2>4, <2>5 DEF TypeInv, ResultType
      <3> QED
        BY <2>3, <2>5, <3>1 DEF Outcomes
    <2>6. ASSUME NEW champion \in winners,
                 \A u \in winners : order[champion] <= order[u],
                 winner' = [winner EXCEPT ![t] = champion]
          PROVE  Ledger!Next
      <3>1. \E place \in [winners -> 1 .. 4] :
              /\ place[champion] = 1
              /\ \A u, v \in winners : place[u] = place[v] => u = v
        <4>1. Fit(order, winners)
          BY <2>1, <2>2 DEF ResultsInv, FitUntilCommit
        <4>2. /\ [u \in winners |-> order[u]] \in [winners -> 1 .. 4]
              /\ order[champion] = 1
          BY <2>6, <4>1 DEF Fit
        <4> QED
          BY <2>6, <4>1, <4>2 DEF Fit
      <3>2. winner[t] = None /\ \A u \in Users : prizes[t][u] = 0
        BY <2>1, <2>2 DEF ResultsInv, WrittenInv, UnwrittenUntilCommit, Unwritten,
                          PaidInv, UnpaidUntilCommit
      <3>3. prizes[t] = [u \in Users |-> 0]
        BY <2>2, <3>2 DEF TypeInv, ResultType
      <3>4. Outcomes[t] = Ledger!Undecided
        BY <2>2, <3>2, <3>3 DEF Outcomes, Ledger!Undecided
      <3> DEFINE new == [u \in Users |-> IF u \in winners THEN 1 ELSE 0]
      <3>5. prizes' = [prizes EXCEPT ![t] = new]
        <4>1. prizes[t] \in [Users -> Nat]
          BY <2>2 DEF TypeInv, ResultType
        <4>2. \A u \in Users :
                (IF u \in winners THEN prizes[t][u] + 1 ELSE prizes[t][u]) = new[u]
          BY <3>2
        <4>3. [u \in Users |-> IF u \in winners THEN prizes[t][u] + 1 ELSE prizes[t][u]]
                = new
          BY <4>2
        <4> HIDE DEF new
        <4> QED
          BY <2>4, <4>3
      <3>6. Outcomes' = [Outcomes EXCEPT ![t] = [winner |-> champion, prizes |-> new]]
        <4> HIDE DEF new
        <4> QED
          BY <2>2, <2>6, <3>5 DEF Outcomes, TypeInv, ResultType
      <3>7. Ledger!Decide(t, winners, champion)
        <4> DEFINE o == [s \in Tournaments |-> [winner |-> winner[s], prizes |-> prizes[s]]]
        <4>1. o[t] = Ledger!Undecided
          BY <3>4 DEF Outcomes
        <4>2. o' = [o EXCEPT ![t] = [winner |-> champion, prizes |-> new]]
          BY <3>6 DEF Outcomes
        <4> QED
          BY <2>3, <2>6, <3>1, <4>1, <4>2, Zenon DEF Ledger!Decide
      <3> QED
        BY <2>2, <2>6, <3>7 DEF Ledger!Next
    <2> QED
      BY <1>2, <2>1, <2>5, <2>6 DEF Commit
  <1> QED
    BY <1>1, <1>2

LEMMA LedgerStep ==
    TypeInv /\ ResultsInv /\ [Next]_vars => [Ledger!Next]_<<Outcomes, lapsed>>
  <1> SUFFICES ASSUME TypeInv, ResultsInv, [Next]_vars
               PROVE  UNCHANGED <<Outcomes, lapsed>> \/ Ledger!Next
    OBVIOUS
  <1>1. CASE lapsed'
    BY <1>1 DEF Ledger!Next, Ledger!End, TypeInv, LockType
  <1>2. CASE UNCHANGED <<winner, prizes, lapsed>>
    BY <1>2 DEF Outcomes
  <1>3. ASSUME NEW p \in Passes, Commit(p), ~ lapsed'
        PROVE  UNCHANGED <<Outcomes, lapsed>> \/ Ledger!Next
    BY <1>3, CommitDecides, LapsedSame DEF Commit
  <1>4. \/ lapsed' \/ UNCHANGED <<winner, prizes, lapsed>>
        \/ \E p \in Passes : Commit(p)
    <2>1. ASSUME NEW p \in Passes, Acquire(p) \/ PassStep(p) \/ PassFault(p) \/ PassCrash(p)
          PROVE  UNCHANGED <<winner, prizes, lapsed>> \/ Commit(p)
      BY <2>1, LapsedSame DEF PassStep, Acquire, FindOpen, Start, Mark, TellStart, FindStarted,
                  ReadResults, TellEnd, Release, PassFault, PassCrash, results
    <2>2. LockExpires => lapsed' \/ UNCHANGED <<winner, prizes, lapsed>>
      BY LapseFacts, LapsedSame DEF LockExpires, results, TypeInv, LockType
    <2>3. \/ UNCHANGED <<winner, prizes, lapsed>>
          \/ \E p \in Passes : Acquire(p) \/ PassStep(p) \/ PassFault(p) \/ PassCrash(p)
          \/ LockExpires
      BY LapsedSame DEF Next, vars, Create, Cancel, TimePasses, WinMatch, EditRead, JoinRead,
             LeaveRead, CallWrite, JoinWrite, LeaveWrite, EditWrite, EditStatuses, results
    <2> QED
      BY <2>1, <2>2, <2>3
  <1> QED
    BY <1>1, <1>2, <1>3, <1>4

(* The lifecycle implements the ledger: a tournament is decided once, in one   *)
(* step, with a winner who is among at most four users with a prize each, and  *)
(* nothing that calls and passes do later changes that while no lock lapses    *)
(* under a pass.                                                               *)
THEOREM Refinement == Spec => ImplementsLedger
  <1>1. Init => Ledger!Init
    BY DEF Init, lapsed, Ledger!Init, Ledger!Undecided
  <1>2. TypeInv /\ ResultsInv /\ [Next]_vars =>
          [Ledger!Next]_<<[t \in Tournaments |-> [winner |-> winner[t],
                                                 prizes |-> prizes[t]]], lapsed>>
    BY LedgerStep DEF Outcomes
  <1> QED
    BY <1>1, <1>2, InitType, TypeInvariance, ResultsInit, ResultsInvariance,
       PTL DEF Spec, ImplementsLedger, Ledger!Spec
=============================================================================
