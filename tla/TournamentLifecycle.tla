------------------------ MODULE TournamentLifecycle -------------------------
(***************************************************************************)
(* The life of tournaments: the service functions players and organisers   *)
(* call, and the passes of the scheduler that start and complete due       *)
(* tournaments under a Redis lock with a time to live.                     *)
(*                                                                         *)
(* A handler reads the tournament, decides, and writes in a later step     *)
(* that does not look again.  Scores come from match results and are part  *)
(* of the environment here.                                                *)
(***************************************************************************)
EXTENDS Naturals, FiniteSets

CONSTANTS
    Tournaments,
    Users,
    Passes,         \* scheduler passes that may run at the same time
    Calls,          \* service calls that may be in flight together
    ActorRoles,     \* roles the callers of edit and cancel may have
    MaxPlayers,     \* maxPlayers of every tournament
    BatchLimit,     \* "take" of the scheduler's two searches
    MaxScore,       \* bound: the score of a player
    MaxEdits,       \* bound: edits that find an editable tournament
    MaxCrashes,     \* bound: passes whose process dies
    MaxFaults,      \* bound: database calls that fail
    MaxLapses,      \* bound: passes that outlive the time to live of their lock
    None            \* no user, no tournament, no lock

ASSUME LifecycleAssumption ==
    /\ MaxPlayers \in Nat /\ BatchLimit \in Nat \ {0}
    /\ {MaxScore, MaxEdits, MaxCrashes, MaxFaults, MaxLapses} \subseteq Nat
    /\ None \notin Users /\ None \notin Tournaments /\ None \notin Passes
    /\ IsFiniteSet(Users)

VARIABLES
    status,     \* Tournament.status; "NONE" before the tournament exists
    time,       \* 0 before startTime, 1 from startTime on, 2 from endTime on
    players,    \* TournamentPlayer rows of each tournament
    score,      \* TournamentPlayer.score
    rank,       \* TournamentPlayer.rank; 0 for null
    winner,     \* Tournament.winnerId
    prizes,     \* how many TOURNAMENT_PRIZE rewards a user got in a tournament
    lock,       \* the pass that set lock:tournament-scheduler, or None
    pass,       \* what each scheduler pass is doing
    call,       \* the service calls in flight
    lapses,     \* history: how often the lock of a pass expired before it ended
    spent       \* how much of each bound is used

results == <<rank, winner, prizes>>
vars == <<status, time, players, score, results, lock, pass, call, lapses, spent>>

lapsed == lapses > 0

Statuses  == {"NONE", "DRAFT", "OPEN", "STARTED", "COMPLETED", "CANCELLED"}
PassSteps == {"idle", "findOpen", "start", "mark", "tellStart",
              "findStarted", "complete", "commit", "tellEnd", "release"}

\* What a pass remembers: the tournaments still to handle, the one in hand, the
\* ranks it computed, the winners among them, and which of the rows it ranked
\* still exist.
Orders   == UNION {[read -> 1 .. Cardinality(read)] : read \in SUBSET Users}
IdlePass == [pc |-> "idle", todo |-> {}, t |-> None,
             order |-> [u \in {} |-> 0], winners |-> {}, rows |-> {}]
IdleCall == [op |-> "idle", t |-> None, u |-> None]

TypeOK ==
    /\ status \in [Tournaments -> Statuses]
    /\ time \in [Tournaments -> 0 .. 2]
    /\ players \in [Tournaments -> SUBSET Users]
    /\ score \in [Tournaments -> [Users -> Nat]]
    /\ rank \in [Tournaments -> [Users -> Nat]]
    /\ winner \in [Tournaments -> Users \cup {None}]
    /\ prizes \in [Tournaments -> [Users -> Nat]]
    /\ lock \in Passes \cup {None}
    /\ pass \in [Passes -> [pc : PassSteps, todo : SUBSET Tournaments,
                            t : Tournaments \cup {None}, order : Orders,
                            winners : SUBSET Users, rows : SUBSET Users]]
    /\ call \in [Calls -> [op : {"idle", "join", "leave", "edit"},
                           t : Tournaments \cup {None}, u : Users \cup {None}]]
    /\ \A c \in Calls :
        /\ call[c].op # "idle" => call[c].t \in Tournaments
        /\ call[c].op \in {"join", "leave"} => call[c].u \in Users
    /\ lapses \in Nat
    /\ spent \in [edits : Nat, crashes : Nat, faults : Nat]

Init ==
    /\ status = [t \in Tournaments |-> "NONE"]
    /\ time \in [Tournaments -> 0 .. 2]
    /\ players = [t \in Tournaments |-> {}]
    /\ score = [t \in Tournaments |-> [u \in Users |-> 0]]
    /\ rank = [t \in Tournaments |-> [u \in Users |-> 0]]
    /\ winner = [t \in Tournaments |-> None]
    /\ prizes = [t \in Tournaments |-> [u \in Users |-> 0]]
    /\ lock = None
    /\ pass = [p \in Passes |-> IdlePass]
    /\ call = [c \in Calls |-> IdleCall]
    /\ lapses = 0
    /\ spent = [edits |-> 0, crashes |-> 0, faults |-> 0]

-----------------------------------------------------------------------------
(* The service functions.                                                  *)

Create(t) ==
    /\ status[t] = "NONE"
    /\ status' = [status EXCEPT ![t] = "OPEN"]
    /\ UNCHANGED <<time, players, score, results, lock, pass, call, lapses, spent>>

CallIdle(c) == call[c].op = "idle"

JoinRead(c, t, u) ==
    /\ CallIdle(c)
    /\ status[t] = "OPEN"
    /\ Cardinality(players[t]) < MaxPlayers
    /\ call' = [call EXCEPT ![c] = [op |-> "join", t |-> t, u |-> u]]
    /\ UNCHANGED <<status, time, players, score, results, lock, pass, lapses, spent>>

\* The row is unique per tournament and user: a second one is refused.
JoinWrite(c) ==
    LET t == call[c].t  u == call[c].u IN
    /\ call[c].op = "join"
    /\ call' = [call EXCEPT ![c] = IdleCall]
    /\ players' = [players EXCEPT ![t] = @ \cup {u}]
    /\ UNCHANGED <<status, time, score, results, lock, pass, lapses, spent>>

LeaveRead(c, t, u) ==
    /\ CallIdle(c)
    /\ status[t] = "OPEN"
    /\ call' = [call EXCEPT ![c] = [op |-> "leave", t |-> t, u |-> u]]
    /\ UNCHANGED <<status, time, players, score, results, lock, pass, lapses, spent>>

\* The row goes with its score and rank; a pass that has ranked it will miss it.
LeaveWrite(c) ==
    LET t == call[c].t  u == call[c].u IN
    /\ call[c].op = "leave"
    /\ call' = [call EXCEPT ![c] = IdleCall]
    /\ players' = [players EXCEPT ![t] = @ \ {u}]
    /\ score' = [score EXCEPT ![t][u] = 0]
    /\ rank' = [rank EXCEPT ![t][u] = 0]
    /\ pass' = [p \in Passes |->
                  IF pass[p].t = t THEN [pass[p] EXCEPT !.rows = @ \ {u}] ELSE pass[p]]
    /\ UNCHANGED <<status, time, winner, prizes, lock, lapses, spent>>

\* Anybody may edit a draft, an ADMIN also an open tournament.
EditRead(c, t) ==
    /\ CallIdle(c)
    /\ spent.edits < MaxEdits
    /\ \/ status[t] = "DRAFT"
       \/ status[t] = "OPEN" /\ "ADMIN" \in ActorRoles
    /\ spent' = [spent EXCEPT !.edits = @ + 1]
    /\ call' = [call EXCEPT ![c] = [op |-> "edit", t |-> t, u |-> None]]
    /\ UNCHANGED <<status, time, players, score, results, lock, pass, lapses>>

\* Mutant of EditWrite: the new status is not validated.
EditUnvalidated(c) ==
    LET t == call[c].t IN
    /\ call[c].op = "edit"
    /\ call' = [call EXCEPT ![c] = IdleCall]
    /\ \E new \in Statuses \cup {"ARCHIVED"} : status' = [status EXCEPT ![t] = new]
    /\ UNCHANGED <<time, players, score, results, lock, pass, lapses, spent>>

\* The new data may move the times, and set one of these statuses.
EditStatuses == {"DRAFT", "CANCELLED"}

EditWrite(c) ==
    LET t == call[c].t IN
    /\ call[c].op = "edit"
    /\ call' = [call EXCEPT ![c] = IdleCall]
    /\ \E new \in {status[t]} \cup EditStatuses : status' = [status EXCEPT ![t] = new]
    /\ \E moved \in 0 .. 2 : time' = [time EXCEPT ![t] = moved]
    /\ UNCHANGED <<players, score, results, lock, pass, lapses, spent>>

\* One conditional update.
Cancel(t) ==
    /\ "ADMIN" \in ActorRoles
    /\ status[t] \in {"DRAFT", "OPEN", "STARTED"}
    /\ status' = [status EXCEPT ![t] = "CANCELLED"]
    /\ UNCHANGED <<time, players, score, results, lock, pass, call, lapses, spent>>

CallWrite(c) == JoinWrite(c) \/ LeaveWrite(c) \/ EditWrite(c)

-----------------------------------------------------------------------------
(* The environment: time, and the results of matches.                      *)

TimePasses(t) ==
    /\ time[t] < 2
    /\ time' = [time EXCEPT ![t] = @ + 1]
    /\ UNCHANGED <<status, players, score, results, lock, pass, call, lapses, spent>>

WinMatch(t, u) ==
    /\ status[t] \in {"STARTED", "COMPLETED", "CANCELLED"}
    /\ u \in players[t] /\ score[t][u] < MaxScore
    /\ score' = [score EXCEPT ![t][u] = @ + 1]
    /\ UNCHANGED <<status, time, players, results, lock, pass, call, lapses, spent>>

-----------------------------------------------------------------------------
(* A scheduler pass, one await per step.                                   *)

\* Mutant of Acquire: SET without NX.
AcquireAnyway(p) ==
    /\ pass[p].pc = "idle"
    /\ lock' = p
    /\ pass' = [pass EXCEPT ![p].pc = "findOpen"]
    /\ UNCHANGED <<status, time, players, score, results, call, lapses, spent>>

\* SET NX EX; a pass that does not get the lock ends at once.
Acquire(p) ==
    /\ pass[p].pc = "idle" /\ lock = None
    /\ lock' = p
    /\ pass' = [pass EXCEPT ![p].pc = "findOpen"]
    /\ UNCHANGED <<status, time, players, score, results, call, lapses, spent>>

\* The loops of a pass: the next tournament of todo, or what comes after.
Loop(p, todo, pc, after) ==
    pass' = [pass EXCEPT ![p] = [IdlePass EXCEPT
                !.pc = IF todo = {} THEN after ELSE pc, !.todo = todo]]

\* Whatever throws ends the whole pass in its finally block.
Throw(p) == pass' = [pass EXCEPT ![p] = [IdlePass EXCEPT !.pc = "release"]]

Batch(found, due) ==
    /\ found \subseteq due
    /\ \/ found = due /\ Cardinality(found) <= BatchLimit
       \/ Cardinality(found) = BatchLimit

FindOpen(p) ==
    /\ pass[p].pc = "findOpen"
    /\ LET due == {t \in Tournaments : status[t] = "OPEN" /\ time[t] >= 1} IN
       \E found \in SUBSET due :
        Batch(found, due) /\ Loop(p, found, "start", "findStarted")
    /\ UNCHANGED <<status, time, players, score, results, lock, call, lapses, spent>>

\* startTournament
Start(p) ==
    /\ pass[p].pc = "start"
    /\ \E t \in pass[p].todo :
        IF status[t] = "OPEN"
        THEN pass' = [pass EXCEPT ![p].pc = "mark", ![p].t = t, ![p].todo = @ \ {t}]
        ELSE Throw(p)
    /\ UNCHANGED <<status, time, players, score, results, lock, call, lapses, spent>>

Mark(p) ==
    /\ pass[p].pc = "mark"
    /\ status' = [status EXCEPT ![pass[p].t] = "STARTED"]
    /\ pass' = [pass EXCEPT ![p].pc = "tellStart"]
    /\ UNCHANGED <<time, players, score, results, lock, call, lapses, spent>>

TellStart(p) ==
    /\ pass[p].pc = "tellStart"
    /\ Loop(p, pass[p].todo, "start", "findStarted")
    /\ UNCHANGED <<status, time, players, score, results, lock, call, lapses, spent>>

\* Mutant of FindStarted: the comparison with endTime is turned round.
FindNotEnded(p) ==
    /\ pass[p].pc = "findStarted"
    /\ LET due == {t \in Tournaments : status[t] = "STARTED" /\ time[t] < 2} IN
       \E found \in SUBSET due :
        Batch(found, due) /\ Loop(p, found, "complete", "release")
    /\ UNCHANGED <<status, time, players, score, results, lock, call, lapses, spent>>

FindStarted(p) ==
    /\ pass[p].pc = "findStarted"
    /\ LET due == {t \in Tournaments : status[t] = "STARTED" /\ time[t] = 2} IN
       \E found \in SUBSET due :
        Batch(found, due) /\ Loop(p, found, "complete", "release")
    /\ UNCHANGED <<status, time, players, score, results, lock, call, lapses, spent>>

\* Players by falling score, equal scores in any order.
Rankings(t) ==
    {order \in [players[t] -> 1 .. Cardinality(players[t])] :
        \A u, v \in players[t] : u # v =>
            /\ order[u] # order[v]
            /\ score[t][u] > score[t][v] => order[u] < order[v]}

\* completeTournament
ReadResults(p) ==
    /\ pass[p].pc = "complete"
    /\ \E t \in pass[p].todo :
        IF status[t] = "STARTED"
        THEN \E order \in Rankings(t) :
              pass' = [pass EXCEPT ![p] =
                [pc |-> "commit", todo |-> @.todo \ {t}, t |-> t, order |-> order,
                 winners |-> {u \in players[t] : order[u] <= 4 /\ score[t][u] > 0},
                 rows |-> players[t]]]
        ELSE Throw(p)
    /\ UNCHANGED <<status, time, players, score, results, lock, call, lapses, spent>>

\* Mutants of Commit: the winner is the last of those who get a prize; the new
\* status is left out of the transaction.
CommitLast(p) ==
    LET t == pass[p].t  order == pass[p].order  winners == pass[p].winners IN
    /\ pass[p].pc = "commit"
    /\ \E champion \in winners :
        /\ \A u \in winners : order[champion] >= order[u]
        /\ winner' = [winner EXCEPT ![t] = champion]
    /\ rank' = [rank EXCEPT ![t] =
            [u \in Users |-> IF u \in DOMAIN order THEN order[u] ELSE @[u]]]
    /\ status' = [status EXCEPT ![t] = "COMPLETED"]
    /\ prizes' = [prizes EXCEPT ![t] =
            [u \in Users |-> IF u \in winners THEN @[u] + 1 ELSE @[u]]]
    /\ pass' = [pass EXCEPT ![p].pc = "tellEnd"]
    /\ UNCHANGED <<time, players, score, lock, call, lapses, spent>>
CommitStarted(p) ==
    LET t == pass[p].t  winners == pass[p].winners IN
    /\ pass[p].pc = "commit"
    /\ prizes' = [prizes EXCEPT ![t] =
                    [u \in Users |-> IF u \in winners THEN @[u] + 1 ELSE @[u]]]
    /\ pass' = [pass EXCEPT ![p].pc = "tellEnd"]
    /\ UNCHANGED <<status, time, players, score, rank, winner, lock, call, lapses, spent>>

\* The transaction: it rolls back when a ranked row is gone.
Commit(p) ==
    LET t == pass[p].t  order == pass[p].order  winners == pass[p].winners IN
    /\ pass[p].pc = "commit"
    /\ IF pass[p].rows = DOMAIN order
       THEN /\ rank' = [rank EXCEPT ![t] =
                  [u \in Users |-> IF u \in DOMAIN order THEN order[u] ELSE @[u]]]
            /\ status' = [status EXCEPT ![t] = "COMPLETED"]
            /\ \/ winners = {} /\ UNCHANGED winner
               \/ \E champion \in winners :
                    /\ \A u \in winners : order[champion] <= order[u]
                    /\ winner' = [winner EXCEPT ![t] = champion]
            /\ prizes' = [prizes EXCEPT ![t] =
                  [u \in Users |-> IF u \in winners THEN @[u] + 1 ELSE @[u]]]
            /\ pass' = [pass EXCEPT ![p].pc = "tellEnd"]
       ELSE Throw(p) /\ UNCHANGED <<status, results>>
    /\ UNCHANGED <<time, players, score, lock, call, lapses, spent>>

TellEnd(p) ==
    /\ pass[p].pc = "tellEnd"
    /\ Loop(p, pass[p].todo, "complete", "release")
    /\ UNCHANGED <<status, time, players, score, results, lock, call, lapses, spent>>

\* DEL, whoever holds the lock by now.
Release(p) ==
    /\ pass[p].pc = "release"
    /\ lock' = None
    /\ pass' = [pass EXCEPT ![p] = IdlePass]
    /\ UNCHANGED <<status, time, players, score, results, call, lapses, spent>>

PassStep(p) ==
    \/ FindOpen(p) \/ Start(p) \/ Mark(p) \/ TellStart(p) \/ FindStarted(p)
    \/ ReadResults(p) \/ Commit(p) \/ TellEnd(p) \/ Release(p)

\* A database or Redis call of the pass fails.
PassFault(p) ==
    /\ pass[p].pc \notin {"idle", "release"}
    /\ spent.faults < MaxFaults
    /\ spent' = [spent EXCEPT !.faults = @ + 1]
    /\ Throw(p)
    /\ UNCHANGED <<status, time, players, score, results, lock, call, lapses>>

\* The process of the pass dies, and the lock stays.
PassCrash(p) ==
    /\ pass[p].pc # "idle"
    /\ spent.crashes < MaxCrashes
    /\ spent' = [spent EXCEPT !.crashes = @ + 1]
    /\ pass' = [pass EXCEPT ![p] = IdlePass]
    /\ UNCHANGED <<status, time, players, score, results, lock, call, lapses>>

\* Mutant of LockExpires: SET without EX, only a running pass loses its lock.
LockPersists ==
    /\ lock # None
    /\ pass[lock].pc # "idle" /\ lapses < MaxLapses
    /\ lock' = None /\ lapses' = lapses + 1
    /\ UNCHANGED <<status, time, players, score, results, pass, call, spent>>

LockExpires ==
    /\ lock # None
    /\ pass[lock].pc # "idle" => lapses < MaxLapses
    /\ lapses' = IF pass[lock].pc # "idle" THEN lapses + 1 ELSE lapses
    /\ lock' = None
    /\ UNCHANGED <<status, time, players, score, results, pass, call, spent>>

-----------------------------------------------------------------------------

Next ==
    \/ \E t \in Tournaments : Create(t) \/ Cancel(t) \/ TimePasses(t)
    \/ \E t \in Tournaments, u \in Users : WinMatch(t, u)
    \/ \E c \in Calls, t \in Tournaments : EditRead(c, t)
    \/ \E c \in Calls, t \in Tournaments, u \in Users :
        JoinRead(c, t, u) \/ LeaveRead(c, t, u)
    \/ \E c \in Calls : CallWrite(c)
    \/ \E p \in Passes : Acquire(p) \/ PassStep(p) \/ PassFault(p) \/ PassCrash(p)
    \/ LockExpires

Spec == Init /\ [][Next]_vars

\* The cron job fires again and again, a pass that runs goes on, Redis expires
\* the lock of a dead pass.  A call that has read goes on to write.
Fairness ==
    /\ WF_vars(\E p \in Passes : Acquire(p))
    /\ \A p \in Passes : WF_vars(PassStep(p))
    /\ \A c \in Calls : WF_vars(CallWrite(c))
    /\ WF_vars(LockExpires)

FairSpec == Spec /\ Fairness

-----------------------------------------------------------------------------
(* Properties.                                                             *)

\* While no lock expired under a running pass, at most one pass runs, and it is
\* the one whose lock is set: releasing without looking cannot hit another's.
MutexUnlessLapsed ==
    lapsed \/ \A p \in Passes : pass[p].pc # "idle" => lock = p

\* After that, every lapse makes room for one more pass, and no more than one,
\* although a pass that has lost its lock goes on to delete the lock of its
\* successor and lets a third one in.
OverlapsCounted ==
    Cardinality({p \in Passes : pass[p].pc # "idle"}) <= 1 + lapses

\* While no lock lapsed, a tournament is completed, and its winners paid, at most once,
\* although the start and the completion are written unconditionally.
PrizesOnceUnlessLapsed ==
    lapsed \/ \A t \in Tournaments, u \in Users : prizes[t][u] <= 1

\* The results of a tournament agree, although scores move on and rows come and
\* go while a pass ranks them: no two players share a rank, the winner is ranked
\* first and has a prize, and prizes went to the first four.  A row deleted by a
\* late leave and joined anew has no rank.
ResultsAgree ==
    lapsed \/ \A t \in Tournaments :
        /\ \A u, v \in players[t] :
            rank[t][u] = rank[t][v] /\ rank[t][u] # 0 => u = v
        /\ \A u \in players[t] : rank[t][u] # 0 =>
            /\ winner[t] = u => rank[t][u] = 1 /\ prizes[t][u] > 0
            /\ prizes[t][u] > 0 => rank[t][u] <= 4

Ledger == INSTANCE TournamentLedger WITH
    outcome <- [t \in Tournaments |-> [winner |-> winner[t], prizes |-> prizes[t]]],
    void <- lapsed

\* The lifecycle implements the ledger: winner and prizes are written together,
\* once, and stay, although Mark and Commit do not look at what they overwrite.
ImplementsLedger == Ledger!Spec

\* A due tournament does not stay OPEN, although a pass may die with the lock.
DueEventuallyStarted ==
    \A t \in Tournaments :
        status[t] = "OPEN" /\ time[t] >= 1 ~> status[t] # "OPEN" \/ time[t] = 0

\* A started tournament past its end is completed, or somebody intervened.
DueEventuallyCompleted ==
    \A t \in Tournaments :
        status[t] = "STARTED" /\ time[t] = 2 ~> status[t] # "STARTED" \/ time[t] # 2
=============================================================================
