---------------------------- MODULE Leaderboard -----------------------------
(***************************************************************************)
(* The daily leaderboards and the job that persists them: a sorted set per *)
(* day in Redis, a row per day and player in PostgreSQL, and at midnight   *)
(* one pass in every process, under a Redis lock.                          *)
(*                                                                         *)
(* The cached top of a board, which addPoints invalidates and getTop       *)
(* fills, is in ReadCache.  No working code calls addPoints; it is the     *)
(* interface of the component.                                             *)
(***************************************************************************)
EXTENDS Integers, FiniteSets

CONSTANTS
    Players,        \* numbers: Redis orders equal scores by the member
    MaxDay,         \* bound: days
    Adds,           \* addPoints calls that may be in flight together
    MaxPoints,      \* bound: points given altogether
    TopN,           \* 100: the entries a pass persists
    Passes,         \* one for each process
    Overruns,       \* whether the lock can expire under a running pass
    MaxFailures,    \* bound: passes that die or fail
    None            \* no pass, no player

Days == 1 .. MaxDay

ASSUME LeaderboardAssumption ==
    /\ {MaxPoints, MaxFailures} \subseteq Nat /\ {MaxDay, TopN} \subseteq Nat \ {0}
    /\ Players \subseteq Nat /\ IsFiniteSet(Players)
    /\ Overruns \in BOOLEAN
    /\ None \notin Passes \cup Players

Entries == [points : Nat, rank : 0 .. TopN]     \* rank 0: no entry
Absent  == [points |-> 0, rank |-> 0]

VARIABLES
    day,        \* the day it is
    board,      \* leaderboard:daily:<day>; no points: not a member
    row,        \* the LeaderboardEntry rows of each day
    given,      \* points given so far
    add,        \* what each addPoints call is about to add, and to which day
    lock,       \* lock:leaderboard-reset
    pass,       \* what the pass of each process does, and what it has read
    looked,     \* history: days some pass has looked at
    late,       \* history: days that got points after that
    lapsed,     \* history: days whose pass outlived its lock
    lost,       \* history: days whose last pass died or failed
    failures    \* passes that died or failed

history == <<looked, late, lapsed, lost>>
vars    == <<day, board, row, given, add, lock, pass, history, failures>>

Holding == {"count", "range", "write", "release"}
NoAdd   == [day |-> 0, player |-> None]
NoPass  == [pc |-> "off", day |-> 0, entries |-> [u \in Players |-> Absent]]

TypeOK ==
    /\ day \in Days
    /\ board \in [Days -> [Players -> Nat]]
    /\ row \in [Days -> [Players -> Entries]]
    /\ given \in Nat
    /\ add \in [Adds -> [day : Days \cup {0}, player : Players \cup {None}]]
    /\ \A a \in Adds : add[a] # NoAdd => add[a].day \in 1 .. day /\ add[a].player \in Players
    /\ lock \in Passes \cup {None}
    /\ pass \in [Passes -> [pc : {"off", "acquire"} \cup Holding, day : Days \cup {0},
                            entries : [Players -> Entries]]]
    /\ \A p \in Passes : pass[p].pc # "off" => pass[p].day = day - 1 /\ pass[p].day \in Days
    /\ looked \subseteq 1 .. day - 1 /\ late \subseteq looked
    /\ lapsed \subseteq Days /\ lost \subseteq Days
    /\ failures \in Nat

Init ==
    /\ day = 1
    /\ board = [d \in Days |-> [u \in Players |-> 0]]
    /\ row = [d \in Days |-> [u \in Players |-> Absent]]
    /\ given = 0
    /\ add = [a \in Adds |-> NoAdd]
    /\ lock = None
    /\ pass = [p \in Passes |-> NoPass]
    /\ looked = {} /\ late = {} /\ lapsed = {} /\ lost = {}
    /\ failures = 0

-----------------------------------------------------------------------------
(* addPoints: the day is taken from the clock before the call to Redis.    *)

\* Mutant of AddPoints: the clock of the process is a day ahead.
AddPointsAhead(a, u) ==
    /\ add[a] = NoAdd
    /\ given < MaxPoints
    /\ given' = given + 1
    /\ add' = [add EXCEPT ![a] = [day |-> day + 1, player |-> u]]
    /\ UNCHANGED <<day, board, row, lock, pass, history, failures>>

AddPoints(a, u) ==
    /\ add[a] = NoAdd
    /\ given < MaxPoints
    /\ given' = given + 1
    /\ add' = [add EXCEPT ![a] = [day |-> day, player |-> u]]
    /\ UNCHANGED <<day, board, row, lock, pass, history, failures>>

\* ZINCRBY
Increment(a) ==
    LET d == add[a].day IN
    /\ add[a] # NoAdd
    /\ board' = [board EXCEPT ![d][add[a].player] = @ + 1]
    /\ add' = [add EXCEPT ![a] = NoAdd]
    /\ late' = IF d \in looked THEN late \cup {d} ELSE late
    /\ UNCHANGED <<day, row, given, lock, pass, looked, lapsed, lost, failures>>

-----------------------------------------------------------------------------
(* rollOverDailyLeaderboard                                                *)

Go(p, pc) == pass' = [pass EXCEPT ![p].pc = pc]

\* Cron fires in every process.  A day is longer than any pass, and than the
\* time to live of the lock.
Midnight ==
    /\ day < MaxDay
    /\ lock = None /\ \A p \in Passes : pass[p].pc = "off"
    /\ day' = day + 1
    /\ pass' = [p \in Passes |-> [pc |-> "acquire", day |-> day, entries |-> NoPass.entries]]
    /\ UNCHANGED <<board, row, given, add, lock, history, failures>>

\* Mutant of Acquire: SET without NX.
AcquireAnyway(p) ==
    /\ pass[p].pc = "acquire"
    /\ lock' = p
    /\ Go(p, "count")
    /\ UNCHANGED <<day, board, row, given, add, history, failures>>

Acquire(p) ==
    /\ pass[p].pc = "acquire"
    /\ IF lock = None
       THEN lock' = p /\ Go(p, "count")
       ELSE pass' = [pass EXCEPT ![p] = NoPass] /\ UNCHANGED lock
    /\ UNCHANGED <<day, board, row, given, add, history, failures>>

Count(p) ==
    LET d == pass[p].day IN
    /\ pass[p].pc = "count"
    /\ Go(p, IF \A u \in Players : board[d][u] = 0 THEN "release" ELSE "range")
    /\ looked' = looked \cup {d}
    /\ UNCHANGED <<day, board, row, given, add, lock, late, lapsed, lost, failures>>

\* ZREVRANGE 0 TopN - 1
Above(b, u) == {v \in Players : b[v] > b[u] \/ (b[v] = b[u] /\ v > u)}
Top(b) == [u \in Players |->
            IF b[u] > 0 /\ Cardinality(Above(b, u)) < TopN
            THEN [points |-> b[u], rank |-> Cardinality(Above(b, u)) + 1] ELSE Absent]

\* Mutant of ReadTop: the board of the day that has begun.
ReadToday(p) ==
    /\ pass[p].pc = "range"
    /\ pass' = [pass EXCEPT ![p].pc = "write", ![p].entries = Top(board[day])]
    /\ UNCHANGED <<day, board, row, given, add, lock, history, failures>>

ReadTop(p) ==
    /\ pass[p].pc = "range"
    /\ pass' = [pass EXCEPT ![p].pc = "write", ![p].entries = Top(board[pass[p].day])]
    /\ UNCHANGED <<day, board, row, given, add, lock, history, failures>>

\* One transaction of upserts; rows of players who are not in it stay.
Persist(p) ==
    /\ pass[p].pc = "write"
    /\ Go(p, "release")
    /\ row' = [row EXCEPT ![pass[p].day] = [u \in Players |->
            IF pass[p].entries[u] # Absent THEN pass[p].entries[u] ELSE @[u]]]
    /\ UNCHANGED <<day, board, given, add, lock, history, failures>>

\* The finally block: DEL, whoever holds the lock by now.
Release(p) ==
    /\ pass[p].pc = "release"
    /\ lock' = None
    /\ pass' = [pass EXCEPT ![p] = NoPass]
    /\ UNCHANGED <<day, board, row, given, add, history, failures>>

PassStep(p) == Acquire(p) \/ Count(p) \/ ReadTop(p) \/ Persist(p) \/ Release(p)

\* The day is lost with the pass that had the lock, or with the last to ask.
Lose(p) ==
    lost' = IF \/ pass[p].pc \in {"count", "range", "write"}
               \/ pass[p].pc = "acquire" /\ \A q \in Passes \ {p} : pass[q].pc = "off"
            THEN lost \cup {pass[p].day} ELSE lost

\* A call inside the try block fails.
PassFault(p) ==
    /\ pass[p].pc \in {"count", "range", "write"}
    /\ failures < MaxFailures
    /\ failures' = failures + 1
    /\ Lose(p)
    /\ Go(p, "release")
    /\ UNCHANGED <<day, board, row, given, add, lock, looked, late, lapsed>>

\* The process dies, or is down at midnight, or a call on the lock fails.
PassCrash(p) ==
    /\ pass[p].pc # "off"
    /\ failures < MaxFailures
    /\ failures' = failures + 1
    /\ Lose(p)
    /\ pass' = [pass EXCEPT ![p] = NoPass]
    /\ UNCHANGED <<day, board, row, given, add, lock, looked, late, lapsed>>

LockExpires ==
    /\ lock # None
    /\ lock' = None
    /\ IF pass[lock].pc \in Holding
       THEN Overruns /\ lapsed' = lapsed \cup {pass[lock].day}
       ELSE UNCHANGED lapsed
    /\ UNCHANGED <<day, board, row, given, add, pass, looked, late, lost, failures>>

Next ==
    \/ \E a \in Adds : Increment(a) \/ \E u \in Players : AddPoints(a, u)
    \/ Midnight
    \/ \E p \in Passes : PassStep(p) \/ PassFault(p) \/ PassCrash(p)
    \/ LockExpires

\* A pass that has been fired goes on, and Redis expires the lock.
Fairness == (\A p \in Passes : WF_vars(PassStep(p))) /\ WF_vars(LockExpires)

Spec     == Init /\ [][Next]_vars
FairSpec == Spec /\ Fairness

-----------------------------------------------------------------------------

\* What is persisted of a day is what was earned on it: the rows are the best
\* of the board with their points and ranks, however many passes wrote them,
\* unless points came in after a pass had begun.  (Then the rows can mix two
\* rankings: an entry pushed out of the top stays with its rank.)
RowsAreTheBoard ==
    \A d \in Days \ late :
        (\A u \in Players : row[d][u] = Absent) \/ row[d] = Top(board[d])

\* Persisting a day again never takes points back, late points or not, while
\* no pass outlives its lock: a pass that waited has not read the board yet.
PointsKept == [][\A d \in Days \ lapsed : \A u \in Players :
                    row'[d][u].points >= row[d][u].points]_vars

\* A day whose board has points when the passes begin is persisted, although
\* all passes but one find the lock taken and cron does not come back, unless
\* the pass that had the lock died or failed.
EndedDayPersisted ==
    \A d \in Days :
        (d < day /\ d \notin looked /\ \E u \in Players : board[d][u] > 0)
            ~> (d \in lost \/ \E u \in Players : row[d][u] # Absent)

-----------------------------------------------------------------------------

\* periodKeyForDate, "weekly": the label of a date in the month, where Sunday
\* is weekday 0.  The key is this and the year, without the month.
Week(date, weekday) == (date + 6 - weekday + 6) \div 7

=============================================================================
