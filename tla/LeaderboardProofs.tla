------------------------- MODULE LeaderboardProofs --------------------------
(***************************************************************************)
(* What holds of Leaderboard for any players, days, passes and failures:   *)
(* the rows of a day are its board unless points came in late, points that *)
(* were persisted are not taken back unless a pass outlives its lock, and  *)
(* no day that is over is forgotten.  And what the labels of the weekly    *)
(* boards tell apart.                                                      *)
(***************************************************************************)
EXTENDS Leaderboard, FiniteSetTheorems, TLAPS

\* The steps of Next, each with its own name.
LEMMA NextCases ==
    ASSUME Next
    PROVE  \/ \E a \in Adds, u \in Players : AddPoints(a, u)
           \/ \E a \in Adds : Increment(a)
           \/ Midnight
           \/ \E p \in Passes : Acquire(p)
           \/ \E p \in Passes : Count(p)
           \/ \E p \in Passes : ReadTop(p)
           \/ \E p \in Passes : Persist(p)
           \/ \E p \in Passes : Release(p)
           \/ \E p \in Passes : PassFault(p)
           \/ \E p \in Passes : PassCrash(p)
           \/ LockExpires
  BY Zenon DEF Next, PassStep

-----------------------------------------------------------------------------
(* Types                                                                   *)

\* The top of a board has an entry's type, and the points of the board.
LEMMA TopEntries ==
    ASSUME NEW b \in [Players -> Nat]
    PROVE  /\ Top(b) \in [Players -> Entries]
           /\ \A u \in Players : Top(b)[u] = Absent \/ Top(b)[u].points = b[u]
           /\ \A u \in Players : Top(b)[u].points <= b[u]
<1>1. ASSUME NEW u \in Players PROVE Cardinality(Above(b, u)) \in Nat
  <2>1. Above(b, u) \subseteq Players
    BY DEF Above
  <2>2. QED
    BY <2>1, FS_Subset, FS_CardinalityType, LeaderboardAssumption DEF LeaderboardAssumption
<1>2. ASSUME NEW u \in Players
      PROVE  /\ Top(b)[u] \in Entries
             /\ Top(b)[u] = Absent \/ Top(b)[u].points = b[u]
             /\ Top(b)[u].points <= b[u]
  <2>1. CASE b[u] > 0 /\ Cardinality(Above(b, u)) < TopN
    <3>1. Top(b)[u] = [points |-> b[u], rank |-> Cardinality(Above(b, u)) + 1]
      BY <2>1, Zenon DEF Top
    <3>2. Cardinality(Above(b, u)) + 1 \in 0 .. TopN
      BY <1>1, <2>1, LeaderboardAssumption DEF LeaderboardAssumption
    <3>3. QED
      BY <3>1, <3>2 DEF Entries
  <2>2. CASE ~(b[u] > 0 /\ Cardinality(Above(b, u)) < TopN)
    <3>1. Top(b)[u] = Absent
      BY <2>2, Zenon DEF Top
    <3>2. QED
      BY <3>1, LeaderboardAssumption DEF Entries, Absent, LeaderboardAssumption
  <2>3. QED
    BY <2>1, <2>2
<1>3. Top(b) = [u \in Players |-> Top(b)[u]]
  BY Zenon DEF Top
<1>4. QED
  BY <1>2, <1>3

LEMMA AbsentType == Absent \in Entries
  BY LeaderboardAssumption DEF Absent, Entries, LeaderboardAssumption

LEMMA InitType == Init => TypeOK
  BY AbsentType, LeaderboardAssumption
     DEF Init, TypeOK, NoAdd, NoPass, Days, LeaderboardAssumption

\* TypeOK in two parts, what it says of the passes and of the rest.
PassType == [pc : {"off", "acquire"} \cup Holding, day : Days \cup {0},
             entries : [Players -> Entries]]
PassOK(x, today) == x \in PassType /\ (x.pc # "off" => x.day = today - 1 /\ x.day \in Days)
PassesOK == pass \in [Passes -> PassType] /\ \A p \in Passes : PassOK(pass[p], day)
RestOK ==
    /\ day \in Days
    /\ board \in [Days -> [Players -> Nat]]
    /\ row \in [Days -> [Players -> Entries]]
    /\ given \in Nat
    /\ add \in [Adds -> [day : Days \cup {0}, player : Players \cup {None}]]
    /\ \A a \in Adds : add[a] # NoAdd => add[a].day \in 1 .. day /\ add[a].player \in Players
    /\ lock \in Passes \cup {None}
    /\ looked \subseteq 1 .. day - 1 /\ late \subseteq looked
    /\ lapsed \subseteq Days /\ lost \subseteq Days
    /\ failures \in Nat

LEMMA TypeParts == TypeOK <=> PassesOK /\ RestOK
  BY DEF TypeOK, PassesOK, PassOK, PassType, RestOK

LEMMA NextTypeParts == TypeOK' <=> PassesOK' /\ RestOK'
  BY DEF TypeOK, PassesOK, PassOK, PassType, RestOK

\* A pass that is not running.
LEMMA NoPassOK == \A n \in Nat : PassOK(NoPass, n)
  BY AbsentType DEF PassOK, PassType, NoPass

\* A step that changes one pass.
LEMMA PassUpdate ==
    ASSUME PassesOK, NEW p \in Passes, NEW x, PassOK(x, day),
           pass' = [pass EXCEPT ![p] = x], day' = day
    PROVE  PassesOK'
  BY DEF PassesOK, PassOK

\* A step of a running pass to another place in the program.
LEMMA GoOK ==
    ASSUME PassesOK, NEW p \in Passes, pass[p].pc # "off", NEW pc \in Holding, Go(p, pc),
           day' = day
    PROVE  PassesOK'
<1>1. PassOK([pass[p] EXCEPT !.pc = pc], day)
  BY DEF PassesOK, PassOK, PassType
<1>2. pass' = [pass EXCEPT ![p] = [pass[p] EXCEPT !.pc = pc]]
  BY DEF Go
<1>3. QED
  BY <1>1, <1>2, PassUpdate

\* The passes keep their type.
LEMMA PassesInvariance == PassesOK /\ RestOK /\ [Next]_vars => PassesOK'
<1> SUFFICES ASSUME PassesOK, RestOK, [Next]_vars PROVE PassesOK'
  OBVIOUS
<1>a. day \in Nat
  BY LeaderboardAssumption DEF RestOK, Days, LeaderboardAssumption
<1>b. ASSUME NEW p \in Passes, pass' = [pass EXCEPT ![p] = NoPass], day' = day PROVE PassesOK'
  BY <1>a, <1>b, NoPassOK, PassUpdate
<1>c. ASSUME UNCHANGED <<pass, day>> PROVE PassesOK'
  BY <1>c DEF PassesOK
<1>1. ASSUME NEW a \in Adds, NEW u \in Players, AddPoints(a, u) PROVE PassesOK'
  BY <1>1, <1>c DEF AddPoints
<1>2. ASSUME NEW a \in Adds, Increment(a) PROVE PassesOK'
  BY <1>2, <1>c DEF Increment
<1>3. CASE Midnight
  <2> DEFINE x == [pc |-> "acquire", day |-> day, entries |-> NoPass.entries]
  <2>1. NoPass.entries \in [Players -> Entries]
    BY AbsentType DEF NoPass
  <2>2. day \in Days /\ day = day' - 1
    BY <1>3, <1>a DEF Midnight, RestOK
  <2>3. PassOK(x, day')
    BY <2>1, <2>2 DEF PassOK, PassType
  <2>4. pass' = [p \in Passes |-> x]
    BY <1>3 DEF Midnight
  <2> HIDE DEF x
  <2>5. QED
    BY <2>3, <2>4 DEF PassesOK, PassOK
<1>4. ASSUME NEW p \in Passes, Acquire(p) PROVE PassesOK'
  <2>1. CASE lock = None
    BY <1>4, <2>1, GoOK DEF Acquire, Holding
  <2>2. CASE lock # None
    BY <1>4, <2>2, <1>b DEF Acquire
  <2>3. QED
    BY <2>1, <2>2
<1>5. ASSUME NEW p \in Passes, Count(p) PROVE PassesOK'
  <2>1. PICK pc \in {"range", "release"} : Go(p, pc)
    BY <1>5, Zenon DEF Count
  <2>2. QED
    BY <1>5, <2>1, GoOK DEF Count, Holding
<1>6. ASSUME NEW p \in Passes, ReadTop(p) PROVE PassesOK'
  <2> DEFINE x == [pass[p] EXCEPT !.pc = "write", !.entries = Top(board[pass[p].day])]
  <2>1. pass[p].day \in Days
    BY <1>6 DEF ReadTop, PassesOK, PassOK
  <2>2. Top(board[pass[p].day]) \in [Players -> Entries]
    BY <2>1, TopEntries DEF RestOK
  <2>3. PassOK(x, day)
    BY <1>6, <2>2 DEF ReadTop, PassesOK, PassOK, PassType, Holding
  <2>4. pass' = [pass EXCEPT ![p] = x] /\ day' = day
    BY <1>6 DEF ReadTop
  <2> HIDE DEF x
  <2>5. QED
    BY <2>3, <2>4, PassUpdate
<1>7. ASSUME NEW p \in Passes, Persist(p) PROVE PassesOK'
  BY <1>7, GoOK DEF Persist, Holding
<1>8. ASSUME NEW p \in Passes, Release(p) PROVE PassesOK'
  BY <1>8, <1>b DEF Release
<1>9. ASSUME NEW p \in Passes, PassFault(p) PROVE PassesOK'
  BY <1>9, GoOK DEF PassFault, Holding
<1>10. ASSUME NEW p \in Passes, PassCrash(p) PROVE PassesOK'
  BY <1>10, <1>b DEF PassCrash
<1>11. CASE LockExpires
  BY <1>11, <1>c DEF LockExpires
<1>12. CASE UNCHANGED vars
  BY <1>12, <1>c DEF vars
<1>13. QED
  BY NextCases, <1>1, <1>2, <1>3, <1>4, <1>5, <1>6, <1>7, <1>8, <1>9, <1>10, <1>11, <1>12, Zenon

\* So does the rest of the state.
LEMMA RestInvariance == PassesOK /\ RestOK /\ [Next]_vars => RestOK'
<1> SUFFICES ASSUME PassesOK, RestOK, [Next]_vars PROVE RestOK'
  OBVIOUS
<1>d. \A p \in Passes : pass[p].pc # "off" => pass[p].day = day - 1 /\ pass[p].day \in Days
  BY DEF PassesOK, PassOK
<1>e. Days \subseteq Nat /\ MaxDay \in Nat
  BY LeaderboardAssumption DEF Days, LeaderboardAssumption
<1>1. ASSUME NEW a \in Adds, NEW u \in Players, AddPoints(a, u) PROVE RestOK'
  BY <1>1, <1>e DEF AddPoints, history, NoAdd, RestOK, Days
<1>2. ASSUME NEW a \in Adds, Increment(a) PROVE RestOK'
  <2>1. add[a].day \in Days /\ add[a].day \in 1 .. day /\ add[a].player \in Players
    BY <1>2, <1>e DEF Increment, RestOK, Days
  <2>2. board' \in [Days -> [Players -> Nat]]
    BY <1>2, <2>1 DEF Increment, RestOK
  <2>3. late' \subseteq looked
    BY <1>2 DEF Increment, RestOK
  <2>4. add' \in [Adds -> [day : Days \cup {0}, player : Players \cup {None}]]
    BY <1>2 DEF Increment, RestOK, NoAdd
  <2>5. \A b \in Adds : add'[b] # NoAdd => add'[b].day \in 1 .. day /\ add'[b].player \in Players
    BY <1>2 DEF Increment, RestOK
  <2>6. QED
    BY <1>2, <2>2, <2>3, <2>4, <2>5 DEF Increment, RestOK
<1>3. CASE Midnight
  <2>1. day' \in Days /\ 1 .. day \subseteq 1 .. day' /\ 1 .. day - 1 \subseteq 1 .. day' - 1
    BY <1>3, <1>e DEF Midnight, RestOK, Days
  <2>2. QED
    BY <1>3, <2>1 DEF Midnight, history, RestOK
<1>4. ASSUME NEW p \in Passes, Acquire(p) PROVE RestOK'
  BY <1>4 DEF Acquire, history, RestOK
<1>5. ASSUME NEW p \in Passes, Count(p) PROVE RestOK'
  <2>1. pass[p].day \in 1 .. day - 1
    BY <1>5, <1>d, <1>e DEF Count, RestOK, Days
  <2>2. QED
    BY <1>5, <2>1 DEF Count, RestOK
<1>6. ASSUME NEW p \in Passes, ReadTop(p) PROVE RestOK'
  BY <1>6 DEF ReadTop, history, RestOK
<1>7. ASSUME NEW p \in Passes, Persist(p) PROVE RestOK'
  <2>1. pass[p].day \in Days /\ pass[p].entries \in [Players -> Entries]
    BY <1>7, <1>d DEF Persist, PassesOK, PassType
  <2>2. row' \in [Days -> [Players -> Entries]]
    BY <1>7, <2>1 DEF Persist, RestOK
  <2>3. QED
    BY <1>7, <2>2 DEF Persist, history, RestOK
<1>8. ASSUME NEW p \in Passes, Release(p) PROVE RestOK'
  BY <1>8 DEF Release, history, RestOK
<1>9. ASSUME NEW p \in Passes, pass[p].pc # "off", Lose(p) PROVE lost' \subseteq Days
  BY <1>9, <1>d DEF Lose, RestOK
<1>10. ASSUME NEW p \in Passes, PassFault(p) PROVE RestOK'
  <2>1. lost' \subseteq Days
    BY <1>9, <1>10 DEF PassFault
  <2>2. QED
    BY <1>10, <2>1 DEF PassFault, RestOK
<1>11. ASSUME NEW p \in Passes, PassCrash(p) PROVE RestOK'
  <2>1. lost' \subseteq Days
    BY <1>9, <1>11 DEF PassCrash
  <2>2. QED
    BY <1>11, <2>1 DEF PassCrash, RestOK
<1>12. CASE LockExpires
  <2>1. lock \in Passes
    BY <1>12 DEF LockExpires, RestOK
  <2>2. lapsed' \subseteq Days
    BY <1>12, <2>1, <1>d DEF LockExpires, RestOK, Holding
  <2>3. QED
    BY <1>12, <2>2 DEF LockExpires, RestOK
<1>13. CASE UNCHANGED vars
  BY <1>13 DEF vars, history, RestOK
<1>14. QED
  BY NextCases, <1>1, <1>2, <1>3, <1>4, <1>5, <1>6, <1>7, <1>8, <1>10, <1>11, <1>12, <1>13, Zenon

LEMMA TypeInvariance == TypeOK /\ [Next]_vars => TypeOK'
  BY TypeParts, NextTypeParts, PassesInvariance, RestInvariance

\* The state of the leaderboards keeps its type.
THEOREM TypeCorrect == Spec => []TypeOK
  BY InitType, TypeInvariance, PTL DEF Spec

-----------------------------------------------------------------------------
(* The rows are the board                                                  *)

\* Rows and passes that have read are of days that have been looked at, so
\* that an addition after them is late.
Seen ==
    /\ \A d \in Days : (\E u \in Players : row[d][u] # Absent) => d \in looked
    /\ \A p \in Passes : pass[p].pc \in {"range", "write"} => pass[p].day \in looked

\* What a pass has read is still the top of the board.
ReadIsTop ==
    \A p \in Passes : pass[p].pc = "write" /\ pass[p].day \notin late
                          => pass[p].entries = Top(board[pass[p].day])

RowsInv == TypeOK /\ Seen /\ ReadIsTop /\ RowsAreTheBoard

\* A step that leaves the boards and the rows alone, and takes no pass to
\* "range" or "write".
LEMMA RowsQuiet ==
    ASSUME RowsInv, UNCHANGED <<board, row, late>>, looked \subseteq looked',
           \A p \in Passes : pass'[p] = pass[p] \/ pass'[p].pc \notin {"range", "write"}
    PROVE  Seen' /\ ReadIsTop' /\ RowsAreTheBoard'
<1>1. Seen'
  BY DEF RowsInv, Seen
<1>2. ReadIsTop'
  <2> SUFFICES ASSUME NEW q \in Passes, pass'[q].pc = "write", pass'[q].day \notin late
               PROVE  pass'[q].entries = Top(board'[pass'[q].day])
    BY DEF ReadIsTop
  <2>1. pass'[q] = pass[q]
    OBVIOUS
  <2>2. QED
    BY <2>1 DEF RowsInv, ReadIsTop
<1>3. RowsAreTheBoard'
  BY DEF RowsInv, RowsAreTheBoard, Top, Above
<1>4. QED
  BY <1>1, <1>2, <1>3

\* What a step of one pass does to the others.
LEMMA OtherPasses ==
    ASSUME TypeOK, NEW p \in Passes, NEW x, pass' = [pass EXCEPT ![p] = x]
    PROVE  pass'[p] = x /\ \A q \in Passes \ {p} : pass'[q] = pass[q]
  BY DEF TypeOK

LEMMA RowsIncrement ==
    ASSUME RowsInv, NEW a \in Adds, Increment(a)
    PROVE  Seen' /\ ReadIsTop' /\ RowsAreTheBoard'
<1> DEFINE d == add[a].day
<1>0. d \in Days
  BY LeaderboardAssumption
     DEF RowsInv, TypeOK, Increment, NoAdd, Days, LeaderboardAssumption
<1>1. Seen'
  BY DEF RowsInv, Seen, Increment
<1>2. \A e \in Days \ {d} : board'[e] = board[e]
  BY DEF RowsInv, TypeOK, Increment
<1>3. d \notin looked => (\A u \in Players : row[d][u] = Absent)
                         /\ \A p \in Passes : pass[p].pc = "write" => pass[p].day # d
  BY <1>0 DEF RowsInv, Seen
<1>4. late \subseteq late' /\ (d \in looked => d \in late') /\ UNCHANGED <<row, pass>>
  BY DEF Increment
<1>5. \A p \in Passes : pass[p].pc # "off" => pass[p].day \in Days
  BY DEF RowsInv, TypeOK
<1> HIDE DEF d
<1>6. \A e \in Days \ {d} : Top(board'[e]) = Top(board[e])
  BY <1>2 DEF Top, Above
<1>7. ReadIsTop'
  <2> SUFFICES ASSUME NEW p \in Passes, pass[p].pc = "write", pass[p].day \notin late'
               PROVE  pass'[p].entries = Top(board'[pass'[p].day])
    BY <1>4 DEF ReadIsTop
  <2>1. pass[p].day \in Days \ {d}
    BY <1>3, <1>4, <1>5
  <2>2. pass[p].entries = Top(board[pass[p].day])
    BY <1>4 DEF RowsInv, ReadIsTop
  <2>3. pass'[p] = pass[p]
    BY <1>4
  <2>4. QED
    BY <2>1, <2>2, <2>3, <1>6
<1>8. RowsAreTheBoard'
  <2> SUFFICES ASSUME NEW e \in Days, e \notin late'
               PROVE  (\A u \in Players : row[e][u] = Absent) \/ row[e] = Top(board'[e])
    BY <1>4 DEF RowsAreTheBoard
  <2>1. CASE e = d
    BY <2>1, <1>3, <1>4
  <2>2. CASE e # d
    BY <2>2, <1>4, <1>6 DEF RowsInv, RowsAreTheBoard
  <2>3. QED
    BY <2>1, <2>2
<1>9. QED
  BY <1>1, <1>7, <1>8

LEMMA RowsReadTop ==
    ASSUME RowsInv, NEW p \in Passes, ReadTop(p)
    PROVE  Seen' /\ ReadIsTop' /\ RowsAreTheBoard'
<1> DEFINE x == [pass[p] EXCEPT !.pc = "write", !.entries = Top(board[pass[p].day])]
<1>1. /\ UNCHANGED <<board, row, looked, late>>
      /\ pass' = [pass EXCEPT ![p] = x]
  BY DEF ReadTop, history
<1>2. /\ x.pc = "write" /\ x.day = pass[p].day
      /\ x.entries = Top(board[pass[p].day])
  BY DEF RowsInv, TypeOK
<1>3. pass[p].day \in looked
  BY DEF RowsInv, Seen, ReadTop
<1> HIDE DEF x
<1>4. pass'[p] = x /\ \A q \in Passes \ {p} : pass'[q] = pass[q]
  BY <1>1, OtherPasses DEF RowsInv
<1>5. Seen'
  BY <1>1, <1>2, <1>3, <1>4 DEF RowsInv, Seen
<1>6. \A e : Top(board'[e]) = Top(board[e])
  BY <1>1 DEF Top, Above
<1>7. ReadIsTop'
  <2> SUFFICES ASSUME NEW q \in Passes, pass'[q].pc = "write", pass'[q].day \notin late
               PROVE  pass'[q].entries = Top(board'[pass'[q].day])
    BY <1>1 DEF ReadIsTop
  <2>1. CASE q = p
    BY <2>1, <1>2, <1>4, <1>6
  <2>2. CASE q # p
    BY <2>2, <1>4, <1>6 DEF RowsInv, ReadIsTop
  <2>3. QED
    BY <2>1, <2>2
<1>8. RowsAreTheBoard'
  BY <1>1 DEF RowsInv, RowsAreTheBoard, Top, Above
<1>9. QED
  BY <1>5, <1>7, <1>8

\* What Persist makes of the rows of its day, and of the others.
LEMMA PersistedRows ==
    ASSUME TypeOK, NEW p \in Passes, Persist(p)
    PROVE  /\ pass[p].day \in Days
           /\ row'[pass[p].day] = [u \in Players |->
                IF pass[p].entries[u] # Absent THEN pass[p].entries[u] ELSE row[pass[p].day][u]]
           /\ \A e \in Days \ {pass[p].day} : row'[e] = row[e]
  BY DEF TypeOK, Persist

LEMMA RowsPersist ==
    ASSUME RowsInv, NEW p \in Passes, Persist(p)
    PROVE  Seen' /\ ReadIsTop' /\ RowsAreTheBoard'
<1> DEFINE d == pass[p].day
           x == [pass[p] EXCEPT !.pc = "release"]
<1>1. /\ UNCHANGED <<board, looked, late>>
      /\ pass' = [pass EXCEPT ![p] = x]
      /\ pass[p].pc = "write"
  BY DEF Persist, history, Go
<1>2. /\ d \in Days
      /\ row'[d] = [u \in Players |->
            IF pass[p].entries[u] # Absent THEN pass[p].entries[u] ELSE row[d][u]]
      /\ \A e \in Days \ {d} : row'[e] = row[e]
  BY PersistedRows DEF RowsInv
<1>3. x.pc = "release"
  BY DEF RowsInv, TypeOK
<1>4. d \in looked
  BY <1>1 DEF RowsInv, Seen
<1>5. pass'[p].pc = "release" /\ \A q \in Passes \ {p} : pass'[q] = pass[q]
  BY <1>1, <1>3, OtherPasses DEF RowsInv
<1>6. d \notin late => pass[p].entries = Top(board[d])
  BY <1>1 DEF RowsInv, ReadIsTop
<1>7. (\A u \in Players : row[d][u] = Absent) \/ row[d] = Top(board[d]) \/ d \in late
  BY <1>2 DEF RowsInv, RowsAreTheBoard
<1> HIDE DEF d, x
<1>8. \A e : Top(board'[e]) = Top(board[e])
  BY <1>1 DEF Top, Above
<1>9. Seen'
  BY <1>1, <1>2, <1>4, <1>5 DEF RowsInv, Seen
<1>10. ReadIsTop'
  <2> SUFFICES ASSUME NEW q \in Passes, pass'[q].pc = "write", pass'[q].day \notin late
               PROVE  pass'[q].entries = Top(board'[pass'[q].day])
    BY <1>1 DEF ReadIsTop
  <2>1. q # p /\ pass'[q] = pass[q]
    BY <1>5
  <2>2. QED
    BY <2>1, <1>8 DEF RowsInv, ReadIsTop
<1>11. d \notin late => row'[d] = Top(board[d])
  <2> SUFFICES ASSUME d \notin late PROVE row'[d] = Top(board[d])
    OBVIOUS
  <2>1. \A u \in Players : row'[d][u] = Top(board[d])[u]
    BY <1>2, <1>6, <1>7
  <2>2. row'[d] = [u \in Players |-> row'[d][u]]
    BY <1>2, Zenon
  <2>3. Top(board[d]) = [u \in Players |-> Top(board[d])[u]]
    BY Zenon DEF Top
  <2>4. QED
    BY <2>1, <2>2, <2>3, Zenon
<1>12. RowsAreTheBoard'
  BY <1>1, <1>2, <1>8, <1>11 DEF RowsInv, RowsAreTheBoard
<1>13. QED
  BY <1>9, <1>10, <1>12

LEMMA RowsInductive == RowsInv /\ [Next]_vars => RowsInv'
<1> SUFFICES ASSUME RowsInv, [Next]_vars PROVE Seen' /\ ReadIsTop' /\ RowsAreTheBoard'
  BY TypeInvariance DEF RowsInv
<1>a. ASSUME NEW p \in Passes, NEW x, pass' = [pass EXCEPT ![p] = x],
             x.pc \notin {"range", "write"}
      PROVE  \A q \in Passes : pass'[q] = pass[q] \/ pass'[q].pc \notin {"range", "write"}
  BY <1>a, OtherPasses DEF RowsInv
<1>1. ASSUME NEW a \in Adds, NEW u \in Players, AddPoints(a, u)
      PROVE  Seen' /\ ReadIsTop' /\ RowsAreTheBoard'
  BY <1>1, RowsQuiet DEF AddPoints, history
<1>2. ASSUME NEW a \in Adds, Increment(a) PROVE Seen' /\ ReadIsTop' /\ RowsAreTheBoard'
  BY <1>2, RowsIncrement
<1>3. CASE Midnight
  BY <1>3, RowsQuiet DEF Midnight, history
<1>4. ASSUME NEW p \in Passes, Acquire(p) PROVE Seen' /\ ReadIsTop' /\ RowsAreTheBoard'
  <2>1. PICK x : pass' = [pass EXCEPT ![p] = x] /\ x.pc \notin {"range", "write"}
    <3>1. [pass[p] EXCEPT !.pc = "count"].pc = "count" /\ NoPass.pc = "off"
      BY DEF RowsInv, TypeOK, NoPass
    <3>2. QED
      BY <3>1, <1>4 DEF Acquire, Go
  <2>2. QED
    BY <2>1, <1>a, <1>4, RowsQuiet DEF Acquire, history
<1>5. ASSUME NEW p \in Passes, Count(p) PROVE Seen' /\ ReadIsTop' /\ RowsAreTheBoard'
  <2> DEFINE pc == IF \A u \in Players : board[pass[p].day][u] = 0 THEN "release" ELSE "range"
             x  == [pass[p] EXCEPT !.pc = pc]
  <2>1. /\ UNCHANGED <<board, row, late>>
        /\ looked' = looked \cup {pass[p].day}
        /\ pass' = [pass EXCEPT ![p] = x]
    BY <1>5 DEF Count, Go
  <2>2. x.day = pass[p].day /\ x.pc = pc /\ pc \in {"release", "range"}
    BY DEF RowsInv, TypeOK
  <2> HIDE DEF x, pc
  <2>3. pass'[p] = x /\ \A q \in Passes \ {p} : pass'[q] = pass[q]
    BY <2>1, OtherPasses DEF RowsInv
  <2>4. Seen'
    BY <2>1, <2>2, <2>3 DEF RowsInv, Seen
  <2>5. ReadIsTop'
    <3> SUFFICES ASSUME NEW q \in Passes, pass'[q].pc = "write", pass'[q].day \notin late
                 PROVE  pass'[q].entries = Top(board'[pass'[q].day])
      BY <2>1 DEF ReadIsTop
    <3>1. pass'[q] = pass[q]
      BY <2>2, <2>3
    <3>2. \A e : Top(board'[e]) = Top(board[e])
      BY <2>1 DEF Top, Above
    <3>3. QED
      BY <3>1, <3>2 DEF RowsInv, ReadIsTop
  <2>6. RowsAreTheBoard'
    BY <2>1 DEF RowsInv, RowsAreTheBoard, Top, Above
  <2>7. QED
    BY <2>4, <2>5, <2>6
<1>6. ASSUME NEW p \in Passes, ReadTop(p) PROVE Seen' /\ ReadIsTop' /\ RowsAreTheBoard'
  BY <1>6, RowsReadTop
<1>7. ASSUME NEW p \in Passes, Persist(p) PROVE Seen' /\ ReadIsTop' /\ RowsAreTheBoard'
  BY <1>7, RowsPersist
<1>8. ASSUME NEW p \in Passes, Release(p) PROVE Seen' /\ ReadIsTop' /\ RowsAreTheBoard'
  <2>1. NoPass.pc = "off"
    BY DEF NoPass
  <2>2. QED
    BY <2>1, <1>a, <1>8, RowsQuiet DEF Release, history
<1>9. ASSUME NEW p \in Passes, PassFault(p) PROVE Seen' /\ ReadIsTop' /\ RowsAreTheBoard'
  <2>1. [pass[p] EXCEPT !.pc = "release"].pc = "release"
    BY DEF RowsInv, TypeOK
  <2>2. pass' = [pass EXCEPT ![p] = [pass[p] EXCEPT !.pc = "release"]]
    BY <1>9 DEF PassFault, Go
  <2>3. QED
    BY <2>1, <2>2, <1>a, <1>9, RowsQuiet DEF PassFault
<1>10. ASSUME NEW p \in Passes, PassCrash(p) PROVE Seen' /\ ReadIsTop' /\ RowsAreTheBoard'
  <2>1. NoPass.pc = "off"
    BY DEF NoPass
  <2>2. QED
    BY <2>1, <1>a, <1>10, RowsQuiet DEF PassCrash
<1>11. CASE LockExpires
  BY <1>11, RowsQuiet DEF LockExpires
<1>12. CASE UNCHANGED vars
  BY <1>12, RowsQuiet DEF vars, history
<1>13. QED
  BY NextCases, <1>1, <1>2, <1>3, <1>4, <1>5, <1>6, <1>7, <1>8, <1>9, <1>10, <1>11, <1>12, Zenon

\* The rows of a day are the best of its board, with their points and ranks,
\* unless points came in after a pass had begun.
THEOREM Rows == Spec => []RowsAreTheBoard
<1>1. Init => RowsInv
  <2>1. ASSUME Init PROVE Seen /\ ReadIsTop /\ RowsAreTheBoard
    BY <2>1 DEF Init, Seen, ReadIsTop, RowsAreTheBoard, NoPass
  <2>2. QED
    BY <2>1, InitType DEF RowsInv
<1>2. RowsInv => RowsAreTheBoard
  BY DEF RowsInv
<1>3. QED
  BY <1>1, <1>2, RowsInductive, PTL DEF Spec

-----------------------------------------------------------------------------
(* Points that were persisted are kept                                     *)

\* Boards only grow: what was persisted or read is at most what is there now.
AtMostBoard ==
    /\ \A d \in Days, u \in Players : row[d][u].points <= board[d][u]
    /\ \A p \in Passes : pass[p].pc = "write" =>
           \A u \in Players : pass[p].entries[u].points <= board[pass[p].day][u]

\* While the lock has not expired under a pass of the day, it is the pass that
\* goes on.
LockHeld ==
    \A p \in Passes : pass[p].pc \in Holding /\ pass[p].day \notin lapsed => lock = p

\* So that nothing is persisted between its reading and its writing.
ReadIsNewest ==
    \A p \in Passes : pass[p].pc = "write" /\ pass[p].day \notin lapsed =>
        \A u \in Players : pass[p].entries[u] # Absent =>
            row[pass[p].day][u].points <= pass[p].entries[u].points

PointsInv == TypeOK /\ AtMostBoard /\ LockHeld /\ ReadIsNewest

\* The values of the boards, the rows and what the passes read are numbers.
LEMMA Numbers ==
    ASSUME TypeOK
    PROVE  /\ \A d \in Days, u \in Players : board[d][u] \in Nat /\ row[d][u].points \in Nat
           /\ \A p \in Passes, u \in Players : pass[p].entries[u].points \in Nat
           /\ \A p \in Passes : pass[p].pc # "off" => pass[p].day = day - 1 /\ pass[p].day \in Days
<1>1. \A d \in Days, u \in Players : row[d][u] \in Entries
  BY DEF TypeOK
<1>2. \A p \in Passes, u \in Players : pass[p].entries[u] \in Entries
  BY DEF TypeOK
<1>3. QED
  BY <1>1, <1>2 DEF TypeOK, Entries

\* A step that leaves boards and rows alone and takes one pass to where it
\* neither has read nor begins to hold the lock.
LEMMA PointsQuiet ==
    ASSUME PointsInv, UNCHANGED <<board, row>>, lapsed \subseteq lapsed',
           \A p \in Passes : \/ pass'[p] = pass[p]
                             \/ pass'[p].pc # "write"
    PROVE  AtMostBoard' /\ ReadIsNewest'
<1>1. AtMostBoard'
  BY DEF PointsInv, AtMostBoard
<1>2. ReadIsNewest'
  BY DEF PointsInv, ReadIsNewest
<1>3. QED
  BY <1>1, <1>2

\* No step of the passes' state gives up the lock of another pass that holds it.
LEMMA LockQuiet ==
    ASSUME PointsInv, UNCHANGED <<lock, lapsed>>,
           \A p \in Passes : \/ pass'[p] = pass[p]
                             \/ pass'[p].pc \notin Holding
                             \/ pass[p].pc \in Holding /\ pass'[p].day = pass[p].day
    PROVE  LockHeld'
  BY DEF PointsInv, LockHeld

\* The value of a pass after a step of its own.
LEMMA PassValues ==
    ASSUME TypeOK, NEW p \in Passes
    PROVE  /\ \A pc : LET x == [pass[p] EXCEPT !.pc = pc]
                      IN  x.pc = pc /\ x.day = pass[p].day /\ x.entries = pass[p].entries
           /\ NoPass.pc = "off"
  BY DEF TypeOK, NoPass

LEMMA PointsIncrement ==
    ASSUME PointsInv, NEW a \in Adds, Increment(a)
    PROVE  AtMostBoard' /\ LockHeld' /\ ReadIsNewest'
<1>1. UNCHANGED <<row, lock, pass, lapsed>>
  BY DEF Increment
<1>2. \A d \in Days, u \in Players : board[d][u] <= board'[d][u] /\ board'[d][u] \in Nat
  BY DEF PointsInv, TypeOK, Increment
<1>3. AtMostBoard'
  <2>1. \A d \in Days, u \in Players : row[d][u].points <= board'[d][u]
    BY <1>2, Numbers DEF PointsInv, AtMostBoard
  <2>2. ASSUME NEW p \in Passes, pass[p].pc = "write", NEW u \in Players
        PROVE  pass[p].entries[u].points <= board'[pass[p].day][u]
    BY <1>2, <2>2, Numbers DEF PointsInv, AtMostBoard
  <2>3. QED
    BY <1>1, <2>1, <2>2 DEF AtMostBoard
<1>4. LockHeld' /\ ReadIsNewest'
  BY <1>1 DEF PointsInv, LockHeld, ReadIsNewest
<1>5. QED
  BY <1>3, <1>4

LEMMA PointsReadTop ==
    ASSUME PointsInv, NEW p \in Passes, ReadTop(p)
    PROVE  AtMostBoard' /\ LockHeld' /\ ReadIsNewest'
<1> DEFINE d == pass[p].day
           x == [pass[p] EXCEPT !.pc = "write", !.entries = Top(board[d])]
<1>1. /\ UNCHANGED <<board, row, lock, lapsed>>
      /\ pass' = [pass EXCEPT ![p] = x]
      /\ pass[p].pc = "range" /\ pass[p].pc \in Holding
  BY DEF ReadTop, history, Holding
<1>2. x.pc = "write" /\ x.day = d /\ x.entries = Top(board[d])
  BY DEF PointsInv, TypeOK
<1>3. d \in Days
  BY <1>1, Numbers DEF PointsInv
<1>4. \A u \in Players : /\ Top(board[d])[u].points <= board[d][u]
                         /\ Top(board[d])[u] = Absent \/ Top(board[d])[u].points = board[d][u]
  <2>1. board[d] \in [Players -> Nat]
    BY <1>3 DEF PointsInv, TypeOK
  <2>2. QED
    BY <2>1, TopEntries
<1> HIDE DEF d, x
<1>5. pass'[p] = x /\ \A q \in Passes \ {p} : pass'[q] = pass[q]
  BY <1>1, OtherPasses DEF PointsInv
<1>6. AtMostBoard'
  BY <1>1, <1>2, <1>4, <1>5 DEF PointsInv, AtMostBoard
<1>7. LockHeld'
  BY <1>1, <1>2, <1>5, LockQuiet DEF d
<1>8. \A u \in Players : row[d][u].points <= board[d][u]
  BY <1>3 DEF PointsInv, AtMostBoard
<1>9. ReadIsNewest'
  <2> SUFFICES ASSUME NEW q \in Passes, pass'[q].pc = "write", pass'[q].day \notin lapsed,
                      NEW u \in Players, pass'[q].entries[u] # Absent
               PROVE  row[pass'[q].day][u].points <= pass'[q].entries[u].points
    BY <1>1 DEF ReadIsNewest
  <2>1. CASE q = p
    BY <2>1, <1>2, <1>4, <1>5, <1>8
  <2>2. CASE q # p
    BY <2>2, <1>5 DEF PointsInv, ReadIsNewest
  <2>3. QED
    BY <2>1, <2>2
<1>10. QED
  BY <1>6, <1>7, <1>9

LEMMA PointsPersist ==
    ASSUME PointsInv, NEW p \in Passes, Persist(p)
    PROVE  /\ AtMostBoard' /\ LockHeld' /\ ReadIsNewest'
           /\ \A e \in Days \ lapsed : \A u \in Players : row'[e][u].points >= row[e][u].points
<1> DEFINE d == pass[p].day
           x == [pass[p] EXCEPT !.pc = "release"]
<1>1. /\ UNCHANGED <<board, lock, lapsed>>
      /\ pass' = [pass EXCEPT ![p] = x]
      /\ pass[p].pc = "write" /\ pass[p].pc \in Holding
  BY DEF Persist, history, Go, Holding
<1>2. /\ d \in Days
      /\ \A u \in Players : row'[d][u] = IF pass[p].entries[u] # Absent
                                         THEN pass[p].entries[u] ELSE row[d][u]
      /\ \A e \in Days \ {d} : row'[e] = row[e]
  BY PersistedRows DEF PointsInv
<1>3. x.pc = "release" /\ x.day = d
  BY PassValues DEF PointsInv
<1>4. /\ \A u \in Players : pass[p].entries[u].points <= board[d][u] /\ row[d][u].points <= board[d][u]
  BY <1>1, <1>2 DEF PointsInv, AtMostBoard
<1>5. d \notin lapsed => \A u \in Players : pass[p].entries[u] # Absent =>
                             row[d][u].points <= pass[p].entries[u].points
  BY <1>1 DEF PointsInv, ReadIsNewest
<1>6. \A q \in Passes \ {p} : pass[q].pc = "write" => pass[q].day \in lapsed
  <2> SUFFICES ASSUME NEW q \in Passes \ {p}, pass[q].pc = "write", pass[q].day \notin lapsed
               PROVE  FALSE
    OBVIOUS
  <2>1. pass[q].day = day - 1 /\ pass[p].day = day - 1
    BY <1>1, Numbers DEF PointsInv
  <2>2. lock = q /\ lock = p
    BY <1>1, <2>1 DEF PointsInv, LockHeld, Holding
  <2>3. QED
    BY <2>2
<1>n. \A e \in Days, u \in Players : row[e][u].points \in Nat
  BY Numbers DEF PointsInv
<1> HIDE DEF d, x
<1>7. pass'[p] = x /\ \A q \in Passes \ {p} : pass'[q] = pass[q]
  BY <1>1, OtherPasses DEF PointsInv
<1>8. AtMostBoard'
  <2>1. \A e \in Days, u \in Players : row'[e][u].points <= board[e][u]
    BY <1>2, <1>4 DEF PointsInv, AtMostBoard
  <2>2. \A q \in Passes : pass'[q].pc = "write" =>
            \A u \in Players : pass'[q].entries[u].points <= board[pass'[q].day][u]
    BY <1>3, <1>7 DEF PointsInv, AtMostBoard
  <2>3. QED
    BY <1>1, <2>1, <2>2 DEF AtMostBoard
<1>9. LockHeld'
  BY <1>1, <1>3, <1>7, LockQuiet DEF d
<1>10. ReadIsNewest'
  BY <1>1, <1>3, <1>6, <1>7 DEF ReadIsNewest
<1>11. ASSUME NEW e \in Days \ lapsed, NEW u \in Players PROVE row'[e][u].points >= row[e][u].points
  <2>1. CASE e = d
    BY <2>1, <1>2, <1>5, <1>n
  <2>2. CASE e # d
    BY <2>2, <1>2, <1>n
  <2>3. QED
    BY <2>1, <2>2
<1>12. QED
  BY <1>8, <1>9, <1>10, <1>11

\* Every step keeps the invariant and the points persisted.
LEMMA PointsStep ==
    ASSUME PointsInv, [Next]_vars
    PROVE  /\ AtMostBoard' /\ LockHeld' /\ ReadIsNewest'
           /\ \A e \in Days \ lapsed : \A u \in Players : row'[e][u].points >= row[e][u].points
<1> DEFINE Kept == \A e \in Days \ lapsed : \A u \in Players :
                       row'[e][u].points >= row[e][u].points
           Goal == AtMostBoard' /\ LockHeld' /\ ReadIsNewest' /\ Kept
<1>a. ASSUME UNCHANGED row PROVE Kept
  BY <1>a, Numbers DEF PointsInv
<1>b. ASSUME NEW p \in Passes, NEW x, pass' = [pass EXCEPT ![p] = x], x.pc # "write",
             UNCHANGED <<board, row>>, lapsed \subseteq lapsed'
      PROVE  AtMostBoard' /\ ReadIsNewest'
  BY <1>b, OtherPasses, PointsQuiet DEF PointsInv
<1>c. ASSUME NEW p \in Passes, NEW x, pass' = [pass EXCEPT ![p] = x],
             UNCHANGED <<lock, lapsed>>,
             x.pc \notin Holding \/ (pass[p].pc \in Holding /\ x.day = pass[p].day)
      PROVE  LockHeld'
  BY <1>c, OtherPasses, LockQuiet DEF PointsInv
<1>d. ASSUME NEW p \in Passes, NEW pc, Go(p, pc)
      PROVE  \E x : pass' = [pass EXCEPT ![p] = x] /\ x.pc = pc /\ x.day = pass[p].day
  <2>1. pass' = [pass EXCEPT ![p] = [pass[p] EXCEPT !.pc = pc]]
    BY <1>d DEF Go
  <2> DEFINE x == [pass[p] EXCEPT !.pc = pc]
  <2>2. x.pc = pc /\ x.day = pass[p].day
    BY PassValues DEF PointsInv
  <2> HIDE DEF x
  <2>3. QED
    BY <2>1, <2>2 DEF x
<1>e. ASSUME UNCHANGED <<board, row, pass>>, lapsed \subseteq lapsed'
      PROVE  AtMostBoard' /\ ReadIsNewest' /\ Kept
  <2>1. \A p \in Passes : pass'[p] = pass[p]
    BY <1>e
  <2>2. QED
    BY <2>1, <1>a, <1>e, PointsQuiet
<1>f. ASSUME UNCHANGED <<lock, lapsed, pass>> PROVE LockHeld'
  BY <1>f DEF PointsInv, LockHeld
<1> HIDE DEF Kept
<1>1. ASSUME NEW a \in Adds, NEW u \in Players, AddPoints(a, u) PROVE Goal
  BY <1>1, <1>e, <1>f DEF AddPoints, history
<1>2. ASSUME NEW a \in Adds, Increment(a) PROVE Goal
  BY <1>2, <1>a, PointsIncrement DEF Increment
<1>3. ASSUME Midnight PROVE Goal
  <2>1. \A p \in Passes : pass'[p].pc = "acquire"
    BY <1>3 DEF Midnight
  <2>2. QED
    BY <1>3, <2>1, <1>a, PointsQuiet, LockQuiet DEF Midnight, history, Holding
<1>4. ASSUME NEW p \in Passes, Acquire(p) PROVE Goal
  <2>1. CASE lock # None
    BY <2>1, <1>4, <1>a, <1>b, <1>c, PassValues DEF Acquire, history, Holding, PointsInv
  <2>2. CASE lock = None
    <3>1. PICK x : pass' = [pass EXCEPT ![p] = x] /\ x.pc = "count" /\ x.day = pass[p].day
      BY <2>2, <1>4, <1>d DEF Acquire
    <3>2. pass'[p] = x /\ \A q \in Passes \ {p} : pass'[q] = pass[q]
      BY <3>1, OtherPasses DEF PointsInv
    <3>3. \A q \in Passes : pass[q].pc \in Holding => pass[q].day \in lapsed
      BY <2>2, LeaderboardAssumption DEF PointsInv, LockHeld, LeaderboardAssumption
    <3>4. LockHeld'
      BY <2>2, <1>4, <3>2, <3>3 DEF Acquire, history, LockHeld
    <3>5. QED
      BY <3>1, <3>4, <1>4, <1>a, <1>b DEF Acquire, history
  <2>3. QED
    BY <2>1, <2>2
<1>5. ASSUME NEW p \in Passes, Count(p) PROVE Goal
  <2>1. PICK pc \in {"range", "release"} : Go(p, pc)
    BY <1>5, Zenon DEF Count
  <2>2. PICK x : pass' = [pass EXCEPT ![p] = x] /\ x.pc = pc /\ x.day = pass[p].day
    BY <2>1, <1>d
  <2>3. QED
    BY <1>5, <2>2, <1>a, <1>b, <1>c DEF Count, Holding
<1>6. ASSUME NEW p \in Passes, ReadTop(p) PROVE Goal
  BY <1>6, <1>a, PointsReadTop DEF ReadTop
<1>7. ASSUME NEW p \in Passes, Persist(p) PROVE Goal
  BY <1>7, PointsPersist DEF Kept
<1>8. ASSUME NEW p \in Passes, Release(p) PROVE Goal
  <2>1. AtMostBoard' /\ ReadIsNewest' /\ Kept
    BY <1>8, <1>a, <1>b, PassValues DEF Release, history, PointsInv
  <2>2. LockHeld'
    <3> SUFFICES ASSUME NEW q \in Passes, pass'[q].pc \in Holding, pass'[q].day \notin lapsed
                 PROVE  FALSE
      BY <1>8 DEF Release, history, LockHeld
    <3>1. q # p /\ pass'[q] = pass[q] /\ pass[p].pc \in Holding /\ pass[p].pc # "off"
      BY <1>8, OtherPasses, PassValues DEF Release, PointsInv, Holding
    <3>2. pass[q].day = day - 1 /\ pass[p].day = day - 1
      BY <3>1, Numbers DEF PointsInv, Holding
    <3>3. lock = q /\ lock = p
      BY <3>1, <3>2 DEF PointsInv, LockHeld
    <3>4. QED
      BY <3>1, <3>3
  <2>3. QED
    BY <2>1, <2>2
<1>9. ASSUME NEW p \in Passes, PassFault(p) PROVE Goal
  <2>1. PICK x : pass' = [pass EXCEPT ![p] = x] /\ x.pc = "release" /\ x.day = pass[p].day
    BY <1>9, <1>d DEF PassFault
  <2>2. QED
    BY <1>9, <2>1, <1>a, <1>b, <1>c DEF PassFault, Holding
<1>10. ASSUME NEW p \in Passes, PassCrash(p) PROVE Goal
  BY <1>10, <1>a, <1>b, <1>c, PassValues DEF PassCrash, Holding, PointsInv
<1>11. ASSUME LockExpires PROVE Goal
  <2>1. lapsed \subseteq lapsed' /\ UNCHANGED <<board, row, pass>>
    BY <1>11 DEF LockExpires
  <2>2. lock \in Passes /\ (pass[lock].pc \in Holding => pass[lock].day \in lapsed')
    BY <1>11 DEF LockExpires, PointsInv, TypeOK
  <2>3. LockHeld'
    BY <2>1, <2>2 DEF PointsInv, LockHeld
  <2>4. QED
    BY <2>1, <2>3, <1>e
<1>12. ASSUME UNCHANGED vars PROVE Goal
  BY <1>12, <1>e, <1>f DEF vars, history
<1>13. Goal
  BY NextCases, <1>1, <1>2, <1>3, <1>4, <1>5, <1>6, <1>7, <1>8, <1>9, <1>10, <1>11, <1>12, Zenon
<1>14. QED
  BY <1>13 DEF Kept

\* Persisting a day again never takes points back while no pass of the day
\* outlives its lock.
THEOREM Points == Spec => PointsKept
<1>1. Init => PointsInv
  <2>1. ASSUME Init PROVE AtMostBoard /\ LockHeld /\ ReadIsNewest
    BY <2>1 DEF Init, AtMostBoard, LockHeld, ReadIsNewest, NoPass, Absent, Holding
  <2>2. QED
    BY <2>1, InitType DEF PointsInv
<1>2. PointsInv /\ [Next]_vars => PointsInv'
  BY PointsStep, TypeInvariance DEF PointsInv
<1>3. PointsInv /\ [Next]_vars =>
          [\A d \in Days \ lapsed : \A u \in Players : row'[d][u].points >= row[d][u].points]_vars
  BY PointsStep
<1>4. QED
  BY <1>1, <1>2, <1>3, PTL DEF Spec, PointsKept

-----------------------------------------------------------------------------
(* No day is forgotten: what of EndedDayPersisted is not about fairness.   *)

\* The top of a board with points has somebody in it: a player with points and
\* the smallest set of better ones has nobody above.
LEMMA TopSomebody ==
    ASSUME NEW b \in [Players -> Nat], NEW w \in Players, b[w] > 0
    PROVE  \E u \in Players : Top(b)[u] # Absent
<1> DEFINE sets == {Above(b, u) : u \in {v \in Players : b[v] > 0}}
<1>1. Players \subseteq Nat /\ IsFiniteSet(Players) /\ TopN \in Nat \ {0}
  BY LeaderboardAssumption DEF LeaderboardAssumption
<1>2. sets \subseteq SUBSET Players /\ sets # {}
  BY DEF Above
<1>3. IsWellFoundedOn(StrictSubsetOrdering(Players), SUBSET Players)
  BY <1>1, FS_StrictSubsetOrderingWellFounded, FS_FiniteSubsetsOfFinite
<1> HIDE DEF sets
<1>4. PICK least \in sets : \A s \in sets : <<s, least>> \notin StrictSubsetOrdering(Players)
  BY <1>2, <1>3, WFMin
<1>5. PICK u \in Players : b[u] > 0 /\ least = Above(b, u)
  BY <1>4 DEF sets
<1>6. Above(b, u) = {}
  <2> SUFFICES ASSUME NEW v \in Above(b, u) PROVE FALSE
    OBVIOUS
  <2>1. v \in Players /\ v \in Nat /\ u \in Nat /\ b[v] \in Nat /\ b[u] \in Nat
    BY <1>1 DEF Above
  <2>2. b[v] > b[u] \/ (b[v] = b[u] /\ v > u)
    BY DEF Above
  <2>3. Above(b, v) \subseteq Above(b, u)
    <3> SUFFICES ASSUME NEW x \in Above(b, v) PROVE x \in Above(b, u)
      OBVIOUS
    <3>1. x \in Players /\ x \in Nat /\ b[x] \in Nat
      BY <1>1 DEF Above
    <3>2. b[x] > b[v] \/ (b[x] = b[v] /\ x > v)
      BY DEF Above
    <3>3. b[x] > b[u] \/ (b[x] = b[u] /\ x > u)
      BY <2>1, <2>2, <3>1, <3>2
    <3>4. QED
      BY <3>1, <3>3 DEF Above
  <2>4. v \notin Above(b, v)
    BY <2>1 DEF Above
  <2>5. Above(b, v) \in sets
    BY <1>5, <2>1, <2>2 DEF sets
  <2>6. <<Above(b, v), Above(b, u)>> \in StrictSubsetOrdering(Players)
    <3>1. Above(b, v) \in SUBSET Players /\ Above(b, u) \in SUBSET Players
      BY DEF Above
    <3>2. Above(b, v) # Above(b, u)
      BY <2>4
    <3>3. QED
      BY <2>3, <3>1, <3>2 DEF StrictSubsetOrdering
  <2>7. QED
    BY <1>4, <1>5, <2>5, <2>6
<1>7. Cardinality(Above(b, u)) = 0
  BY <1>6, FS_EmptySet
<1>8. Top(b)[u] = [points |-> b[u], rank |-> 1]
  <2>1. Cardinality(Above(b, u)) < TopN /\ Cardinality(Above(b, u)) + 1 = 1
    BY <1>1, <1>7
  <2>2. QED
    BY <1>5, <2>1 DEF Top
<1>9. QED
  BY <1>8 DEF Absent

\* A day that is over is settled, it has rows, or a pass has found it empty,
\* was late or was lost, or a pass still works on it.
NoPoints(d) == \A u \in Players : board[d][u] = 0
HasRow(d)   == \E u \in Players : row[d][u] # Absent
Settled(d)  == d \in lost \/ d \in late \/ (d \in looked /\ NoPoints(d)) \/ HasRow(d)
Working(p)  == pass[p].pc \in {"acquire", "count", "range", "write"}

Accounted(d) == Settled(d) \/ \E p \in Passes : Working(p) /\ pass[p].day = d

DaysAccounted == Passes # {} => \A d \in Days : d < day => Accounted(d)

\* A pass that has read has something to write, one that gives the lock back
\* leaves its day settled, and so does one that died with the lock.
PassOwes(p) ==
    LET x == pass[p] IN
    /\ x.pc = "release" => Settled(x.day)
    /\ x.pc = "range" => x.day \in looked /\ (x.day \in late \/ ~NoPoints(x.day))
    /\ x.pc = "write" => x.day \in looked /\ (x.day \in late \/ \E u \in Players : x.entries[u] # Absent)
LockOwes ==
    lock # None => /\ day - 1 \in Days
                   /\ pass[lock].pc # "acquire"
                   /\ pass[lock].pc = "off" => Settled(day - 1)

AccountInv == TypeOK /\ DaysAccounted /\ (\A p \in Passes : PassOwes(p)) /\ LockOwes

LEMMA AccountInit == Init => DaysAccounted /\ (\A p \in Passes : PassOwes(p)) /\ LockOwes
<1> SUFFICES ASSUME Init PROVE DaysAccounted /\ (\A p \in Passes : PassOwes(p)) /\ LockOwes
  OBVIOUS
<1>1. day = 1 /\ lock = None /\ \A p \in Passes : pass[p].pc = "off"
  BY DEF Init, NoPass
<1>2. \A d \in Days : ~(d < day)
  BY <1>1, LeaderboardAssumption DEF Days, LeaderboardAssumption
<1>3. QED
  BY <1>1, <1>2 DEF DaysAccounted, PassOwes, LockOwes

\* Nothing that settles a day is undone: boards only grow, rows stay, and
\* points on an empty board that was looked at make it late.
LEMMA SettledStays ==
    ASSUME TypeOK, [Next]_vars, NEW d \in Days
    PROVE  /\ Settled(d) => Settled(d)'
           /\ ~NoPoints(d) => ~NoPoints(d)'
           /\ d \in looked => d \in looked'
           /\ d \in late => d \in late'
<1> DEFINE Same == row' = row /\ board' = board /\ looked' = looked /\ late' = late
           Goal == /\ Settled(d) => Settled(d)'
                   /\ ~NoPoints(d) => ~NoPoints(d)'
                   /\ d \in looked => d \in looked'
                   /\ d \in late => d \in late'
<1>a. ASSUME Same, lost \subseteq lost' PROVE Goal
  <2>1. (HasRow(d) => HasRow(d)') /\ (NoPoints(d) <=> NoPoints(d)')
    BY <1>a DEF HasRow, NoPoints
  <2>2. QED
    BY <1>a, <2>1 DEF Settled
<1> HIDE DEF Goal
<1>1. ASSUME NEW a \in Adds, NEW u \in Players, AddPoints(a, u) PROVE Goal
  BY <1>1, <1>a DEF AddPoints, history
<1>2. ASSUME NEW a \in Adds, Increment(a) PROVE Goal
  <2>1. /\ row' = row /\ lost' = lost /\ looked' = looked
        /\ late' = IF add[a].day \in looked THEN late \cup {add[a].day} ELSE late
        /\ board' = [board EXCEPT ![add[a].day][add[a].player] = @ + 1]
    BY <1>2 DEF Increment
  <2>2. /\ \A u \in Players : board[d][u] \in Nat
        /\ \A u \in Players : board'[d][u] \in {board[d][u], board[d][u] + 1}
        /\ d # add[a].day => board'[d] = board[d]
    BY <2>1 DEF TypeOK
  <2>3. ~NoPoints(d) => ~NoPoints(d)'
    BY <2>2 DEF NoPoints
  <2>4. d \in looked /\ NoPoints(d) => NoPoints(d)' \/ d \in late'
    BY <2>1, <2>2 DEF NoPoints
  <2>5. HasRow(d) => HasRow(d)'
    BY <2>1 DEF HasRow
  <2>6. d \in late => d \in late'
    BY <2>1
  <2>7. QED
    BY <2>1, <2>3, <2>4, <2>5, <2>6 DEF Goal, Settled
<1>3. ASSUME Midnight PROVE Goal
  BY <1>3, <1>a DEF Midnight, history
<1>4. ASSUME NEW p \in Passes, Acquire(p) PROVE Goal
  BY <1>4, <1>a DEF Acquire, history
<1>5. ASSUME NEW p \in Passes, Count(p) PROVE Goal
  <2>1. row' = row /\ board' = board /\ late' = late /\ lost' = lost /\ looked \subseteq looked'
    BY <1>5 DEF Count
  <2>2. (HasRow(d) => HasRow(d)') /\ (NoPoints(d) <=> NoPoints(d)')
    BY <2>1 DEF HasRow, NoPoints
  <2>3. QED
    BY <2>1, <2>2 DEF Goal, Settled
<1>6. ASSUME NEW p \in Passes, ReadTop(p) PROVE Goal
  BY <1>6, <1>a DEF ReadTop, history
<1>7. ASSUME NEW p \in Passes, Persist(p) PROVE Goal
  <2>1. board' = board /\ UNCHANGED history
    BY <1>7 DEF Persist
  <2>2. row'[d] = row[d] \/ \A u \in Players :
            row'[d][u] = IF pass[p].entries[u] # Absent THEN pass[p].entries[u] ELSE row[d][u]
    <3>1. /\ row'[pass[p].day] = [u \in Players |->
                IF pass[p].entries[u] # Absent THEN pass[p].entries[u] ELSE row[pass[p].day][u]]
          /\ \A e \in Days \ {pass[p].day} : row'[e] = row[e]
      BY <1>7, PersistedRows
    <3>2. CASE d = pass[p].day
      BY <3>1, <3>2
    <3>3. QED
      BY <3>1, <3>2
  <2>3. HasRow(d) => HasRow(d)'
    BY <2>2 DEF HasRow
  <2>4. NoPoints(d) <=> NoPoints(d)'
    BY <2>1 DEF NoPoints
  <2>5. QED
    BY <2>1, <2>3, <2>4 DEF Goal, Settled, history
<1>8. ASSUME NEW p \in Passes, Release(p) PROVE Goal
  BY <1>8, <1>a DEF Release, history
<1>9. ASSUME NEW p \in Passes, PassFault(p) PROVE Goal
  <2>1. lost \subseteq lost'
    BY <1>9 DEF PassFault, Lose
  <2>2. QED
    BY <1>9, <2>1, <1>a DEF PassFault
<1>10. ASSUME NEW p \in Passes, PassCrash(p) PROVE Goal
  <2>1. lost \subseteq lost'
    BY <1>10 DEF PassCrash, Lose
  <2>2. QED
    BY <1>10, <2>1, <1>a DEF PassCrash
<1>11. ASSUME LockExpires PROVE Goal
  BY <1>11, <1>a DEF LockExpires
<1>12. ASSUME UNCHANGED vars PROVE Goal
  BY <1>12, <1>a DEF vars, history
<1>13. Goal
  BY NextCases, <1>1, <1>2, <1>3, <1>4, <1>5, <1>6, <1>7, <1>8, <1>9, <1>10, <1>11, <1>12, Zenon
<1>14. QED
  BY <1>13 DEF Goal

\* A pass that a step leaves alone owes what it owed.
LEMMA StillOwes ==
    ASSUME AccountInv, [Next]_vars, NEW q \in Passes, pass'[q] = pass[q]
    PROVE  PassOwes(q)'
<1>1. CASE pass[q].pc \in {"release", "range", "write"}
  <2>1. pass[q].day \in Days
    BY <1>1 DEF AccountInv, TypeOK
  <2>2. /\ Settled(pass[q].day) => Settled(pass[q].day)'
        /\ ~NoPoints(pass[q].day) => ~NoPoints(pass[q].day)'
        /\ pass[q].day \in looked => pass[q].day \in looked'
        /\ pass[q].day \in late => pass[q].day \in late'
    <3> DEFINE d == pass[q].day
    <3>1. PICK e \in Days : e = d
      BY <2>1
    <3>2. /\ Settled(e) => Settled(e)'
          /\ ~NoPoints(e) => ~NoPoints(e)'
          /\ e \in looked => e \in looked'
          /\ e \in late => e \in late'
      BY SettledStays DEF AccountInv
    <3>3. pass'[q].day = e /\ pass[q].day = e
      BY <3>1
    <3>4. QED
      BY <3>2, <3>3 DEF Settled, NoPoints, HasRow
  <2>3. QED
    BY <2>2 DEF AccountInv, PassOwes, Settled, NoPoints, HasRow
<1>2. CASE pass[q].pc \notin {"release", "range", "write"}
  BY <1>2 DEF PassOwes
<1>3. QED
  BY <1>1, <1>2

\* A step of one pass leaves every day accounted for if it leaves its own day
\* so, and owes only what it owes.
LEMMA AccountPass ==
    ASSUME AccountInv, [Next]_vars, NEW p \in Passes, NEW x,
           pass' = [pass EXCEPT ![p] = x], day' = day,
           PassOwes(p)',
           Working(p) => \/ x.pc \in {"count", "range", "write"} /\ x.day = pass[p].day
                         \/ Accounted(day - 1)'
    PROVE  DaysAccounted' /\ \A q \in Passes : PassOwes(q)'
<1>1. pass'[p] = x /\ \A q \in Passes \ {p} : pass'[q] = pass[q]
  BY OtherPasses DEF AccountInv
<1>2. \A q \in Passes : PassOwes(q)'
  <2>1. ASSUME NEW q \in Passes, q # p PROVE PassOwes(q)'
    BY <1>1, <2>1, StillOwes
  <2>2. ASSUME NEW q \in Passes, q = p PROVE PassOwes(q)'
    BY <2>2
  <2>3. QED
    BY <2>1, <2>2
<1>3. DaysAccounted'
  <2> SUFFICES ASSUME Passes # {}, NEW d \in Days, d < day' PROVE Accounted(d)'
    BY DEF DaysAccounted, Days
  <2>1. CASE Settled(d)
    BY <2>1, SettledStays DEF AccountInv, Accounted
  <2>2. ASSUME NEW q \in Passes, Working(q), pass[q].day = d PROVE Accounted(d)'
    <3>1. CASE q # p
      BY <1>1, <2>2, <3>1 DEF Accounted, Working
    <3>2. CASE q = p
      <4>1. d = day - 1
        BY <2>2 DEF Working, AccountInv, TypeOK
      <4>2. CASE x.pc \in {"count", "range", "write"} /\ x.day = pass[p].day
        BY <1>1, <2>2, <3>2, <4>2 DEF Accounted, Working
      <4>3. CASE Accounted(day - 1)'
        BY <4>1, <4>3 DEF Accounted, Settled, HasRow, NoPoints
      <4>4. QED
        BY <2>2, <3>2, <4>2, <4>3
    <3>3. QED
      BY <3>1, <3>2
  <2>3. QED
    BY <2>1, <2>2 DEF AccountInv, DaysAccounted, Accounted
<1>4. QED
  BY <1>2, <1>3

\* The lock goes on to be owed for when nobody takes it and the pass that has
\* it neither asks again nor leaves its day unsettled.
LEMMA LockStillOwes ==
    ASSUME AccountInv, [Next]_vars, lock' = lock, day' = day, NEW p \in Passes, NEW x,
           pass' = [pass EXCEPT ![p] = x], x.pc # "acquire",
           lock = p /\ x.pc = "off" => Settled(day - 1)'
    PROVE  LockOwes'
<1> SUFFICES ASSUME lock # None PROVE LockOwes'
  BY DEF LockOwes
<1>1. lock \in Passes
  BY DEF AccountInv, TypeOK
<1>2. pass'[p] = x /\ \A q \in Passes \ {p} : pass'[q] = pass[q]
  BY OtherPasses DEF AccountInv
<1>3. day - 1 \in Days
  BY DEF AccountInv, LockOwes
<1>4. pass'[lock].pc = "off" => Settled(day - 1)'
  <2>1. PICK d \in Days : d = day - 1
    BY <1>3
  <2>2. ASSUME lock # p, pass[lock].pc = "off" PROVE Settled(day - 1)'
    <3>1. Settled(d)
      BY <2>1, <2>2 DEF AccountInv, LockOwes
    <3>2. Settled(d)'
      BY <3>1, SettledStays DEF AccountInv
    <3>3. QED
      BY <2>1, <3>2 DEF Settled, NoPoints, HasRow
  <2>3. QED
    BY <1>1, <1>2, <2>2
<1>5. pass'[lock].pc # "acquire"
  BY <1>1, <1>2 DEF AccountInv, LockOwes
<1>6. QED
  BY <1>3, <1>4, <1>5 DEF LockOwes, Settled, NoPoints, HasRow

LEMMA AccountStep ==
    ASSUME AccountInv, [Next]_vars
    PROVE  DaysAccounted' /\ (\A p \in Passes : PassOwes(p)') /\ LockOwes'
<1> DEFINE Goal == DaysAccounted' /\ (\A p \in Passes : PassOwes(p)') /\ LockOwes'
<1>t. TypeOK /\ \A p \in Passes : pass[p].pc # "off" => pass[p].day = day - 1 /\ pass[p].day \in Days
  BY Numbers DEF AccountInv
\* Where the step of a pass ends.
<1>g. ASSUME NEW p \in Passes, NEW pc, Go(p, pc)
      PROVE  \E x : pass' = [pass EXCEPT ![p] = x] /\ x.pc = pc /\ x.day = pass[p].day
  <2> DEFINE x == [pass[p] EXCEPT !.pc = pc]
  <2>1. pass' = [pass EXCEPT ![p] = x]
    BY <1>g DEF Go
  <2>2. x.pc = pc /\ x.day = pass[p].day
    BY <1>t, PassValues
  <2> HIDE DEF x
  <2>3. QED
    BY <2>1, <2>2
<1>x. NoPass.pc = "off"
  BY DEF NoPass
\* A step that leaves the passes and the day alone.
<1>a. ASSUME UNCHANGED <<pass, day>>, lock' \in {lock, None} PROVE Goal
  <2>1. \A p \in Passes : PassOwes(p)'
    BY <1>a, StillOwes
  <2>2. DaysAccounted'
    <3> SUFFICES ASSUME Passes # {}, NEW d \in Days, d < day PROVE Accounted(d)'
      BY <1>a DEF DaysAccounted, Days
    <3>1. Settled(d) => Settled(d)'
      BY SettledStays DEF AccountInv
    <3>2. Accounted(d)
      BY DEF AccountInv, DaysAccounted
    <3>3. QED
      BY <1>a, <3>1, <3>2 DEF Accounted, Working
  <2>3. LockOwes'
    <3> SUFFICES ASSUME lock # None, lock' = lock PROVE LockOwes'
      BY <1>a DEF LockOwes
    <3>1. PICK d \in Days : d = day - 1
      BY DEF AccountInv, LockOwes
    <3>2. Settled(d) => Settled(d)'
      BY SettledStays DEF AccountInv
    <3>3. QED
      BY <1>a, <3>1, <3>2 DEF AccountInv, LockOwes, Settled, NoPoints, HasRow
  <2>4. QED
    BY <2>1, <2>2, <2>3
<1> HIDE DEF Goal
<1>1. ASSUME NEW a \in Adds, NEW u \in Players, AddPoints(a, u) PROVE Goal
  BY <1>1, <1>a DEF AddPoints
<1>2. ASSUME NEW a \in Adds, Increment(a) PROVE Goal
  BY <1>2, <1>a DEF Increment
<1>3. ASSUME Midnight PROVE Goal
  <2>1. /\ lock' = None /\ day' = day + 1 /\ day \in Nat
        /\ \A p \in Passes : pass[p].pc = "off"
        /\ \A p \in Passes : pass'[p].pc = "acquire" /\ pass'[p].day = day
    BY <1>3, <1>t, LeaderboardAssumption DEF Midnight, TypeOK, Days, LeaderboardAssumption
  <2>2. \A p \in Passes : PassOwes(p)'
    BY <2>1 DEF PassOwes
  <2>3. LockOwes'
    BY <2>1 DEF LockOwes
  <2>4. DaysAccounted'
    <3> SUFFICES ASSUME Passes # {}, NEW d \in Days, d < day' PROVE Accounted(d)'
      BY DEF DaysAccounted, Days
    <3>1. d \in Nat
      BY LeaderboardAssumption DEF Days, LeaderboardAssumption
    <3>2. CASE d < day
      <4>1. Settled(d)
        BY <2>1, <3>2 DEF AccountInv, DaysAccounted, Accounted, Working
      <4>2. QED
        BY <4>1, <1>t, SettledStays DEF Accounted
    <3>3. CASE d = day
      <4>1. PICK p : p \in Passes
        OBVIOUS
      <4>2. Working(p)' /\ pass'[p].day = d
        BY <2>1, <3>3, <4>1 DEF Working
      <4>3. QED
        BY <4>1, <4>2 DEF Accounted
    <3>4. QED
      BY <2>1, <3>1, <3>2, <3>3
  <2>5. QED
    BY <2>2, <2>3, <2>4 DEF Goal
<1>4. ASSUME NEW p \in Passes, Acquire(p) PROVE Goal
  <2>0. day' = day /\ pass[p].pc = "acquire"
    BY <1>4 DEF Acquire
  <2>1. CASE lock = None
    <3>1. PICK x : pass' = [pass EXCEPT ![p] = x] /\ x.pc = "count" /\ x.day = pass[p].day
      BY <1>4, <2>1, <1>g DEF Acquire
    <3>2. pass'[p] = x /\ lock' = p
      BY <1>4, <1>t, <2>1, <3>1, OtherPasses DEF Acquire
    <3>3. PassOwes(p)'
      BY <3>1, <3>2 DEF PassOwes
    <3>4. LockOwes'
      BY <1>t, <2>0, <3>1, <3>2 DEF LockOwes
    <3>5. QED
      BY <2>0, <3>1, <3>3, <3>4, AccountPass DEF Goal
  <2>2. CASE lock # None
    <3>1. pass' = [pass EXCEPT ![p] = NoPass] /\ lock' = lock
      BY <1>4, <2>2 DEF Acquire
    <3>2. pass'[p] = NoPass /\ \A q \in Passes \ {p} : pass'[q] = pass[q]
      BY <1>t, <3>1, OtherPasses
    <3>3. lock \in Passes \ {p}
      BY <1>t, <2>0, <2>2 DEF TypeOK, AccountInv, LockOwes
    <3>4. Accounted(day - 1)'
      <4>1. CASE Working(lock)
        <5>1. Working(lock)' /\ pass'[lock].day = day' - 1
          BY <1>t, <2>0, <3>1, <3>2, <3>3, <4>1 DEF Working
        <5>2. QED
          BY <3>1, <3>3, <5>1 DEF Accounted
      <4>2. CASE ~Working(lock)
        <5>1. PICK d \in Days : d = day - 1
          BY <2>2 DEF AccountInv, LockOwes
        <5>2. pass[lock].pc = "off" \/ (pass[lock].pc = "release" /\ pass[lock].day = d)
          BY <1>t, <3>3, <4>2, <5>1 DEF Working, TypeOK, Holding
        <5>3. Settled(d)
          BY <2>2, <3>3, <5>1, <5>2 DEF AccountInv, LockOwes, PassOwes
        <5>4. Settled(d)'
          BY <1>t, <5>3, SettledStays
        <5>5. QED
          BY <2>0, <5>1, <5>4 DEF Accounted, Settled, NoPoints, HasRow
      <4>3. QED
        BY <4>1, <4>2
    <3>5. PassOwes(p)'
      BY <1>x, <3>2 DEF PassOwes
    <3>6. LockOwes'
      BY <1>x, <2>0, <3>1, <3>3, LockStillOwes
    <3>7. QED
      BY <2>0, <3>1, <3>4, <3>5, <3>6, AccountPass DEF Goal
  <2>3. QED
    BY <2>1, <2>2
<1>5. ASSUME NEW p \in Passes, Count(p) PROVE Goal
  <2>1. PICK d \in Days : d = pass[p].day
    BY <1>5, <1>t DEF Count
  <2>2. /\ pass[p].pc = "count" /\ UNCHANGED <<day, board, lock>>
        /\ looked' = looked \cup {d}
        /\ Go(p, IF NoPoints(d) THEN "release" ELSE "range")
    BY <1>5, <2>1 DEF Count, NoPoints
  <2>3. PICK x : /\ pass' = [pass EXCEPT ![p] = x] /\ x.day = d
                 /\ x.pc = IF NoPoints(d) THEN "release" ELSE "range"
    BY <1>g, <2>1, <2>2
  <2>4. pass'[p] = x
    BY <1>t, <2>3, OtherPasses
  <2>5. NoPoints(d) => Settled(d)'
    BY <2>2 DEF Settled, NoPoints
  <2>6. PassOwes(p)'
    BY <2>2, <2>3, <2>4, <2>5 DEF PassOwes, NoPoints, Settled, HasRow
  <2>7. x.pc \in {"count", "range", "write"} \/ Accounted(day - 1)'
    <3>1. d = day' - 1
      BY <1>t, <2>1, <2>2
    <3>2. Settled(d)' => Accounted(day - 1)'
      BY <3>1 DEF Accounted, Settled, NoPoints, HasRow
    <3>3. QED
      BY <2>3, <2>5, <3>2
  <2>8. LockOwes'
    BY <2>2, <2>3, LockStillOwes
  <2>9. QED
    BY <2>1, <2>2, <2>3, <2>6, <2>7, <2>8, AccountPass DEF Goal
<1>6. ASSUME NEW p \in Passes, ReadTop(p) PROVE Goal
  <2>1. PICK d \in Days : d = pass[p].day
    BY <1>6, <1>t DEF ReadTop
  <2> DEFINE x == [pass[p] EXCEPT !.pc = "write", !.entries = Top(board[d])]
  <2>2. /\ pass[p].pc = "range" /\ UNCHANGED <<day, board, lock, looked, late>>
        /\ pass' = [pass EXCEPT ![p] = x]
    BY <1>6, <2>1 DEF ReadTop, history
  <2>3. x.pc = "write" /\ x.day = d /\ x.entries = Top(board[d])
    BY <1>t, <2>1 DEF TypeOK
  <2>4. d \in looked /\ (d \in late \/ \E u \in Players : Top(board[d])[u] # Absent)
    <3>1. d \in looked /\ (d \in late \/ \E w \in Players : board[d][w] # 0)
      BY <2>1, <2>2 DEF AccountInv, PassOwes, NoPoints
    <3>2. board[d] \in [Players -> Nat] /\ \A w \in Players : board[d][w] \in Nat
      BY <1>t DEF TypeOK
    <3>3. \A w \in Players : board[d][w] # 0 => board[d][w] > 0
      BY <3>2
    <3>4. QED
      BY <3>1, <3>2, <3>3, TopSomebody
  <2> HIDE DEF x
  <2>5. pass'[p] = x
    BY <1>t, <2>2, OtherPasses
  <2>6. PassOwes(p)'
    BY <2>2, <2>3, <2>4, <2>5 DEF PassOwes
  <2>7. LockOwes'
    BY <2>2, <2>3, LockStillOwes
  <2>8. QED
    BY <2>1, <2>2, <2>3, <2>6, <2>7, AccountPass DEF Goal
\* A pass that ends its work with its day settled.
<1>s. ASSUME NEW p \in Passes, NEW x, pass' = [pass EXCEPT ![p] = x],
             UNCHANGED <<day, lock>>, NEW d \in Days, d = day - 1,
             x.pc = "off" \/ (x.pc = "release" /\ x.day = d),
             pass[p].pc # "off", Settled(d)'
      PROVE  Goal
  <2>1. pass'[p] = x
    BY <1>t, <1>s, OtherPasses
  <2>2. Settled(day - 1)' /\ Accounted(day - 1)'
    BY <1>s DEF Accounted, Settled, NoPoints, HasRow
  <2>3. PassOwes(p)'
    BY <1>s, <2>1 DEF PassOwes, Settled, NoPoints, HasRow
  <2>4. LockOwes'
    BY <1>s, <2>2, LockStillOwes
  <2>5. QED
    BY <1>s, <2>2, <2>3, <2>4, AccountPass DEF Goal
<1>7. ASSUME NEW p \in Passes, Persist(p) PROVE Goal
  <2>1. PICK d \in Days : d = pass[p].day /\ d = day - 1
    BY <1>7, <1>t DEF Persist
  <2>2. pass[p].pc = "write" /\ UNCHANGED <<day, lock, late>> /\ Go(p, "release")
    BY <1>7 DEF Persist, history
  <2>3. PICK x : pass' = [pass EXCEPT ![p] = x] /\ x.pc = "release" /\ x.day = pass[p].day
    BY <1>g, <2>2
  <2>4. \A u \in Players : pass[p].entries[u] # Absent => row'[d][u] # Absent
    <3>1. row'[d] = [u \in Players |->
                IF pass[p].entries[u] # Absent THEN pass[p].entries[u] ELSE row[d][u]]
      BY <1>7, <1>t, <2>1, PersistedRows
    <3>2. QED
      BY <3>1
  <2>5. d \in late \/ \E u \in Players : pass[p].entries[u] # Absent
    BY <2>1, <2>2 DEF AccountInv, PassOwes
  <2>6. Settled(d)'
    BY <2>2, <2>4, <2>5 DEF Settled, HasRow
  <2>7. QED
    BY <1>s, <2>1, <2>2, <2>3, <2>6
<1>8. ASSUME NEW p \in Passes, Release(p) PROVE Goal
  <2>1. /\ pass[p].pc = "release" /\ lock' = None /\ day' = day
        /\ pass' = [pass EXCEPT ![p] = NoPass]
    BY <1>8 DEF Release
  <2>2. pass'[p] = NoPass
    BY <1>t, <2>1, OtherPasses
  <2>3. PassOwes(p)' /\ LockOwes'
    BY <1>x, <2>1, <2>2 DEF PassOwes, LockOwes
  <2>4. ~Working(p)
    BY <2>1 DEF Working
  <2>5. QED
    BY <2>1, <2>3, <2>4, AccountPass DEF Goal
<1>9. ASSUME NEW p \in Passes, PassFault(p) PROVE Goal
  <2>1. PICK d \in Days : d = pass[p].day /\ d = day - 1
    BY <1>9, <1>t DEF PassFault
  <2>2. pass[p].pc # "off" /\ UNCHANGED <<day, lock>> /\ Go(p, "release") /\ d \in lost'
    BY <1>9, <2>1 DEF PassFault, Lose
  <2>3. PICK x : pass' = [pass EXCEPT ![p] = x] /\ x.pc = "release" /\ x.day = pass[p].day
    BY <1>g, <2>2
  <2>4. Settled(d)'
    BY <2>2 DEF Settled
  <2>5. QED
    BY <1>s, <2>1, <2>2, <2>3, <2>4
<1>10. ASSUME NEW p \in Passes, PassCrash(p) PROVE Goal
  <2>1. PICK d \in Days : d = pass[p].day /\ d = day - 1
    BY <1>10, <1>t DEF PassCrash
  <2>2. /\ pass[p].pc # "off" /\ UNCHANGED <<day, lock>>
        /\ pass' = [pass EXCEPT ![p] = NoPass]
    BY <1>10 DEF PassCrash
  <2>3. pass'[p] = NoPass /\ \A q \in Passes \ {p} : pass'[q] = pass[q]
    BY <1>t, <2>2, OtherPasses
  <2>4. CASE Settled(d)'
    BY <1>s, <1>x, <2>1, <2>2, <2>4
  <2>5. CASE ~Settled(d)'
    <3>1. d \notin lost' /\ ~Settled(d)
      BY <1>t, <2>5, SettledStays DEF Settled
    <3>2. pass[p].pc # "release"
      BY <2>1, <3>1 DEF AccountInv, PassOwes
    <3>3. pass[p].pc = "acquire" /\ \E q \in Passes \ {p} : pass[q].pc # "off"
      BY <1>10, <1>t, <2>1, <2>2, <3>1, <3>2 DEF PassCrash, Lose, TypeOK, Holding
    <3>4. PICK q \in Passes \ {p} : pass[q].pc # "off"
      BY <3>3
    <3>5. pass[q].day = d /\ pass[q].pc # "release"
      BY <1>t, <2>1, <3>1, <3>4 DEF AccountInv, PassOwes
    <3>6. Working(q)' /\ pass'[q].day = day' - 1
      BY <1>t, <2>1, <2>2, <2>3, <3>4, <3>5 DEF Working, TypeOK, Holding
    <3>7. Accounted(day - 1)'
      BY <3>6 DEF Accounted
    <3>8. PassOwes(p)'
      BY <1>x, <2>3 DEF PassOwes
    <3>9. lock # p
      <4>1. p # None
        BY LeaderboardAssumption DEF LeaderboardAssumption
      <4>2. QED
        BY <3>3, <4>1 DEF AccountInv, LockOwes
    <3>10. LockOwes'
      BY <1>x, <2>2, <3>9, LockStillOwes
    <3>11. QED
      BY <2>2, <3>7, <3>8, <3>10, AccountPass DEF Goal
  <2>6. QED
    BY <2>4, <2>5
<1>11. ASSUME LockExpires PROVE Goal
  BY <1>11, <1>a DEF LockExpires
<1>12. ASSUME UNCHANGED vars PROVE Goal
  BY <1>12, <1>a DEF vars
<1>13. Goal
  BY NextCases, <1>1, <1>2, <1>3, <1>4, <1>5, <1>6, <1>7, <1>8, <1>9, <1>10, <1>11, <1>12, Zenon
<1>14. QED
  BY <1>13 DEF Goal

\* Every day that is over is accounted for, whatever the processes do: it has its
\* rows, had no points when a pass looked, got points late, was lost with the
\* pass that had the lock, or is still worked on.  No lock that is left behind
\* and no pass that goes home keeps a day from being persisted.
THEOREM NoDayForgotten == Spec => []DaysAccounted
<1>1. Init => AccountInv
  BY InitType, AccountInit DEF AccountInv
<1>2. AccountInv /\ [Next]_vars => AccountInv'
  BY TypeInvariance, AccountStep DEF AccountInv
<1>3. AccountInv => DaysAccounted
  BY DEF AccountInv
<1>4. QED
  BY <1>1, <1>2, <1>3, PTL DEF Spec

-----------------------------------------------------------------------------
(* Weeks                                                                   *)

\* For the weekday of a date in a month whose first day is a given weekday.
Weekday(first, date) == (first + date - 1) % 7

\* The label of the weekly boards tells two days of a month apart exactly when
\* a Sunday begins between them: it counts the calendar weeks of the month.
THEOREM WeekOfMonth ==
    ASSUME NEW first \in 0 .. 6, NEW date \in 1 .. 30
    PROVE  Week(date + 1, Weekday(first, date + 1)) =
               Week(date, Weekday(first, date))
                   + (IF Weekday(first, date + 1) = 0 THEN 1 ELSE 0)
  BY DEF Week, Weekday

\* Every month begins with label 1, so that the boards of different months of a
\* year share their keys.
THEOREM WeekReturns == \A first \in 0 .. 6 : Week(1, Weekday(first, 1)) = 1
  BY DEF Week, Weekday

=============================================================================
