-------------------------- MODULE MatchmakingProofs --------------------------
(***************************************************************************)
(* What holds of Matchmaking for any players, requests and bounds: its     *)
(* type, that no pair waits without a request at work for it, that nobody  *)
(* is matched with themselves unless two of their requests entered the     *)
(* queue together, and that the standings agree with the matches unless    *)
(* two writers finished the same one.                                      *)
(***************************************************************************)
EXTENDS Matchmaking, FiniteSetTheorems, FunctionTheorems, SequenceTheorems, TLAPS

-----------------------------------------------------------------------------
(* LREM: what Without leaves of a list.                                    *)

\* In a finite set of numbers every rank is the rank of one element: counting up
\* to an element is injective, hence onto the ranks.
LEMMA EveryRank ==
    ASSUME NEW S \in SUBSET Nat, IsFiniteSet(S), NEW n \in 1 .. Cardinality(S)
    PROVE  \E i \in S : Cardinality({j \in S : j <= i}) = n
<1> DEFINE upTo(i) == {j \in S : j <= i}
           rank == [i \in S |-> Cardinality(upTo(i))]
           N == Cardinality(S)
<1>1. N \in Nat
  BY FS_CardinalityType
<1>2. \A i \in S : IsFiniteSet(upTo(i)) /\ Cardinality(upTo(i)) \in Nat
                   /\ Cardinality(upTo(i)) <= N
  BY FS_Subset, FS_CardinalityType
<1>3. \A i \in S : Cardinality(upTo(i)) # 0
  <2> SUFFICES ASSUME NEW i \in S PROVE upTo(i) # {}
    BY <1>2, FS_EmptySet
  <2> QED
    OBVIOUS
<1>4. rank \in [S -> 1 .. N]
  BY <1>1, <1>2, <1>3
<1>5. ASSUME NEW i \in S, NEW k \in S, i < k PROVE rank[i] < rank[k]
  <2>1. upTo(i) \in SUBSET upTo(k) /\ upTo(i) # upTo(k)
    <3>1. \A j \in S : j <= i => j <= k
      BY <1>5
    <3>2. k \in upTo(k) /\ k \notin upTo(i)
      BY <1>5
    <3> QED
      BY <3>1, <3>2
  <2>2. Cardinality(upTo(i)) <= Cardinality(upTo(k))
        /\ Cardinality(upTo(i)) # Cardinality(upTo(k))
    BY <2>1, <1>2, FS_Subset
  <2> QED
    BY <2>2, <1>2
<1>6. \A i, k \in S : rank[i] = rank[k] => i = k
  <2> SUFFICES ASSUME NEW i \in S, NEW k \in S, i # k PROVE rank[i] # rank[k]
    OBVIOUS
  <2>1. rank[i] \in Nat /\ rank[k] \in Nat
    BY <1>2
  <2>2. CASE i < k
    BY <2>1, <2>2, <1>5
  <2>3. CASE k < i
    BY <2>1, <2>3, <1>5
  <2> HIDE DEF rank
  <2> QED
    BY <2>2, <2>3
<1>7. rank \in Injection(S, 1 .. N)
  BY <1>4, <1>6, Fun_IsInj
<1>8. IsFiniteSet(1 .. N) /\ Cardinality(1 .. N) = N
  BY <1>1, FS_Interval
<1>9. rank \in Surjection(S, 1 .. N)
  BY <1>7, <1>8, FS_Injection, Zenon
<1>10. \E i \in S : rank[i] = n
  <2>1. n \in 1 .. N
    OBVIOUS
  <2> HIDE DEF rank, N
  <2>2. \A t \in 1 .. N : \E i \in S : rank[i] = t
    BY <1>9, Fun_SurjectionProperties, Zenon
  <2> QED
    BY <2>1, <2>2
<1> QED
  BY <1>10

\* What is left of q is a list of elements of q other than u, and repeats no
\* element if q did not.
LEMMA WithoutList ==
    ASSUME NEW S, NEW q \in Seq(S), NEW u
    PROVE  /\ Without(q, u) \in Seq(S)
           /\ \A n \in DOMAIN Without(q, u) :
                /\ Without(q, u)[n] # u
                /\ \E i \in DOMAIN q : Without(q, u)[n] = q[i]
           /\ (\A i, j \in DOMAIN q : q[i] = q[j] => i = j)
              => \A n, k \in DOMAIN Without(q, u) :
                    Without(q, u)[n] = Without(q, u)[k] => n = k
<1> DEFINE kept == {i \in DOMAIN q : q[i] # u}
           Nth(n) == CHOOSE i \in kept : Cardinality({j \in kept : j <= i}) = n
           w == [n \in 1 .. Cardinality(kept) |-> q[Nth(n)]]
<1>1. Without(q, u) = w
  BY Zenon DEF Without
<1>2. kept \in SUBSET Nat /\ kept \in SUBSET (1 .. Len(q)) /\ Len(q) \in Nat
  OBVIOUS
<1>3. IsFiniteSet(kept) /\ Cardinality(kept) \in Nat
  <2>1. IsFiniteSet(1 .. Len(q))
    BY <1>2, FS_Interval
  <2> HIDE DEF kept
  <2> QED
    BY <2>1, <1>2, FS_Subset, FS_CardinalityType
<1>4. ASSUME NEW n \in 1 .. Cardinality(kept)
      PROVE  Nth(n) \in kept /\ Cardinality({j \in kept : j <= Nth(n)}) = n
  <2> HIDE DEF kept
  <2>1. \E i \in kept : Cardinality({j \in kept : j <= i}) = n
    BY <1>2, <1>3, EveryRank
  <2> QED
    BY <2>1
<1>5. \A n \in 1 .. Cardinality(kept) : Nth(n) \in DOMAIN q /\ q[Nth(n)] # u
  BY <1>4
<1>6. \A n, k \in 1 .. Cardinality(kept) : Nth(n) = Nth(k) => n = k
  <2> SUFFICES ASSUME NEW n \in 1 .. Cardinality(kept), NEW k \in 1 .. Cardinality(kept),
                      Nth(n) = Nth(k)
               PROVE  n = k
    OBVIOUS
  <2> HIDE DEF Nth, kept
  <2> QED
    BY <1>4
<1> HIDE DEF Nth, kept
<1>7. w \in Seq(S) /\ DOMAIN w = 1 .. Cardinality(kept)
  BY <1>3, <1>5
<1>8. \A n \in DOMAIN w : w[n] = q[Nth(n)]
  BY <1>7
<1> HIDE DEF w
<1> QED
  BY <1>1, <1>5, <1>6, <1>7, <1>8

-----------------------------------------------------------------------------
(* Steps and types.                                                        *)

\* The steps of Next, each with its own name.
LEMMA NextCases ==
    ASSUME Next
    PROVE  \/ \E c \in Calls, u \in Users : Enqueue(c, u)
           \/ \E c \in Calls : RemoveSelf(c)
           \/ \E c \in Calls : Push(c)
           \/ \E c \in Calls : Peek(c)
           \/ \E c \in Calls : CheckA(c)
           \/ \E c \in Calls : CheckB(c)
           \/ \E c \in Calls : Drop(c)
           \/ \E c \in Calls : TakeA(c)
           \/ \E c \in Calls : TakeB(c)
           \/ \E c \in Calls : Pair(c)
           \/ \E c \in Calls, m \in DOMAIN matches, u \in Users : ReadMatch(c, m, u)
           \/ \E c \in Calls : WriteResult(c)
           \/ \E c \in Calls : CountResult(c)
           \/ \E c \in Calls : Award(c)
           \/ \E c \in Calls : Fault(c)
           \/ \E m \in DOMAIN matches : Age(m)
           \/ \E u \in LateLeavers : LeaveLate(u)
           \/ Complete
           \/ WatchFind
           \/ \E m \in watch : WatchWrite(m)
  BY Zenon DEF Next, JoinStep, ReportStep, Watch

\* A call that has looked at the head of the list and may act on what it saw.
Looking == {"checkA", "checkB", "takeA", "takeB", "pair"}

CallType == [pc : Steps, user : Users \cup {None}, a : Users \cup {None},
             b : Users \cup {None}, ok : BOOLEAN, match : Nat]

\* What a call carries when ms are the matches: its user is one, so are the two
\* it looked at, and the winner it reports played the match it reports.
CallOK(r, ms) ==
    /\ r \in CallType
    /\ r.pc # "idle" => r.user \in Users
    /\ r.pc \in Looking \cup {"drop"} => r.a \in Users /\ r.b \in Users
    /\ r.pc \in ReportSteps => /\ r.match \in DOMAIN ms
                               /\ r.user \in {ms[r.match].a, ms[r.match].b}

CallsOK == call \in [Calls -> CallType] /\ \A c \in Calls : CallOK(call[c], matches)

RestOK ==
    /\ live \in BOOLEAN
    /\ queue \in Seq(Users)
    /\ row \in [Users -> {"active", "eliminated", "gone"}]
    /\ score \in [Users -> Nat] /\ points \in [Users -> Nat]
    /\ aged \subseteq DOMAIN matches /\ watch \subseteq aged
    /\ used \in [joins : Nat, faults : Nat]
    /\ doubled \in BOOLEAN /\ contested \in BOOLEAN

TypeInv == matches \in Seq(Matches) /\ RestOK /\ CallsOK

LEMMA TypeInvType == TypeInv => TypeOK
  BY DEF TypeInv, RestOK, CallsOK, CallOK, CallType, TypeOK

\* What a step may do to the matches there are: nobody else plays them, and one
\* that is finished stays finished.
Kept(m) ==
    /\ m \in DOMAIN matches'
    /\ matches'[m].a = matches[m].a /\ matches'[m].b = matches[m].b
    /\ matches[m].status = "FINISHED" => matches'[m].status = "FINISHED"

\* Finish changes the status and the winner of its match and nothing else.
LEMMA FinishStep ==
    ASSUME matches \in Seq(Matches), NEW m \in DOMAIN matches, NEW u \in Users, Finish(m, u)
    PROVE  /\ matches' \in Seq(Matches) /\ DOMAIN matches' = DOMAIN matches
           /\ matches'[m] = [matches[m] EXCEPT !.status = "FINISHED", !.winner = u]
           /\ \A n \in DOMAIN matches : n # m => matches'[n] = matches[n]
           /\ \A n \in DOMAIN matches : Kept(n)
<1> DEFINE r == [matches[m] EXCEPT !.status = "FINISHED", !.winner = u]
<1>1. matches[m] \in Matches
  OBVIOUS
<1>2. r \in Matches /\ r.a = matches[m].a /\ r.b = matches[m].b /\ r.status = "FINISHED"
  BY <1>1 DEF Matches
<1>3. matches' = [matches EXCEPT ![m] = r]
  BY DEF Finish
<1> HIDE DEF r
<1>4. matches' \in Seq(Matches) /\ DOMAIN matches' = DOMAIN matches
  BY <1>2, <1>3
<1>5. \A n \in DOMAIN matches : matches'[n] = IF n = m THEN r ELSE matches[n]
  BY <1>3
<1> QED
  BY <1>2, <1>4, <1>5 DEF r, Kept

LEMMA PairStep ==
    ASSUME TypeInv, NEW c \in Calls, Pair(c)
    PROVE  /\ matches' \in Seq(Matches) /\ DOMAIN matches' = 1 .. Len(matches) + 1
           /\ \A n \in DOMAIN matches : matches'[n] = matches[n]
           /\ matches'[Len(matches) + 1] = [a |-> call[c].a, b |-> call[c].b,
                                            status |-> "PENDING", winner |-> None]
           /\ call[c].a \in Users /\ call[c].b \in Users
<1> DEFINE r == [a |-> call[c].a, b |-> call[c].b, status |-> "PENDING", winner |-> None]
<1>1. call[c].a \in Users /\ call[c].b \in Users
  BY DEF Pair, TypeInv, CallsOK, CallOK, Looking
<1>2. r \in Matches /\ matches' = Append(matches, r) /\ matches \in Seq(Matches)
  BY <1>1 DEF Matches, Pair, TypeInv
<1> HIDE DEF r
<1> QED
  BY <1>1, <1>2 DEF r

LEMMA CompleteStep ==
    ASSUME matches \in Seq(Matches), Complete
    PROVE  /\ matches' \in Seq(Matches) /\ DOMAIN matches' = DOMAIN matches
           /\ \A n \in DOMAIN matches : matches'[n] = [matches[n] EXCEPT !.status = "FINISHED"]
           /\ \A n \in DOMAIN matches : Kept(n)
<1>1. \A n \in DOMAIN matches : matches[n] \in Matches
  OBVIOUS
<1>2. \A n \in DOMAIN matches : /\ [matches[n] EXCEPT !.status = "FINISHED"] \in Matches
                               /\ [matches[n] EXCEPT !.status = "FINISHED"].a = matches[n].a
                               /\ [matches[n] EXCEPT !.status = "FINISHED"].b = matches[n].b
                               /\ [matches[n] EXCEPT !.status = "FINISHED"].status = "FINISHED"
  BY <1>1 DEF Matches
<1>3. matches' = [m \in 1 .. Len(matches) |-> [matches[m] EXCEPT !.status = "FINISHED"]]
  BY DEF Complete
<1>4. \A n \in DOMAIN matches : matches'[n] = [matches[n] EXCEPT !.status = "FINISHED"]
  BY <1>3
<1>5. matches' \in Seq(Matches) /\ DOMAIN matches' = DOMAIN matches
  BY <1>2, <1>3
<1> QED
  BY <1>2, <1>4, <1>5 DEF Kept

\* Every step keeps the matches there are.
LEMMA MatchesKept ==
    ASSUME TypeInv, [Next]_vars
    PROVE  matches' \in Seq(Matches) /\ \A m \in DOMAIN matches : Kept(m)
<1>a. matches \in Seq(Matches)
  BY DEF TypeInv
<1>b. UNCHANGED matches => matches' \in Seq(Matches) /\ \A m \in DOMAIN matches : Kept(m)
  BY <1>a DEF Kept
<1>1. ASSUME NEW c \in Calls, Pair(c) PROVE \A m \in DOMAIN matches : Kept(m)
  <2>1. \A m \in DOMAIN matches : m \in DOMAIN matches' /\ matches'[m] = matches[m]
    <3>1. /\ DOMAIN matches' = 1 .. Len(matches) + 1
          /\ \A n \in DOMAIN matches : matches'[n] = matches[n]
      BY <1>1, PairStep
    <3>2. DOMAIN matches = 1 .. Len(matches) /\ Len(matches) \in Nat
      BY <1>a
    <3> QED
      BY <3>1, <3>2
  <2> QED
    BY <2>1 DEF Kept
<1>2. ASSUME NEW c \in Calls, WriteResult(c)
      PROVE  matches' \in Seq(Matches) /\ \A m \in DOMAIN matches : Kept(m)
  <2>1. call[c].match \in DOMAIN matches /\ call[c].user \in Users
    BY <1>2 DEF WriteResult, TypeInv, CallsOK, CallOK, ReportSteps
  <2> QED
    BY <1>2, <1>a, <2>1, FinishStep DEF WriteResult
<1>3. ASSUME NEW m \in watch, WatchWrite(m)
      PROVE  matches' \in Seq(Matches) /\ \A n \in DOMAIN matches : Kept(n)
  <2>1. m \in DOMAIN matches
    BY DEF TypeInv, RestOK
  <2>2. PICK u \in {matches[m].a, matches[m].b} : Finish(m, u)
    BY <1>3 DEF WatchWrite
  <2>3. matches[m] \in Matches
    BY <1>a, <2>1
  <2>4. u \in Users
    BY <2>2, <2>3 DEF Matches
  <2> QED
    BY <1>a, <2>1, <2>2, <2>4, FinishStep
<1>4. \/ UNCHANGED matches \/ \E c \in Calls : Pair(c) \/ WriteResult(c)
      \/ Complete \/ \E m \in watch : WatchWrite(m)
  <2>1. CASE Next
    BY <2>1, NextCases, Zenon DEF Enqueue, RemoveSelf, Push, Peek, CheckA, CheckB, Drop,
       TakeA, TakeB, ReadMatch, CountResult, Award, Fault, Age, LeaveLate, WatchFind
  <2>2. CASE UNCHANGED vars
    BY <2>2 DEF vars
  <2> QED
    BY <2>1, <2>2
<1> QED
  BY <1>a, <1>b, <1>1, <1>2, <1>3, <1>4, PairStep, CompleteStep

LEMMA InitType == Init => TypeInv
<1> SUFFICES ASSUME Init PROVE TypeInv
  OBVIOUS
<1>1. matches \in Seq(Matches)
  <2>1. CASE matches = <<>>
    BY <2>1
  <2>2. ASSUME NEW p \in Users, NEW q \in Users, NEW s \in BootStatuses,
               matches = << [a |-> p, b |-> q, status |-> s, winner |-> None] >>
        PROVE  matches \in Seq(Matches)
    <3>1. [a |-> p, b |-> q, status |-> s, winner |-> None] \in Matches
      BY MatchmakingAssumption DEF Matches
    <3> QED
      BY <2>2, <3>1
  <2> QED
    BY <2>1, <2>2 DEF Init
<1>2. RestOK
  <2>1. live \in BOOLEAN /\ doubled \in BOOLEAN /\ contested \in BOOLEAN
    BY Zenon DEF Init
  <2>2. queue \in Seq(Users) /\ row \in [Users -> {"active", "eliminated", "gone"}]
        /\ score \in [Users -> Nat] /\ points \in [Users -> Nat]
        /\ used \in [joins : Nat, faults : Nat]
    BY DEF Init
  <2>3. aged \subseteq DOMAIN matches /\ watch \subseteq aged
    BY Zenon DEF Init
  <2> QED
    BY <2>1, <2>2, <2>3 DEF RestOK
<1>3. CallsOK
  BY DEF Init, CallsOK, CallOK, CallType, IdleCall, Steps, JoinSteps, ReportSteps, Looking
<1> QED
  BY <1>1, <1>2, <1>3 DEF TypeInv

\* A call that fits keeps fitting when it does not move, whatever the matches do.
LEMMA CallKept ==
    ASSUME NEW r, CallOK(r, matches), \A m \in DOMAIN matches : Kept(m)
    PROVE  CallOK(r, matches')
  BY DEF CallOK, Kept

\* A step that changes one call.
LEMMA CallUpdate ==
    ASSUME TypeInv, [Next]_vars, NEW c \in Calls, NEW r, CallOK(r, matches'),
           call' = [call EXCEPT ![c] = r]
    PROVE  CallsOK'
<1>1. \A d \in Calls : CallOK(call[d], matches')
  BY MatchesKept, CallKept DEF TypeInv, CallsOK
<1>2. call' \in [Calls -> CallType] /\ \A d \in Calls : call'[d] = IF d = c THEN r ELSE call[d]
  BY DEF TypeInv, CallsOK, CallOK
<1> QED
  BY <1>1, <1>2 DEF CallsOK

LEMMA IdleOK == \A ms : CallOK(IdleCall, ms)
  BY DEF CallOK, CallType, IdleCall, Steps, Looking, ReportSteps

\* A call that goes on, or ends, with all it carries.
LEMMA GoOK ==
    ASSUME TypeInv, [Next]_vars, NEW c \in Calls, NEW pc \in Steps, Go(c, pc),
           call[c].pc # "idle",
           pc \in Looking \cup {"drop"} => call[c].pc \in Looking,
           pc \in ReportSteps => call[c].pc \in ReportSteps
    PROVE  CallsOK'
<1> DEFINE r == [call[c] EXCEPT !.pc = pc]
<1>1. CallOK(call[c], matches')
  BY MatchesKept, CallKept DEF TypeInv, CallsOK
<1>2. r \in CallType /\ r.pc = pc /\ r.user = call[c].user /\ r.a = call[c].a
      /\ r.b = call[c].b /\ r.match = call[c].match
  BY <1>1 DEF CallOK, CallType
<1>3. call' = [call EXCEPT ![c] = r]
  BY DEF Go
<1> HIDE DEF r
<1>4. CallOK(r, matches')
  BY <1>1, <1>2 DEF CallOK
<1> QED
  BY <1>3, <1>4, CallUpdate

LEMMA EndOK ==
    ASSUME TypeInv, [Next]_vars, NEW c \in Calls, End(c)
    PROVE  CallsOK'
  BY IdleOK, CallUpdate DEF End

LEMMA StayOK ==
    ASSUME TypeInv, [Next]_vars, UNCHANGED call
    PROVE  CallsOK'
<1>1. \A d \in Calls : CallOK(call[d], matches')
  BY MatchesKept, CallKept DEF TypeInv, CallsOK
<1> QED
  BY <1>1 DEF TypeInv, CallsOK

LEMMA StepType ==
    ASSUME TypeInv, [Next]_vars
    PROVE  TypeInv'
<1> USE MatchmakingAssumption
<1> DEFINE QueueOK == queue \in Seq(Users)
           RowsOK == /\ row \in [Users -> {"active", "eliminated", "gone"}]
                     /\ score \in [Users -> Nat] /\ points \in [Users -> Nat]
           WatchOK == aged \subseteq DOMAIN matches /\ watch \subseteq aged
           FlagsOK == /\ live \in BOOLEAN /\ doubled \in BOOLEAN /\ contested \in BOOLEAN
                      /\ used \in [joins : Nat, faults : Nat]
<1>a. QueueOK /\ RowsOK /\ WatchOK /\ FlagsOK /\ CallsOK
  BY DEF TypeInv, RestOK
<1>b. QueueOK' /\ RowsOK' /\ WatchOK' /\ FlagsOK' /\ CallsOK' => TypeInv'
  BY MatchesKept DEF TypeInv, RestOK
<1>c. matches' \in Seq(Matches) /\ \A m \in DOMAIN matches : Kept(m)
  BY MatchesKept
<1>d. \A c \in Calls : CallOK(call[c], matches)
  BY <1>a DEF CallsOK
<1>e. UNCHANGED queue => QueueOK'
  BY <1>a
<1>f. UNCHANGED players => RowsOK'
  BY <1>a DEF players
<1>g. UNCHANGED <<aged, watch>> => WatchOK'
  BY <1>a, <1>c DEF Kept
<1>h. UNCHANGED <<live, used, doubled, contested>> => FlagsOK'
  BY <1>a
<1>i. \A u \in Users : Without(queue, u) \in Seq(Users)
  BY <1>a, WithoutList
<1>j. \A pc \in JoinSteps \cup ReportSteps : pc \in Steps
  BY DEF Steps
<1>1. ASSUME NEW c \in Calls, NEW u \in Users, Enqueue(c, u) PROVE TypeInv'
  <2> DEFINE r == [IdleCall EXCEPT !.pc = "remove", !.user = u]
  <2>1. CallOK(r, matches')
    BY DEF CallOK, CallType, IdleCall, Steps, JoinSteps, ReportSteps, Looking
  <2>2. CallsOK'
    BY <1>1, <2>1, CallUpdate DEF Enqueue
  <2>3. FlagsOK'
    <3>1. used' \in [joins : Nat, faults : Nat]
      <4>1. used \in [joins : Nat, faults : Nat]
        BY <1>a
      <4>2. \A n \in Nat : [used EXCEPT !.joins = n] \in [joins : Nat, faults : Nat]
        BY <4>1
      <4> QED
        BY <1>1, <4>1, <4>2 DEF Enqueue
    <3>2. live' \in BOOLEAN /\ doubled' \in BOOLEAN /\ contested' \in BOOLEAN
      BY <1>1, <1>a, Zenon DEF Enqueue
    <3> QED
      BY <3>1, <3>2
  <2> QED
    BY <1>1, <2>2, <2>3, <1>b, <1>e, <1>f, <1>g DEF Enqueue
<1>2. ASSUME NEW c \in Calls, RemoveSelf(c) PROVE TypeInv'
  <2>1. CallsOK'
    BY <1>2, GoOK DEF RemoveSelf, Steps, JoinSteps, Looking, ReportSteps
  <2>2. QueueOK'
    BY <1>2, <1>d, <1>i DEF RemoveSelf, CallOK
  <2> QED
    BY <1>2, <2>1, <2>2, <1>b, <1>f, <1>g, <1>h DEF RemoveSelf
<1>3. ASSUME NEW c \in Calls, Push(c) PROVE TypeInv'
  <2>1. CallsOK'
    BY <1>3, GoOK DEF Push, Steps, JoinSteps, Looking, ReportSteps
  <2>2. QueueOK'
    <3>1. call[c].user \in Users
      BY <1>3, <1>d DEF Push, CallOK
    <3>2. <<call[c].user>> \in Seq(Users)
      BY <3>1
    <3> QED
      BY <1>3, <1>a, <3>2, ConcatProperties DEF Push
  <2> QED
    BY <1>3, <2>1, <2>2, <1>b, <1>f, <1>g, <1>h DEF Push
<1>4. ASSUME NEW c \in Calls, Peek(c) PROVE TypeInv'
  <2>1. CASE End(c)
    BY <1>4, <2>1, EndOK, <1>b, <1>e, <1>f, <1>g, <1>h DEF Peek
  <2>2. CASE Len(queue) >= 2 /\ ~ End(c)
    <3> DEFINE r == [call[c] EXCEPT !.pc = "checkA", !.a = queue[1], !.b = queue[2]]
    <3>1. queue[1] \in Users /\ queue[2] \in Users
      BY <1>a, <2>2
    <3>2. call' = [call EXCEPT ![c] = r]
      BY <1>4, <2>2 DEF Peek
    <3>3. CallOK(r, matches')
      <4>1. call[c] \in CallType /\ call[c].user \in Users
        BY <1>4, <1>d DEF Peek, CallOK
      <4>2. r \in CallType /\ r.pc = "checkA" /\ r.user = call[c].user
            /\ r.a = queue[1] /\ r.b = queue[2]
        BY <3>1, <4>1 DEF CallType, Steps, JoinSteps
      <4> HIDE DEF r
      <4> QED
        BY <3>1, <4>1, <4>2 DEF CallOK, ReportSteps
    <3>4. CallsOK'
      BY <3>2, <3>3, CallUpdate
    <3> QED
      BY <1>4, <3>4, <1>b, <1>e, <1>f, <1>g, <1>h DEF Peek
  <2>3. Len(queue) \in Nat
    BY <1>a
  <2> QED
    BY <1>4, <2>1, <2>2, <2>3 DEF Peek
<1>5. ASSUME NEW c \in Calls, CheckA(c) PROVE TypeInv'
  <2> DEFINE r == [call[c] EXCEPT !.pc = "checkB", !.ok = (row[call[c].a] = "active")]
  <2>1. call' = [call EXCEPT ![c] = r]
    BY <1>5 DEF CheckA
  <2>2. CallOK(r, matches')
    BY <1>5, <1>d DEF CheckA, CallOK, CallType, Steps, JoinSteps, ReportSteps, Looking
  <2>3. CallsOK'
    BY <2>1, <2>2, CallUpdate
  <2> QED
    BY <1>5, <2>3, <1>b, <1>e, <1>f, <1>g, <1>h DEF CheckA
<1>6. ASSUME NEW c \in Calls, CheckB(c) PROVE TypeInv'
  <2> DEFINE r == [call[c] EXCEPT !.pc = "drop", !.a = call[c].b]
  <2>1. CASE call' = [call EXCEPT ![c] = r]
    <3>1. CallOK(r, matches')
      BY <1>6, <1>d DEF CheckB, CallOK, CallType, Steps, JoinSteps, ReportSteps, Looking
    <3> QED
      BY <2>1, <3>1, CallUpdate, <1>6, <1>b, <1>e, <1>f, <1>g, <1>h DEF CheckB
  <2>2. ASSUME NEW pc \in {"drop", "takeA"}, Go(c, pc) PROVE TypeInv'
    <3>1. CallsOK'
      BY <1>6, <2>2, GoOK DEF CheckB, Steps, JoinSteps, ReportSteps, Looking
    <3> QED
      BY <1>6, <3>1, <1>b, <1>e, <1>f, <1>g, <1>h DEF CheckB
  <2>3. call' = [call EXCEPT ![c] = r] \/ Go(c, "drop") \/ Go(c, "takeA")
    BY <1>6 DEF CheckB, Go
  <2> QED
    BY <2>1, <2>2, <2>3
<1>7. ASSUME NEW c \in Calls, Drop(c) PROVE TypeInv'
  <2>1. CallsOK'
    BY <1>7, GoOK DEF Drop, Steps, JoinSteps, Looking, ReportSteps
  <2>2. QueueOK'
    BY <1>7, <1>d, <1>i DEF Drop, CallOK
  <2> QED
    BY <1>7, <2>1, <2>2, <1>b, <1>f, <1>g, <1>h DEF Drop
<1>8. ASSUME NEW c \in Calls, TakeA(c) PROVE TypeInv'
  <2>1. CallsOK'
    BY <1>8, GoOK DEF TakeA, Steps, JoinSteps, Looking, ReportSteps
  <2>2. QueueOK'
    BY <1>8, <1>d, <1>i DEF TakeA, CallOK, Looking
  <2> QED
    BY <1>8, <2>1, <2>2, <1>b, <1>f, <1>g, <1>h DEF TakeA
<1>9. ASSUME NEW c \in Calls, TakeB(c) PROVE TypeInv'
  <2>1. CallsOK'
    BY <1>9, GoOK DEF TakeB, Steps, JoinSteps, Looking, ReportSteps
  <2>2. QueueOK'
    BY <1>9, <1>d, <1>i DEF TakeB, CallOK, Looking
  <2> QED
    BY <1>9, <2>1, <2>2, <1>b, <1>f, <1>g, <1>h DEF TakeB
<1>10. ASSUME NEW c \in Calls, Pair(c) PROVE TypeInv'
  <2>1. CallsOK'
    BY <1>10, GoOK DEF Pair, Steps, JoinSteps, Looking, ReportSteps
  <2> QED
    BY <1>10, <2>1, <1>b, <1>e, <1>f, <1>g, <1>h DEF Pair
<1>11. ASSUME NEW c \in Calls, NEW m \in DOMAIN matches, NEW u \in Users, ReadMatch(c, m, u)
       PROVE  TypeInv'
  <2> DEFINE r == [IdleCall EXCEPT !.pc = "write", !.user = u, !.match = m]
  <2>1. u \in {matches[m].a, matches[m].b} /\ UNCHANGED matches /\ m \in Nat
    BY <1>11 DEF ReadMatch, TypeInv
  <2>2. CallOK(r, matches')
    BY <2>1 DEF CallOK, CallType, IdleCall, Steps, JoinSteps, ReportSteps, Looking
  <2>3. CallsOK'
    BY <1>11, <2>2, CallUpdate DEF ReadMatch
  <2>4. FlagsOK'
    BY <1>11, <1>a, Zenon DEF ReadMatch
  <2> QED
    BY <1>11, <2>3, <2>4, <1>b, <1>e, <1>f, <1>g DEF ReadMatch
<1>12. ASSUME NEW c \in Calls, WriteResult(c) PROVE TypeInv'
  <2>1. CallsOK'
    BY <1>12, GoOK DEF WriteResult, Steps, JoinSteps, Looking, ReportSteps
  <2> QED
    BY <1>12, <2>1, <1>b, <1>e, <1>f, <1>g, <1>h DEF WriteResult
<1>13. ASSUME NEW c \in Calls, CountResult(c) PROVE TypeInv'
  <2>1. CallsOK'
    <3>1. End(c) \/ Go(c, "award")
      BY <1>13, Zenon DEF CountResult
    <3> QED
      BY <1>13, <3>1, EndOK, GoOK DEF CountResult, Steps, JoinSteps, Looking, ReportSteps
  <2>2. RowsOK'
    <3>1. \A u \in Users : [score EXCEPT ![u] = @ + 1] \in [Users -> Nat]
      BY <1>a
    <3>2. call[c].user \in Users
      BY <1>13, <1>d DEF CountResult, CallOK
    <3>3. [row EXCEPT ![Loser(c)] = "eliminated"] \in [Users -> {"active", "eliminated", "gone"}]
      BY <1>a
    <3>4. score' \in [Users -> Nat]
      BY <1>13, <1>a, <3>1, <3>2 DEF CountResult
    <3>5. row' \in [Users -> {"active", "eliminated", "gone"}]
      BY <1>13, <1>a, <3>3 DEF CountResult
    <3> QED
      BY <1>13, <1>a, <3>4, <3>5 DEF CountResult
  <2> QED
    BY <1>13, <2>1, <2>2, <1>b, <1>e, <1>g, <1>h DEF CountResult
<1>14. ASSUME NEW c \in Calls, Award(c) PROVE TypeInv'
  BY <1>14, EndOK, <1>b, <1>e, <1>f, <1>g, <1>h DEF Award
<1>15. ASSUME NEW c \in Calls, Fault(c) PROVE TypeInv'
  <2>1. FlagsOK'
    <3>1. used \in [joins : Nat, faults : Nat]
      BY <1>a
    <3>2. \A n \in Nat : [used EXCEPT !.faults = n] \in [joins : Nat, faults : Nat]
      BY <3>1
    <3>3. used' \in [joins : Nat, faults : Nat]
      BY <1>15, <3>1, <3>2 DEF Fault
    <3> QED
      BY <1>15, <1>a, <3>3 DEF Fault
  <2> QED
    BY <1>15, EndOK, <2>1, <1>b, <1>e, <1>f, <1>g DEF Fault
<1>16. ASSUME NEW m \in DOMAIN matches, Age(m) PROVE TypeInv'
  BY <1>16, StayOK, <1>a, <1>b, <1>e, <1>f, <1>h DEF Age
<1>17. ASSUME NEW u \in LateLeavers, LeaveLate(u) PROVE TypeInv'
  BY <1>17, StayOK, <1>a, <1>b, <1>e, <1>g, <1>h DEF LeaveLate
<1>18. ASSUME Complete PROVE TypeInv'
  BY <1>18, StayOK, <1>a, <1>b, <1>e, <1>f, <1>g DEF Complete
<1>19. ASSUME WatchFind PROVE TypeInv'
  BY <1>19, StayOK, <1>a, <1>b, <1>e, <1>f, <1>h DEF WatchFind
<1>20. ASSUME NEW m \in watch, WatchWrite(m) PROVE TypeInv'
  <2>1. FlagsOK'
    BY <1>20, <1>a, Zenon DEF WatchWrite
  <2>2. WatchOK'
    BY <1>20, <1>a, <1>c DEF WatchWrite, Kept
  <2> QED
    BY <1>20, StayOK, <2>1, <2>2, <1>b, <1>e, <1>f DEF WatchWrite
<1>21. ASSUME UNCHANGED vars PROVE TypeInv'
  BY <1>21, StayOK, <1>b, <1>e, <1>f, <1>g, <1>h DEF vars
<1>22. CASE Next
  BY <1>22, NextCases, <1>1, <1>2, <1>3, <1>4, <1>5, <1>6, <1>7, <1>8, <1>9, <1>10, <1>11,
     <1>12, <1>13, <1>14, <1>15, <1>16, <1>17, <1>18, <1>19, <1>20, Zenon
<1> QED
  BY <1>21, <1>22

\* Every variable keeps its type: a call never carries a player who is none, nor
\* a match that does not exist or that its winner did not play.
THEOREM TypeCorrect == Spec => []TypeOK
<1>1. TypeInv /\ [Next]_vars => TypeInv'
  BY StepType
<1> QED
  BY InitType, <1>1, TypeInvType, PTL DEF Spec

-----------------------------------------------------------------------------
(* Nobody left waiting.                                                    *)

\* A call that changes: what every call is after the step.
LEMMA CallAt ==
    ASSUME TypeInv, NEW c \in Calls, NEW r, call' = [call EXCEPT ![c] = r]
    PROVE  call'[c] = r /\ \A d \in Calls : d # c => call'[d] = call[d]
  BY DEF TypeInv, CallsOK

LEMMA GoAt ==
    ASSUME TypeInv, NEW c \in Calls, NEW pc, Go(c, pc)
    PROVE  /\ call'[c] \in [pc : {pc}, user : {call[c].user}, a : {call[c].a}, b : {call[c].b},
                            ok : {call[c].ok}, match : {call[c].match}]
           /\ \A d \in Calls : d # c => call'[d] = call[d]
<1> DEFINE r == [call[c] EXCEPT !.pc = pc]
<1>1. call[c] \in CallType
  BY DEF TypeInv, CallsOK
<1>2. r \in [pc : {pc}, user : {call[c].user}, a : {call[c].a}, b : {call[c].b},
             ok : {call[c].ok}, match : {call[c].match}]
  BY <1>1 DEF CallType
<1>3. call' = [call EXCEPT ![c] = r]
  BY DEF Go
<1> HIDE DEF r
<1> QED
  BY <1>2, <1>3, CallAt

LEMMA EndAt ==
    ASSUME TypeInv, NEW c \in Calls, End(c)
    PROVE  /\ call'[c] = IdleCall
           /\ \A d \in Calls : d # c => call'[d] = call[d]
  BY CallAt DEF End

\* The call that joins stays at work until it sees less than two in the list, and
\* no step of another call makes it stop.
LEMMA StepWaiting ==
    ASSUME TypeInv, NoPairLeftWaiting, [Next]_vars
    PROVE  NoPairLeftWaiting'
<1> DEFINE AtWork(c) == call[c].pc \in JoinSteps
           Served == \E c \in Calls : AtWork(c)
<1>a. used \in [joins : Nat, faults : Nat] /\ Len(queue) \in Nat
  BY DEF TypeInv, RestOK
<1>b. Served' => NoPairLeftWaiting'
  BY DEF NoPairLeftWaiting
<1>c. UNCHANGED <<queue, call, used>> => NoPairLeftWaiting'
  BY DEF NoPairLeftWaiting
\* A step of a call that was joining nobody disturbs nobody.
<1>d. ASSUME NEW c \in Calls, NEW r, ~ AtWork(c), call' = [call EXCEPT ![c] = r],
             UNCHANGED <<queue, used>>
      PROVE  NoPairLeftWaiting'
  <2>1. Served => Served'
    BY <1>d, CallAt
  <2> QED
    BY <1>d, <2>1 DEF NoPairLeftWaiting
<1>e. ASSUME NEW c \in Calls, NEW pc \in JoinSteps, Go(c, pc) PROVE NoPairLeftWaiting'
  <2>1. AtWork(c)'
    BY <1>e, GoAt
  <2> QED
    BY <2>1, <1>b
<1>f. ASSUME NEW c \in Calls, Go(c, "count") \/ Go(c, "award") \/ End(c),
             UNCHANGED <<queue, used>>, ~ AtWork(c)
      PROVE  NoPairLeftWaiting'
  BY <1>f, <1>d DEF Go, End
<1>1. ASSUME NEW c \in Calls, NEW u \in Users, Enqueue(c, u) PROVE NoPairLeftWaiting'
  <2> DEFINE r == [IdleCall EXCEPT !.pc = "remove", !.user = u]
  <2>1. r.pc \in JoinSteps
    BY DEF IdleCall, JoinSteps
  <2>2. call' = [call EXCEPT ![c] = r]
    BY <1>1 DEF Enqueue
  <2> HIDE DEF r
  <2> QED
    BY <2>1, <2>2, CallAt, <1>b
<1>2. ASSUME NEW c \in Calls,
             RemoveSelf(c) \/ Push(c) \/ Drop(c) \/ TakeA(c) \/ TakeB(c) \/ Pair(c)
      PROVE  NoPairLeftWaiting'
  <2>1. \E pc \in JoinSteps : Go(c, pc)
    BY <1>2 DEF RemoveSelf, Push, Drop, TakeA, TakeB, Pair, JoinSteps
  <2> QED
    BY <2>1, <1>e
<1>3. ASSUME NEW c \in Calls, Peek(c) PROVE NoPairLeftWaiting'
  <2>1. CASE Len(queue) < 2
    BY <2>1, <1>3, <1>a DEF Peek, NoPairLeftWaiting
  <2>2. CASE ~ (Len(queue) < 2)
    <3> DEFINE r == [call[c] EXCEPT !.pc = "checkA", !.a = queue[1], !.b = queue[2]]
    <3>1. call[c] \in CallType
      BY DEF TypeInv, CallsOK
    <3>2. r.pc \in JoinSteps
      BY <3>1 DEF CallType, JoinSteps
    <3>3. call' = [call EXCEPT ![c] = r]
      BY <1>3, <2>2 DEF Peek
    <3> HIDE DEF r
    <3> QED
      BY <3>2, <3>3, CallAt, <1>b
  <2> QED
    BY <2>1, <2>2
<1>4. ASSUME NEW c \in Calls, CheckA(c) PROVE NoPairLeftWaiting'
  <2> DEFINE r == [call[c] EXCEPT !.pc = "checkB", !.ok = (row[call[c].a] = "active")]
  <2>1. call[c] \in CallType
    BY DEF TypeInv, CallsOK
  <2>2. r.pc \in JoinSteps
    BY <2>1 DEF CallType, JoinSteps
  <2>3. call' = [call EXCEPT ![c] = r]
    BY <1>4 DEF CheckA
  <2> HIDE DEF r
  <2> QED
    BY <2>2, <2>3, CallAt, <1>b
<1>5. ASSUME NEW c \in Calls, CheckB(c) PROVE NoPairLeftWaiting'
  <2> DEFINE r == [call[c] EXCEPT !.pc = "drop", !.a = call[c].b]
  <2>1. call[c] \in CallType
    BY DEF TypeInv, CallsOK
  <2>2. r.pc \in JoinSteps
    BY <2>1 DEF CallType, JoinSteps
  <2>3. call' = [call EXCEPT ![c] = r] \/ \E pc \in JoinSteps : Go(c, pc)
    BY <1>5 DEF CheckB, Go, JoinSteps
  <2> HIDE DEF r
  <2> QED
    BY <2>2, <2>3, CallAt, <1>b, <1>e
<1>6. ASSUME NEW c \in Calls, NEW m \in DOMAIN matches, NEW u \in Users, ReadMatch(c, m, u)
      PROVE  NoPairLeftWaiting'
  BY <1>6, <1>d DEF ReadMatch, JoinSteps
<1>7. ASSUME NEW c \in Calls, WriteResult(c) \/ CountResult(c) \/ Award(c)
      PROVE  NoPairLeftWaiting'
  <2>1. Go(c, "count") \/ Go(c, "award") \/ End(c)
    BY <1>7, Zenon DEF WriteResult, CountResult, Award
  <2>2. UNCHANGED <<queue, used>> /\ ~ AtWork(c)
    BY <1>7 DEF WriteResult, CountResult, Award, JoinSteps
  <2> QED
    BY <2>1, <2>2, <1>f
<1>8. ASSUME NEW c \in Calls, Fault(c) PROVE NoPairLeftWaiting'
  <2>1. used'.faults > 0
    BY <1>8, <1>a DEF Fault
  <2> QED
    BY <2>1 DEF NoPairLeftWaiting
<1>9. ASSUME \/ \E m \in DOMAIN matches : Age(m)
             \/ \E u \in LateLeavers : LeaveLate(u)
             \/ Complete \/ WatchFind
             \/ \E m \in watch : WatchWrite(m)
             \/ UNCHANGED vars
      PROVE  NoPairLeftWaiting'
  BY <1>9, <1>c DEF Age, LeaveLate, Complete, WatchFind, WatchWrite, vars
<1>10. CASE Next
  BY <1>10, NextCases, <1>1, <1>2, <1>3, <1>4, <1>5, <1>6, <1>7, <1>8, <1>9, Zenon
<1> QED
  BY <1>9, <1>10

\* Two players in the list always have a request at work to pair them, unless a
\* call has failed: whoever leaves processMatchmaking has seen less than two.
THEOREM WaitingServed == Spec => []NoPairLeftWaiting
<1>1. Init => NoPairLeftWaiting
  BY DEF Init, NoPairLeftWaiting
<1>2. TypeInv /\ [Next]_vars => TypeInv'
  BY StepType
<1>3. TypeInv /\ NoPairLeftWaiting /\ [Next]_vars => NoPairLeftWaiting'
  BY StepWaiting
<1> QED
  BY InitType, <1>1, <1>2, <1>3, PTL DEF Spec

-----------------------------------------------------------------------------
(* Nobody matched with themselves.                                         *)

Entering == {"remove", "push"}

QueueOnce == \A i, j \in DOMAIN queue : queue[i] = queue[j] => i = j

MatchesApart == \A m \in DOMAIN matches : matches[m].a # matches[m].b

\* Of the calls: the two a request looked at are two, the player about to be pushed
\* is not in the list, and no two requests of a player enter it.
LooksApart == \A c \in Calls : call[c].pc \in Looking => call[c].a # call[c].b
PushFresh  == \A c \in Calls : call[c].pc = "push" =>
                \A i \in DOMAIN queue : queue[i] # call[c].user
EnterApart == \A c, d \in Calls :
                c # d /\ call[c].pc \in Entering /\ call[d].pc \in Entering
                => call[c].user # call[d].user

\* What makes NoSelfMatch inductive, as long as nobody's requests enter together.
ApartInv == doubled \/ (QueueOnce /\ MatchesApart /\ LooksApart /\ PushFresh /\ EnterApart)

LEMMA ApartMatch == ApartInv => NoSelfMatch
  BY Zenon DEF ApartInv, NoSelfMatch, QueueOnce, MatchesApart, IsInjective

\* A call that changes while the list gains nobody.
LEMMA CallApart ==
    ASSUME TypeInv, LooksApart, PushFresh, EnterApart, NEW c \in Calls, NEW r,
           call'[c] = r, \A d \in Calls : d # c => call'[d] = call[d],
           \A n \in DOMAIN queue' : \E i \in DOMAIN queue : queue'[n] = queue[i],
           r.pc \in Looking => r.a # r.b,
           r.pc = "push" => \A n \in DOMAIN queue' : queue'[n] # r.user,
           r.pc \in Entering => \A d \in Calls \ {c} :
                    call[d].pc \in Entering => call[d].user # r.user
    PROVE  LooksApart' /\ PushFresh' /\ EnterApart'
<1>1. LooksApart'
  BY DEF LooksApart
<1>2. PushFresh'
  BY DEF PushFresh
<1>3. EnterApart'
  BY DEF EnterApart
<1> QED
  BY <1>1, <1>2, <1>3

\* A call that takes u out of the list and goes on.
LEMMA TakeApart ==
    ASSUME TypeInv, QueueOnce, LooksApart, PushFresh, EnterApart, NEW c \in Calls, NEW u,
           NEW pc \in JoinSteps, queue' = Without(queue, u), Go(c, pc),
           pc \in Looking => call[c].pc \in Looking,
           pc \in Entering => pc = "push" /\ call[c].pc \in Entering /\ u = call[c].user
    PROVE  QueueOnce' /\ LooksApart' /\ PushFresh' /\ EnterApart'
<1>1. queue \in Seq(Users)
  BY DEF TypeInv, RestOK
<1>2. /\ \A n \in DOMAIN queue' : queue'[n] # u /\ \E i \in DOMAIN queue : queue'[n] = queue[i]
      /\ QueueOnce'
  <2> DEFINE w == Without(queue, u)
  <2>1. /\ \A n \in DOMAIN w : w[n] # u /\ \E i \in DOMAIN queue : w[n] = queue[i]
        /\ \A n, k \in DOMAIN w : w[n] = w[k] => n = k
    BY <1>1, WithoutList DEF QueueOnce
  <2>2. queue' = w
    OBVIOUS
  <2> HIDE DEF w
  <2> QED
    BY <2>1, <2>2 DEF QueueOnce
<1>3. /\ call'[c].pc = pc /\ call'[c].user = call[c].user
      /\ call'[c].a = call[c].a /\ call'[c].b = call[c].b
      /\ \A d \in Calls : d # c => call'[d] = call[d]
  BY GoAt
<1>4. call'[c].pc \in Looking => call'[c].a # call'[c].b
  BY <1>3 DEF LooksApart
<1>5. call'[c].pc = "push" => \A n \in DOMAIN queue' : queue'[n] # call'[c].user
  BY <1>2, <1>3 DEF Entering
<1>6. call'[c].pc \in Entering => \A d \in Calls \ {c} :
                    call[d].pc \in Entering => call[d].user # call'[c].user
  BY <1>3 DEF EnterApart
<1> QED
  BY <1>2, <1>3, <1>4, <1>5, <1>6, CallApart

\* A step that keeps the list and lets a call be neither looking nor entering, or
\* keep looking at two.
LEMMA StillApart ==
    ASSUME TypeInv, QueueOnce, LooksApart, PushFresh, EnterApart, NEW c \in Calls, NEW r,
           UNCHANGED queue, call'[c] = r, \A d \in Calls : d # c => call'[d] = call[d],
           r.pc \notin Entering, r.pc \in Looking => r.a # r.b
    PROVE  QueueOnce' /\ LooksApart' /\ PushFresh' /\ EnterApart'
<1>1. QueueOnce'
  BY DEF QueueOnce
<1>2. \A n \in DOMAIN queue' : \E i \in DOMAIN queue : queue'[n] = queue[i]
  OBVIOUS
<1>3. LooksApart' /\ PushFresh' /\ EnterApart'
  BY <1>2, CallApart DEF Entering
<1> QED
  BY <1>1, <1>3

\* Matches made earlier are kept, so only a new one can break MatchesApart.
LEMMA StillMatches ==
    ASSUME TypeInv, [Next]_vars, MatchesApart, DOMAIN matches' = DOMAIN matches
    PROVE  MatchesApart'
  BY MatchesKept DEF MatchesApart, Kept

LEMMA StepApart ==
    ASSUME TypeInv, ApartInv, [Next]_vars
    PROVE  ApartInv'
<1> DEFINE CallsApart == QueueOnce /\ LooksApart /\ PushFresh /\ EnterApart
<1>a. doubled => doubled'
  <2>1. CASE Next
    BY <2>1, NextCases, Zenon DEF Enqueue, RemoveSelf, Push, Peek, CheckA, CheckB, Drop, TakeA,
       TakeB, Pair, ReadMatch, WriteResult, CountResult, Award, Fault, Age, LeaveLate,
       Complete, WatchFind, WatchWrite
  <2> QED
    BY <2>1 DEF vars
<1> SUFFICES ASSUME ~ doubled, ~ doubled' PROVE CallsApart' /\ MatchesApart'
  BY <1>a DEF ApartInv
<1>b. QueueOnce /\ LooksApart /\ PushFresh /\ EnterApart /\ MatchesApart
  BY DEF ApartInv
<1>c. queue \in Seq(Users) /\ \A c \in Calls : call[c] \in CallType /\ CallOK(call[c], matches)
  BY DEF TypeInv, RestOK, CallsOK
<1>d. UNCHANGED <<queue, call>> => CallsApart'
  BY <1>b DEF QueueOnce, LooksApart, PushFresh, EnterApart
<1>e. ASSUME UNCHANGED matches PROVE MatchesApart'
  BY <1>e, <1>b DEF MatchesApart
<1>f. ASSUME NEW c \in Calls, End(c), UNCHANGED queue PROVE CallsApart'
  <2>1. call'[c] = IdleCall /\ \A d \in Calls : d # c => call'[d] = call[d]
    BY <1>f, EndAt
  <2>2. IdleCall.pc \notin Entering /\ IdleCall.pc \notin Looking
    BY DEF IdleCall, Entering, Looking
  <2> QED
    BY <1>b, <1>f, <2>1, <2>2, StillApart
<1>g. ASSUME NEW c \in Calls, NEW pc, pc \notin Entering, pc \in Looking => call[c].pc \in Looking,
             Go(c, pc), UNCHANGED queue
      PROVE  CallsApart'
  <2>1. /\ call'[c].pc = pc /\ call'[c].a = call[c].a /\ call'[c].b = call[c].b
        /\ \A d \in Calls : d # c => call'[d] = call[d]
    BY <1>g, GoAt
  <2>2. call'[c].pc \notin Entering /\ (call'[c].pc \in Looking => call'[c].a # call'[c].b)
    BY <1>g, <2>1, <1>b DEF LooksApart
  <2> QED
    BY <1>b, <1>g, <2>1, <2>2, StillApart
<1>1. ASSUME NEW c \in Calls, NEW u \in Users, Enqueue(c, u) PROVE CallsApart' /\ MatchesApart'
  <2> DEFINE r == [IdleCall EXCEPT !.pc = "remove", !.user = u]
  <2>1. r.pc = "remove" /\ r.user = u
    BY DEF IdleCall
  <2>2. call' = [call EXCEPT ![c] = r] /\ UNCHANGED <<queue, matches>>
    BY <1>1 DEF Enqueue
  <2>3. \A d \in Calls : call[d].pc \in Entering => call[d].user # u
    BY <1>1, Zenon DEF Enqueue, Entering
  <2> HIDE DEF r
  <2>4. call'[c] = r /\ \A d \in Calls : d # c => call'[d] = call[d]
    BY <2>2, CallAt
  <2>5. QueueOnce' /\ \A n \in DOMAIN queue' : \E i \in DOMAIN queue : queue'[n] = queue[i]
    BY <1>b, <2>2 DEF QueueOnce
  <2>6. LooksApart' /\ PushFresh' /\ EnterApart'
    BY <1>b, <2>1, <2>3, <2>4, <2>5, CallApart DEF Looking
  <2> QED
    BY <2>2, <2>5, <2>6, <1>e
<1>2. ASSUME NEW c \in Calls, RemoveSelf(c) PROVE CallsApart' /\ MatchesApart'
  <2>1. CallsApart'
    BY <1>2, <1>b, TakeApart DEF RemoveSelf, JoinSteps, Looking, Entering
  <2> QED
    BY <1>2, <2>1, <1>e DEF RemoveSelf
<1>3. ASSUME NEW c \in Calls, Push(c) PROVE CallsApart' /\ MatchesApart'
  <2> DEFINE u == call[c].user
  <2>1. u \in Users /\ queue' = <<u>> \o queue
    BY <1>3, <1>c DEF Push, CallOK
  <2>2. \A i \in DOMAIN queue : queue[i] # u
    BY <1>3, <1>b DEF Push, PushFresh
  <2>3. \A d \in Calls : d # c /\ call[d].pc \in Entering => call[d].user # u
    BY <1>3, <1>b DEF Push, EnterApart, Entering
  <2>4. /\ call'[c].pc = "peek"
        /\ \A d \in Calls : d # c => call'[d] = call[d]
    BY <1>3, GoAt DEF Push
  <2> HIDE DEF u
  <2>5. /\ DOMAIN queue = 1 .. Len(queue) /\ Len(queue) \in Nat
        /\ DOMAIN queue' = 1 .. Len(queue) + 1
        /\ \A n \in DOMAIN queue' : queue'[n] = IF n = 1 THEN u ELSE queue[n - 1]
    <3>1. <<u>> \in Seq(Users) /\ Len(<<u>>) = 1 /\ <<u>>[1] = u
      BY <2>1
    <3>2. queue' \in Seq(Users) /\ Len(queue') = 1 + Len(queue)
          /\ \A n \in 1 .. 1 + Len(queue) : queue'[n] = IF n <= 1 THEN <<u>>[n] ELSE queue[n - 1]
      BY <2>1, <3>1, <1>c, ConcatProperties
    <3>3. Len(queue) \in Nat /\ DOMAIN queue = 1 .. Len(queue) /\ DOMAIN queue' = 1 .. Len(queue')
      BY <1>c, <3>2
    <3> QED
      BY <3>1, <3>2, <3>3
  <2>6. QueueOnce'
    <3> SUFFICES ASSUME NEW i \in DOMAIN queue', NEW j \in DOMAIN queue', queue'[i] = queue'[j]
                 PROVE  i = j
      BY DEF QueueOnce
    <3>1. i # 1 => i - 1 \in DOMAIN queue /\ queue'[i] = queue[i - 1]
      BY <2>5
    <3>2. j # 1 => j - 1 \in DOMAIN queue /\ queue'[j] = queue[j - 1]
      BY <2>5
    <3>3. (i = 1 => queue'[i] = u) /\ (j = 1 => queue'[j] = u)
      BY <2>5
    <3>4. i # 1 /\ j # 1 => i - 1 = j - 1
      BY <3>1, <3>2, <1>b DEF QueueOnce
    <3>5. i \in Int /\ j \in Int
      BY <2>5
    <3> QED
      BY <3>1, <3>2, <3>3, <3>4, <3>5, <2>2
  <2>7. PushFresh'
    <3> SUFFICES ASSUME NEW d \in Calls, call'[d].pc = "push", NEW n \in DOMAIN queue'
                 PROVE  queue'[n] # call'[d].user
      BY DEF PushFresh
    <3>1. call'[d] = call[d] /\ d # c
      BY <2>4
    <3>2. call[d].user # u /\ \A i \in DOMAIN queue : queue[i] # call[d].user
      BY <3>1, <2>3, <1>b DEF PushFresh, Entering
    <3>3. queue'[n] = u \/ \E i \in DOMAIN queue : queue'[n] = queue[i]
      BY <2>5
    <3> QED
      BY <3>1, <3>2, <3>3
  <2>8. LooksApart' /\ EnterApart'
    BY <2>4, <1>b DEF LooksApart, EnterApart, Looking, Entering
  <2> QED
    BY <1>3, <2>6, <2>7, <2>8, <1>e DEF Push
<1>4. ASSUME NEW c \in Calls, Peek(c) PROVE CallsApart' /\ MatchesApart'
  <2>1. CASE Len(queue) < 2
    BY <2>1, <1>4, <1>e, <1>f DEF Peek
  <2>2. CASE ~ (Len(queue) < 2)
    <3> DEFINE r == [call[c] EXCEPT !.pc = "checkA", !.a = queue[1], !.b = queue[2]]
    <3>1. r.pc = "checkA" /\ r.a = queue[1] /\ r.b = queue[2]
      BY <1>c DEF CallType
    <3>2. call' = [call EXCEPT ![c] = r] /\ UNCHANGED <<queue, matches>>
      BY <1>4, <2>2 DEF Peek
    <3>3. 1 \in DOMAIN queue /\ 2 \in DOMAIN queue
      BY <2>2, <1>c
    <3>4. queue[1] # queue[2]
      BY <3>3, <1>b DEF QueueOnce
    <3> HIDE DEF r
    <3>5. call'[c] = r /\ \A d \in Calls : d # c => call'[d] = call[d]
      BY <3>2, CallAt
    <3>6. r.pc \notin Entering /\ r.a # r.b
      BY <3>1, <3>4 DEF Entering
    <3> QED
      BY <3>2, <3>5, <3>6, <1>b, <1>e, StillApart
  <2> QED
    BY <2>1, <2>2
<1>5. ASSUME NEW c \in Calls, CheckA(c) PROVE CallsApart' /\ MatchesApart'
  <2> DEFINE r == [call[c] EXCEPT !.pc = "checkB", !.ok = (row[call[c].a] = "active")]
  <2>1. r.pc = "checkB" /\ r.a = call[c].a /\ r.b = call[c].b
    BY <1>c DEF CallType
  <2>2. call' = [call EXCEPT ![c] = r] /\ UNCHANGED <<queue, matches>>
    BY <1>5 DEF CheckA
  <2> HIDE DEF r
  <2>3. call'[c] = r /\ \A d \in Calls : d # c => call'[d] = call[d]
    BY <2>2, CallAt
  <2>4. r.pc \notin Entering /\ r.a # r.b
    BY <1>5, <2>1, <1>b DEF CheckA, LooksApart, Looking, Entering
  <2> QED
    BY <2>2, <2>3, <2>4, <1>b, <1>e, StillApart
<1>6. ASSUME NEW c \in Calls, CheckB(c) PROVE CallsApart' /\ MatchesApart'
  <2> DEFINE r == [call[c] EXCEPT !.pc = "drop", !.a = call[c].b]
  <2>1. r.pc \notin Entering \cup Looking
    BY <1>c DEF CallType, Entering, Looking
  <2>2. UNCHANGED <<queue, matches>> /\ call[c].pc \in Looking
    BY <1>6 DEF CheckB, Looking
  <2>3. call' = [call EXCEPT ![c] = r] \/ Go(c, "drop") \/ Go(c, "takeA")
    BY <1>6 DEF CheckB, Go
  <2> HIDE DEF r
  <2>4. call' = [call EXCEPT ![c] = r] => CallsApart'
    <3>1. call' = [call EXCEPT ![c] = r]
          => call'[c] = r /\ \A d \in Calls : d # c => call'[d] = call[d]
      BY CallAt
    <3> QED
      BY <2>1, <2>2, <3>1, <1>b, StillApart
  <2>5. Go(c, "drop") \/ Go(c, "takeA") => CallsApart'
    BY <2>2, <1>g DEF Entering
  <2> QED
    BY <2>2, <2>3, <2>4, <2>5, <1>e
<1>7. ASSUME NEW c \in Calls, Drop(c) \/ TakeA(c) \/ TakeB(c) PROVE CallsApart' /\ MatchesApart'
  <2>1. PICK u, pc : /\ queue' = Without(queue, u) /\ Go(c, pc)
                     /\ pc \in {"peek"} \/ (pc \in {"takeB", "pair"} /\ call[c].pc \in Looking)
    BY <1>7 DEF Drop, TakeA, TakeB, Looking
  <2>2. CallsApart'
    BY <2>1, <1>b, TakeApart DEF JoinSteps, Looking, Entering
  <2> QED
    BY <1>7, <2>2, <1>e DEF Drop, TakeA, TakeB
<1>8. ASSUME NEW c \in Calls, Pair(c) PROVE CallsApart' /\ MatchesApart'
  <2>1. CallsApart'
    BY <1>8, <1>g DEF Pair, Entering, Looking
  <2>2. call[c].a # call[c].b
    BY <1>8, <1>b DEF Pair, LooksApart, Looking
  <2>3. MatchesApart'
    <3>1. /\ DOMAIN matches' = 1 .. Len(matches) + 1
          /\ \A n \in DOMAIN matches : matches'[n] = matches[n]
          /\ matches'[Len(matches) + 1].a # matches'[Len(matches) + 1].b
      <4>1. matches'[Len(matches) + 1] = [a |-> call[c].a, b |-> call[c].b,
                                          status |-> "PENDING", winner |-> None]
        BY <1>8, PairStep
      <4> QED
        BY <1>8, <2>2, <4>1, PairStep
    <3>2. DOMAIN matches = 1 .. Len(matches) /\ Len(matches) \in Nat
      BY DEF TypeInv
    <3> QED
      BY <3>1, <3>2, <1>b DEF MatchesApart
  <2> QED
    BY <2>1, <2>3
<1>9. ASSUME NEW c \in Calls, NEW m \in DOMAIN matches, NEW u \in Users, ReadMatch(c, m, u)
      PROVE  CallsApart' /\ MatchesApart'
  <2> DEFINE r == [IdleCall EXCEPT !.pc = "write", !.user = u, !.match = m]
  <2>1. r.pc \notin Entering \cup Looking
    BY DEF IdleCall, Entering, Looking
  <2>2. call' = [call EXCEPT ![c] = r] /\ UNCHANGED <<queue, matches>>
    BY <1>9 DEF ReadMatch
  <2> HIDE DEF r
  <2>3. call'[c] = r /\ \A d \in Calls : d # c => call'[d] = call[d]
    BY <2>2, CallAt
  <2> QED
    BY <2>1, <2>2, <2>3, <1>b, <1>e, StillApart
<1>10. ASSUME NEW c \in Calls, WriteResult(c) PROVE CallsApart' /\ MatchesApart'
  <2>1. CallsApart'
    BY <1>10, <1>g DEF WriteResult, Entering, Looking
  <2>2. call[c].match \in DOMAIN matches /\ call[c].user \in Users
    BY <1>10, <1>c DEF WriteResult, CallOK, ReportSteps
  <2>3. DOMAIN matches' = DOMAIN matches
    BY <1>10, <2>2, FinishStep DEF WriteResult, TypeInv
  <2> QED
    BY <2>1, <2>3, <1>b, StillMatches
<1>11. ASSUME NEW c \in Calls, CountResult(c) \/ Award(c) \/ Fault(c)
       PROVE  CallsApart' /\ MatchesApart'
  <2>1. (End(c) \/ Go(c, "award")) /\ UNCHANGED <<queue, matches>>
    BY <1>11, Zenon DEF CountResult, Award, Fault
  <2> QED
    BY <2>1, <1>e, <1>f, <1>g DEF Entering, Looking
<1>12. ASSUME Complete PROVE CallsApart' /\ MatchesApart'
  BY <1>12, <1>b, <1>d, CompleteStep, StillMatches DEF Complete, TypeInv
<1>13. ASSUME NEW m \in watch, WatchWrite(m) PROVE CallsApart' /\ MatchesApart'
  <2>1. m \in DOMAIN matches /\ matches \in Seq(Matches)
    BY DEF TypeInv, RestOK
  <2>2. PICK u \in {matches[m].a, matches[m].b} : Finish(m, u)
    BY <1>13 DEF WatchWrite
  <2>3. matches[m] \in Matches
    BY <2>1
  <2>4. u \in Users
    BY <2>2, <2>3 DEF Matches
  <2>5. DOMAIN matches' = DOMAIN matches
    BY <2>1, <2>2, <2>4, FinishStep
  <2> QED
    BY <1>13, <2>5, <1>b, <1>d, StillMatches DEF WatchWrite
<1>14. ASSUME \/ \E m \in DOMAIN matches : Age(m)
              \/ \E u \in LateLeavers : LeaveLate(u)
              \/ WatchFind \/ UNCHANGED vars
       PROVE  CallsApart' /\ MatchesApart'
  BY <1>14, <1>d, <1>e DEF Age, LeaveLate, WatchFind, vars
<1>15. CASE Next
  BY <1>15, NextCases, <1>1, <1>2, <1>3, <1>4, <1>5, <1>6, <1>7, <1>8, <1>9, <1>10, <1>11,
     <1>12, <1>13, <1>14, Zenon
<1> QED
  BY <1>14, <1>15

\* As long as no two requests of a player are between the removal and the push at
\* once, the list holds nobody twice and no match is of a player with themselves.
THEOREM NobodyMatchedAlone == Spec => []NoSelfMatch
<1>1. Init => ApartInv
  <2> SUFFICES ASSUME Init PROVE QueueOnce /\ MatchesApart /\ LooksApart /\ PushFresh /\ EnterApart
    BY DEF ApartInv
  <2>1. \A c \in Calls : call[c].pc = "idle"
    BY DEF Init, IdleCall
  <2>2. LooksApart /\ PushFresh /\ EnterApart
    BY <2>1 DEF LooksApart, PushFresh, EnterApart, Looking, Entering
  <2>3. QueueOnce
    BY DEF Init, QueueOnce
  <2>4. MatchesApart
    BY DEF Init, MatchesApart
  <2> QED
    BY <2>2, <2>3, <2>4
<1>2. TypeInv /\ [Next]_vars => TypeInv'
  BY StepType
<1>3. TypeInv /\ ApartInv /\ [Next]_vars => ApartInv'
  BY StepApart
<1> QED
  BY InitType, ApartMatch, <1>1, <1>2, <1>3, PTL DEF Spec

-----------------------------------------------------------------------------
(* Standings and matches.                                                  *)

\* The matches some request has still to write or to count.
Reporting == {c \in Calls : call[c].pc \in {"write", "count"}}
Deciding  == {call[c].match : c \in Reporting}

\* The matches whose winner nobody will change any more, those a player won and
\* those a player is out for.
Settled == {m \in DOMAIN matches : matches[m].status = "FINISHED" /\ m \notin Deciding}
Won(u)  == {m \in Settled : matches[m].winner = u}
Lost(u) == {m \in Settled : /\ matches[m].winner # None /\ u \in {matches[m].a, matches[m].b}
                            /\ matches[m].winner # u \/ matches[m].a = matches[m].b}

\* Two requests never report the same match, a request that counts a result finds
\* in the row the winner it wrote, and the standings agree with settled matches.
OneReporter == \A c, d \in Calls :
    c # d /\ call[c].pc \in ReportSteps /\ call[d].pc \in ReportSteps
    => call[c].match # call[d].match
Written == \A c \in Calls : call[c].pc = "count" =>
    matches[call[c].match].status = "FINISHED" /\ matches[call[c].match].winner = call[c].user
Standing == \A u \in Users :
    score[u] <= Cardinality(Won(u)) /\ (row[u] = "eliminated" => Lost(u) # {})

StandInv == contested \/ (OneReporter /\ Written /\ Standing)

LEMMA WonFinite ==
    ASSUME matches \in Seq(Matches), NEW u
    PROVE  IsFiniteSet(Won(u)) /\ Cardinality(Won(u)) \in Nat
<1>1. IsFiniteSet(DOMAIN matches)
  <2>1. DOMAIN matches = 1 .. Len(matches) /\ Len(matches) \in Nat
    OBVIOUS
  <2> QED
    BY <2>1, FS_Interval
<1>2. Won(u) \in SUBSET (DOMAIN matches)
  BY DEF Won, Settled
<1> QED
  BY <1>1, <1>2, FS_Subset, FS_CardinalityType

LEMMA StandAgree == TypeInv /\ StandInv => StandingsAgree
<1> SUFFICES ASSUME TypeInv, Standing, NEW u \in Users
             PROVE  /\ score[u] <= Cardinality({m \in DOMAIN matches :
                            matches[m].status = "FINISHED" /\ matches[m].winner = u})
                    /\ row[u] = "eliminated" => \E m \in DOMAIN matches :
                        /\ matches[m].status = "FINISHED" /\ matches[m].winner # None
                        /\ u \in {matches[m].a, matches[m].b}
                        /\ matches[m].winner # u \/ matches[m].a = matches[m].b
  BY Zenon DEF StandInv, StandingsAgree
<1> DEFINE wins == {m \in DOMAIN matches : matches[m].status = "FINISHED" /\ matches[m].winner = u}
<1>1. Won(u) \in SUBSET wins
  BY DEF Won, Settled
<1>2. IsFiniteSet(DOMAIN matches) /\ wins \in SUBSET (DOMAIN matches)
  <2>1. DOMAIN matches = 1 .. Len(matches) /\ Len(matches) \in Nat
    BY DEF TypeInv
  <2> QED
    BY <2>1, FS_Interval
<1>3. IsFiniteSet(wins) /\ Cardinality(wins) \in Nat
  BY <1>2, FS_Subset, FS_CardinalityType
<1>4. Cardinality(Won(u)) <= Cardinality(wins) /\ Cardinality(Won(u)) \in Nat
  BY <1>1, <1>3, FS_Subset, FS_CardinalityType
<1>5. score[u] \in Nat /\ score[u] <= Cardinality(Won(u))
  BY DEF Standing, TypeInv, RestOK
<1>6. score[u] <= Cardinality(wins)
  BY <1>3, <1>4, <1>5
<1>7. row[u] = "eliminated" => Lost(u) # {}
  BY DEF Standing
<1>8. row[u] = "eliminated" => \E m \in DOMAIN matches :
         /\ matches[m].status = "FINISHED" /\ matches[m].winner # None
         /\ u \in {matches[m].a, matches[m].b}
         /\ matches[m].winner # u \/ matches[m].a = matches[m].b
  BY <1>7 DEF Lost, Settled
<1> QED
  BY <1>6, <1>8

\* A settled match that a step leaves settled, with its players and its winner.
StaysSettled(m) ==
    /\ m \in Settled'
    /\ matches'[m].winner = matches[m].winner
    /\ matches'[m].a = matches[m].a /\ matches'[m].b = matches[m].b

SettledKept == \A m \in Settled : StaysSettled(m)

LEMMA SettledGrow ==
    ASSUME matches' \in Seq(Matches), SettledKept, NEW u
    PROVE  /\ Won(u) \subseteq Won(u)' /\ Lost(u) \subseteq Lost(u)'
           /\ Cardinality(Won(u)) <= Cardinality(Won(u)') /\ IsFiniteSet(Won(u)')
           /\ Cardinality(Won(u)') \in Nat
<1>1. Won(u) \subseteq Won(u)' /\ Lost(u) \subseteq Lost(u)'
  BY DEF Won, Lost, SettledKept, StaysSettled
<1>2. IsFiniteSet(DOMAIN matches')
  <2>1. DOMAIN matches' = 1 .. Len(matches') /\ Len(matches') \in Nat
    OBVIOUS
  <2> QED
    BY <2>1, FS_Interval
<1>3. Won(u)' \in SUBSET (DOMAIN matches')
  BY DEF Won, Settled
<1>4. IsFiniteSet(Won(u)')
  BY <1>2, <1>3, FS_Subset
<1> QED
  BY <1>1, <1>4, FS_Subset, FS_CardinalityType

\* Standings that only fall, while settled matches stay settled.
LEMMA StandingKept ==
    ASSUME TypeInv, TypeInv', Standing, SettledKept,
           \A u \in Users : /\ score'[u] <= score[u]
                            /\ row'[u] = "eliminated" => row[u] = "eliminated"
    PROVE  Standing'
<1> SUFFICES ASSUME NEW u \in Users
             PROVE  score'[u] <= Cardinality(Won(u)') /\ (row'[u] = "eliminated" => Lost(u)' # {})
  BY DEF Standing
<1>1. matches \in Seq(Matches) /\ matches' \in Seq(Matches) /\ score[u] \in Nat /\ score'[u] \in Nat
  BY DEF TypeInv, RestOK
<1>2. Cardinality(Won(u)) <= Cardinality(Won(u)') /\ Lost(u) \subseteq Lost(u)'
  BY <1>1, SettledGrow
<1>3. Cardinality(Won(u)) \in Nat /\ Cardinality(Won(u)') \in Nat
  BY <1>1, WonFinite, SettledGrow
<1>4. score[u] <= Cardinality(Won(u)) /\ (row[u] = "eliminated" => Lost(u) # {})
  BY DEF Standing
<1>5. score'[u] <= score[u] /\ (row'[u] = "eliminated" => row[u] = "eliminated")
  OBVIOUS
<1> QED
  BY <1>1, <1>2, <1>3, <1>4, <1>5

\* A step of a call that is not about a match, or stops being.
LEMMA StandAside ==
    ASSUME TypeInv, OneReporter, Written, NEW c \in Calls, NEW r,
           call'[c] = r, \A d \in Calls : d # c => call'[d] = call[d],
           r.pc \notin {"write", "count"},
           r.pc = "award" => call[c].pc \in ReportSteps /\ r.match = call[c].match,
           \A m \in DOMAIN matches : m \in DOMAIN matches' /\ matches'[m] = matches[m]
    PROVE  OneReporter' /\ Written' /\ SettledKept
<1>1. OneReporter'
  BY DEF OneReporter, ReportSteps
<1>2. Written'
  <2> SUFFICES ASSUME NEW d \in Calls, call'[d].pc = "count"
               PROVE  /\ matches'[call'[d].match].status = "FINISHED"
                      /\ matches'[call'[d].match].winner = call'[d].user
    BY DEF Written
  <2>1. d # c /\ call'[d] = call[d] /\ call[d].match \in DOMAIN matches
    BY DEF TypeInv, CallsOK, CallOK, ReportSteps
  <2> QED
    BY <2>1 DEF Written
<1>3. Deciding' \subseteq Deciding
  BY DEF Deciding, Reporting
<1>4. SettledKept
  BY <1>3 DEF SettledKept, StaysSettled, Settled
<1> QED
  BY <1>1, <1>2, <1>4

\* A step that lets all calls be and finishes at most matches nobody settled.
LEMMA StandBy ==
    ASSUME TypeInv, OneReporter, UNCHANGED call
    PROVE  OneReporter' /\ Deciding' = Deciding
  BY DEF OneReporter, Deciding, Reporting

\* The one step that changes standings upwards: the winner's score, after which the
\* match is settled and counts among those the winner won and the loser lost.
LEMMA CountStanding ==
    ASSUME TypeInv, TypeInv', OneReporter, Written, Standing, SettledKept,
           NEW c \in Calls, call[c].pc = "count", Go(c, "award"), UNCHANGED matches,
           score' = [score EXCEPT ![call[c].user] = @ + 1],
           row' = [row EXCEPT ![Loser(c)] = "eliminated"]
    PROVE  Standing'
<1>0. PICK m, w, l : m = call[c].match /\ w = call[c].user /\ l = Loser(c)
  OBVIOUS
<1>1. m \in DOMAIN matches /\ w \in Users /\ w \in {matches[m].a, matches[m].b}
  BY <1>0 DEF TypeInv, CallsOK, CallOK, ReportSteps
<1>2. matches[m].status = "FINISHED" /\ matches[m].winner = w
  BY <1>0 DEF Written
<1>3. m \in Deciding
  BY <1>0 DEF Deciding, Reporting
<1>4. m \notin Deciding'
  <2>1. call'[c].pc = "award" /\ \A d \in Calls : d # c => call'[d] = call[d]
    BY GoAt
  <2>2. \A d \in Calls : d # c /\ call[d].pc \in {"write", "count"} => call[d].match # m
    BY <1>0 DEF OneReporter, ReportSteps
  <2> QED
    BY <2>1, <2>2 DEF Deciding, Reporting
<1>5. m \in Won(w)' /\ m \notin Won(w)
  BY <1>1, <1>2, <1>3, <1>4 DEF Won, Settled
<1>6. m \in Lost(l)'
  <2>1. /\ l \in {matches[m].a, matches[m].b}
        /\ matches[m].winner # l \/ matches[m].a = matches[m].b
    BY <1>0, <1>1, <1>2 DEF Loser
  <2>2. matches[m].winner # None
    BY <1>1, <1>2, MatchmakingAssumption
  <2>3. m \in Settled'
    BY <1>1, <1>2, <1>4 DEF Settled
  <2> QED
    BY <2>1, <2>2, <2>3 DEF Lost
<1>a. matches \in Seq(Matches) /\ matches' \in Seq(Matches)
      /\ score \in [Users -> Nat] /\ row \in [Users -> {"active", "eliminated", "gone"}]
  BY DEF TypeInv, RestOK
<1>b. w \in Users /\ score' = [score EXCEPT ![w] = @ + 1] /\ row' = [row EXCEPT ![l] = "eliminated"]
  BY <1>0, <1>1
<1>7. \A u \in Users : /\ Cardinality(Won(u)) <= Cardinality(Won(u)')
                       /\ IsFiniteSet(Won(u)) /\ IsFiniteSet(Won(u)')
                       /\ Cardinality(Won(u)) \in Nat /\ Cardinality(Won(u)') \in Nat
                       /\ Lost(u) \subseteq Lost(u)' /\ Won(u) \subseteq Won(u)'
  BY <1>a, SettledGrow, WonFinite
<1>8. Cardinality(Won(w)) + 1 <= Cardinality(Won(w)')
  <2>1. Won(w) \in SUBSET (Won(w)') /\ Won(w) # Won(w)'
    BY <1>5, <1>7, <1>b
  <2>2. Cardinality(Won(w)') # Cardinality(Won(w))
    BY <2>1, <1>7, <1>b, FS_Subset
  <2> QED
    BY <2>2, <1>7, <1>b
<1>9. ASSUME NEW u \in Users PROVE score'[u] <= Cardinality(Won(u)')
  <2>1. score[u] \in Nat /\ score[u] <= Cardinality(Won(u))
    BY <1>a DEF Standing
  <2>2. CASE u = w
    BY <2>1, <2>2, <1>a, <1>b, <1>7, <1>8
  <2>3. CASE u # w
    BY <2>1, <2>3, <1>a, <1>b, <1>7
  <2> QED
    BY <2>2, <2>3
<1>10. ASSUME NEW u \in Users, row'[u] = "eliminated" PROVE Lost(u)' # {}
  <2>1. CASE u = l
    BY <1>6, <2>1
  <2>2. CASE u # l
    <3>1. row[u] = "eliminated"
      BY <1>10, <2>2, <1>a, <1>b
    <3> QED
      BY <3>1, <1>7 DEF Standing
  <2> QED
    BY <2>1, <2>2
<1> QED
  BY <1>9, <1>10 DEF Standing

\* A step of a request that joins, as far as matches and standings are concerned.
LEMMA JoinAside ==
    ASSUME TypeInv, [Next]_vars, NEW c \in Calls, (\E u \in Users : Enqueue(c, u)) \/ JoinStep(c)
    PROVE  /\ \A d \in Calls : d # c => call'[d] = call[d]
           /\ call'[c].pc \in JoinSteps \cup {"idle"}
           /\ \A m \in DOMAIN matches : m \in DOMAIN matches' /\ matches'[m] = matches[m]
           /\ UNCHANGED players
<1>a. call[c] \in CallType
  BY DEF TypeInv, CallsOK
<1>b. matches \in Seq(Matches)
  BY DEF TypeInv
<1>1. \E r : call' = [call EXCEPT ![c] = r] /\ r.pc \in JoinSteps \cup {"idle"}
  <2>1. ASSUME NEW pc \in JoinSteps, Go(c, pc)
        PROVE  \E r : call' = [call EXCEPT ![c] = r] /\ r.pc \in JoinSteps \cup {"idle"}
    <3>1. [call[c] EXCEPT !.pc = pc].pc = pc
      BY <1>a DEF CallType
    <3> QED
      BY <2>1, <3>1 DEF Go
  <2>2. ASSUME End(c)
        PROVE  \E r : call' = [call EXCEPT ![c] = r] /\ r.pc \in JoinSteps \cup {"idle"}
    <3>1. IdleCall.pc = "idle"
      BY DEF IdleCall
    <3> QED
      BY <2>2, <3>1 DEF End
  <2>3. ASSUME NEW u \in Users, Enqueue(c, u)
        PROVE  \E r : call' = [call EXCEPT ![c] = r] /\ r.pc \in JoinSteps \cup {"idle"}
    <3>1. [IdleCall EXCEPT !.pc = "remove", !.user = u].pc \in JoinSteps
      BY DEF IdleCall, JoinSteps
    <3> QED
      BY <2>3, <3>1 DEF Enqueue
  <2>4. ASSUME Peek(c)
        PROVE  \E r : call' = [call EXCEPT ![c] = r] /\ r.pc \in JoinSteps \cup {"idle"}
    <3>1. [call[c] EXCEPT !.pc = "checkA", !.a = queue[1], !.b = queue[2]].pc \in JoinSteps
      BY <1>a DEF CallType, JoinSteps
    <3>2. End(c) \/ call' = [call EXCEPT ![c] = [call[c] EXCEPT !.pc = "checkA", !.a = queue[1], !.b = queue[2]]]
      BY <2>4 DEF Peek
    <3> QED
      BY <2>2, <3>1, <3>2
  <2>5. ASSUME CheckA(c)
        PROVE  \E r : call' = [call EXCEPT ![c] = r] /\ r.pc \in JoinSteps \cup {"idle"}
    <3>1. [call[c] EXCEPT !.pc = "checkB", !.ok = (row[call[c].a] = "active")].pc \in JoinSteps
      BY <1>a DEF CallType, JoinSteps
    <3> QED
      BY <2>5, <3>1 DEF CheckA
  <2>6. ASSUME CheckB(c)
        PROVE  \E r : call' = [call EXCEPT ![c] = r] /\ r.pc \in JoinSteps \cup {"idle"}
    <3>1. [call[c] EXCEPT !.pc = "drop", !.a = call[c].b].pc \in JoinSteps
      BY <1>a DEF CallType, JoinSteps
    <3>2. \/ Go(c, "drop") \/ Go(c, "takeA")
          \/ call' = [call EXCEPT ![c] = [call[c] EXCEPT !.pc = "drop", !.a = call[c].b]]
      BY <2>6 DEF CheckB, Go
    <3> QED
      BY <2>1, <3>1, <3>2 DEF JoinSteps
  <2>7. CASE RemoveSelf(c) \/ Push(c) \/ Drop(c) \/ TakeA(c) \/ TakeB(c) \/ Pair(c)
    BY <2>1, <2>7 DEF RemoveSelf, Push, Drop, TakeA, TakeB, Pair, JoinSteps
  <2> QED
    BY <2>3, <2>4, <2>5, <2>6, <2>7, Zenon DEF JoinStep
<1>2. \A d \in Calls : d # c => call'[d] = call[d]
  BY <1>1, CallAt
<1>3. call'[c].pc \in JoinSteps \cup {"idle"}
  BY <1>1, CallAt
<1>4. UNCHANGED players /\ (UNCHANGED matches \/ Pair(c))
  BY Zenon DEF JoinStep, Enqueue, RemoveSelf, Push, Peek, CheckA, CheckB, Drop, TakeA, TakeB, Pair
<1>5. \A m \in DOMAIN matches : m \in DOMAIN matches' /\ matches'[m] = matches[m]
  <2>1. DOMAIN matches = 1 .. Len(matches) /\ Len(matches) \in Nat
    BY <1>b
  <2>2. ASSUME Pair(c)
        PROVE  \A m \in DOMAIN matches : m \in DOMAIN matches' /\ matches'[m] = matches[m]
    <3>1. /\ DOMAIN matches' = 1 .. Len(matches) + 1
          /\ \A n \in DOMAIN matches : matches'[n] = matches[n]
      BY <2>2, PairStep
    <3> QED
      BY <2>1, <3>1
  <2> QED
    BY <1>4, <2>2
<1> QED
  BY <1>2, <1>3, <1>4, <1>5

LEMMA StepStand ==
    ASSUME TypeInv, StandInv, [Next]_vars
    PROVE  StandInv'
<1>a. contested => contested'
  <2>1. CASE Next
    BY <2>1, NextCases, Zenon DEF Enqueue, RemoveSelf, Push, Peek, CheckA, CheckB, Drop, TakeA,
       TakeB, Pair, ReadMatch, WriteResult, CountResult, Award, Fault, Age, LeaveLate,
       Complete, WatchFind, WatchWrite
  <2> QED
    BY <2>1 DEF vars
<1> SUFFICES ASSUME ~ contested, ~ contested' PROVE OneReporter' /\ Written' /\ Standing'
  BY <1>a DEF StandInv
<1>b. OneReporter /\ Written /\ Standing
  BY DEF StandInv
<1>c. TypeInv' /\ matches \in Seq(Matches) /\ \A c \in Calls : CallOK(call[c], matches)
  BY StepType DEF TypeInv, CallsOK
<1>d. score \in [Users -> Nat] /\ row \in [Users -> {"active", "eliminated", "gone"}]
  BY DEF TypeInv, RestOK
<1>e. ASSUME UNCHANGED players, SettledKept PROVE Standing'
  <2>1. \A u \in Users : score'[u] <= score[u] /\ (row'[u] = "eliminated" => row[u] = "eliminated")
    BY <1>d, <1>e DEF players
  <2> QED
    BY <1>b, <1>c, <1>e, <2>1, StandingKept
\* A step that lets the calls be, and the winner of every match that is finished.
<1>f. ASSUME UNCHANGED call,
             \A m \in DOMAIN matches : matches[m].status = "FINISHED" =>
                matches'[m].winner = matches[m].winner
      PROVE  OneReporter' /\ Written' /\ SettledKept
  <2>1. OneReporter' /\ Deciding' = Deciding
    BY <1>b, <1>f, StandBy
  <2>2. \A m \in DOMAIN matches : Kept(m)
    BY MatchesKept
  <2>3. Written'
    BY <1>b, <1>c, <1>f, <2>2 DEF Written, Kept, CallOK, ReportSteps
  <2>4. SettledKept
    BY <1>f, <2>1, <2>2 DEF SettledKept, StaysSettled, Settled, Kept
  <2> QED
    BY <2>1, <2>3, <2>4
<1>1. ASSUME NEW c \in Calls, (\E u \in Users : Enqueue(c, u)) \/ JoinStep(c)
      PROVE  OneReporter' /\ Written' /\ Standing'
  <2>1. /\ \A d \in Calls : d # c => call'[d] = call[d]
        /\ call'[c].pc \notin {"write", "count", "award"}
        /\ \A m \in DOMAIN matches : m \in DOMAIN matches' /\ matches'[m] = matches[m]
        /\ UNCHANGED players
    BY <1>1, JoinAside DEF JoinSteps
  <2>2. OneReporter' /\ Written' /\ SettledKept
    BY <1>b, <2>1, StandAside
  <2> QED
    BY <2>1, <2>2, <1>e
<1>2. ASSUME NEW c \in Calls, NEW m \in DOMAIN matches, NEW u \in Users, ReadMatch(c, m, u)
      PROVE  OneReporter' /\ Written' /\ Standing'
  <2> DEFINE r == [IdleCall EXCEPT !.pc = "write", !.user = u, !.match = m]
  <2>1. r.pc = "write" /\ r.match = m
    BY DEF IdleCall
  <2>2. call' = [call EXCEPT ![c] = r] /\ UNCHANGED <<matches, players>>
    BY <1>2 DEF ReadMatch
  <2>3. matches[m].status # "FINISHED"
    BY <1>2 DEF ReadMatch
  <2>4. \A d \in Calls : call[d].pc \in ReportSteps => call[d].match # m
    BY <1>2 DEF ReadMatch
  <2> HIDE DEF r
  <2>5. call'[c] = r /\ \A d \in Calls : d # c => call'[d] = call[d]
    BY <2>2, CallAt
  <2>6. OneReporter'
    BY <1>b, <2>1, <2>4, <2>5 DEF OneReporter
  <2>7. Written'
    BY <1>b, <2>1, <2>2, <2>5 DEF Written
  <2>8. Deciding' \subseteq Deciding \cup {m}
    BY <2>1, <2>5 DEF Deciding, Reporting
  <2>9. SettledKept
    BY <2>2, <2>3, <2>8 DEF SettledKept, StaysSettled, Settled
  <2> QED
    BY <2>2, <2>6, <2>7, <2>9, <1>e
<1>3. ASSUME NEW c \in Calls, WriteResult(c) PROVE OneReporter' /\ Written' /\ Standing'
  <2>0. PICK m, w : m = call[c].match /\ w = call[c].user
    OBVIOUS
  <2>1. m \in DOMAIN matches /\ w \in Users /\ call[c].pc = "write"
    BY <1>3, <1>c, <2>0 DEF WriteResult, CallOK, ReportSteps
  <2>2. /\ DOMAIN matches' = DOMAIN matches
        /\ matches'[m] = [matches[m] EXCEPT !.status = "FINISHED", !.winner = w]
        /\ \A n \in DOMAIN matches : n # m => matches'[n] = matches[n]
    BY <1>3, <1>c, <2>0, <2>1, FinishStep DEF WriteResult
  <2>3. matches'[m].status = "FINISHED" /\ matches'[m].winner = w
    <3>1. matches[m] \in Matches
      BY <2>1, <1>c
    <3> QED
      BY <2>2, <3>1 DEF Matches
  <2>4. /\ call'[c].pc = "count" /\ call'[c].match = m /\ call'[c].user = w
        /\ \A d \in Calls : d # c => call'[d] = call[d]
    BY <1>3, <2>0, GoAt DEF WriteResult
  <2>5. OneReporter'
    BY <1>b, <2>0, <2>1, <2>4 DEF OneReporter, ReportSteps
  <2>6. Written'
    <3> SUFFICES ASSUME NEW d \in Calls, call'[d].pc = "count"
                 PROVE  /\ matches'[call'[d].match].status = "FINISHED"
                        /\ matches'[call'[d].match].winner = call'[d].user
      BY DEF Written
    <3>1. CASE d = c
      BY <3>1, <2>3, <2>4
    <3>2. CASE d # c
      <4>1. call'[d] = call[d] /\ call[d].match \in DOMAIN matches
        BY <3>2, <2>4, <1>c DEF CallOK, ReportSteps
      <4>2. call[d].match # m
        BY <3>2, <4>1, <2>0, <2>1, <1>b DEF OneReporter, ReportSteps
      <4> QED
        BY <4>1, <4>2, <2>2, <1>b DEF Written
    <3> QED
      BY <3>1, <3>2
  <2>7. m \in Deciding /\ Deciding' \subseteq Deciding
    BY <2>0, <2>1, <2>4 DEF Deciding, Reporting
  <2>8. SettledKept
    BY <2>2, <2>7 DEF SettledKept, StaysSettled, Settled
  <2> QED
    BY <1>3, <2>5, <2>6, <2>8, <1>e DEF WriteResult
<1>4. ASSUME NEW c \in Calls, CountResult(c) PROVE OneReporter' /\ Written' /\ Standing'
  <2>1. call[c].pc = "count" /\ UNCHANGED <<matches, points>>
    BY <1>4, Zenon DEF CountResult
  <2>2. ASSUME End(c), UNCHANGED <<row, score>> PROVE OneReporter' /\ Written' /\ Standing'
    <3>1. call'[c].pc = "idle" /\ \A d \in Calls : d # c => call'[d] = call[d]
      BY <2>2, EndAt DEF IdleCall
    <3>2. OneReporter' /\ Written' /\ SettledKept
      BY <1>b, <2>1, <3>1, StandAside
    <3> QED
      BY <2>1, <2>2, <3>2, <1>e DEF players
  <2>3. ASSUME Go(c, "award"), score' = [score EXCEPT ![call[c].user] = @ + 1],
               row' = [row EXCEPT ![Loser(c)] = "eliminated"]
        PROVE  OneReporter' /\ Written' /\ Standing'
    <3>1. /\ call'[c].pc = "award" /\ call'[c].match = call[c].match
          /\ \A d \in Calls : d # c => call'[d] = call[d]
      BY <2>3, GoAt
    <3>2. OneReporter' /\ Written' /\ SettledKept
      BY <1>b, <2>1, <3>1, StandAside DEF ReportSteps
    <3> QED
      BY <2>1, <2>3, <3>2, <1>b, <1>c, CountStanding
  <2> QED
    BY <1>4, <2>2, <2>3 DEF CountResult
<1>5. ASSUME NEW c \in Calls, Award(c) \/ Fault(c) PROVE OneReporter' /\ Written' /\ Standing'
  <2>1. End(c) /\ UNCHANGED <<matches, players>>
    BY <1>5 DEF Award, Fault
  <2>2. call'[c].pc = "idle" /\ \A d \in Calls : d # c => call'[d] = call[d]
    BY <2>1, EndAt DEF IdleCall
  <2>3. OneReporter' /\ Written' /\ SettledKept
    BY <1>b, <2>1, <2>2, StandAside
  <2> QED
    BY <2>1, <2>3, <1>e
<1>6. ASSUME NEW u \in LateLeavers, LeaveLate(u) PROVE OneReporter' /\ Written' /\ Standing'
  <2>1. UNCHANGED <<call, matches>>
    BY <1>6 DEF LeaveLate
  <2>2. OneReporter' /\ Written' /\ SettledKept
    BY <2>1, <1>f
  <2>3. \A v \in Users : score'[v] <= score[v] /\ (row'[v] = "eliminated" => row[v] = "eliminated")
    BY <1>6, <1>d DEF LeaveLate
  <2> QED
    BY <1>b, <1>c, <2>2, <2>3, StandingKept
<1>7. ASSUME Complete PROVE OneReporter' /\ Written' /\ Standing'
  <2>1. \A m \in DOMAIN matches : matches'[m].winner = matches[m].winner
    <3>1. \A m \in DOMAIN matches : matches[m] \in Matches
                                    /\ matches'[m] = [matches[m] EXCEPT !.status = "FINISHED"]
      BY <1>7, <1>c, CompleteStep
    <3> QED
      BY <3>1 DEF Matches
  <2> QED
    BY <1>7, <2>1, <1>e, <1>f DEF Complete
<1>8. ASSUME NEW m \in watch, WatchWrite(m) PROVE OneReporter' /\ Written' /\ Standing'
  <2>1. m \in DOMAIN matches /\ matches[m] \in Matches
    BY <1>c DEF TypeInv, RestOK
  <2>2. PICK u \in {matches[m].a, matches[m].b} : Finish(m, u)
    BY <1>8 DEF WatchWrite
  <2>3. u \in Users
    BY <2>1, <2>2 DEF Matches
  <2>4. \A n \in DOMAIN matches : n # m => matches'[n] = matches[n]
    BY <1>c, <2>1, <2>2, <2>3, FinishStep
  <2>5. matches[m].status # "FINISHED"
    BY <1>8 DEF WatchWrite
  <2> QED
    BY <1>8, <2>4, <2>5, <1>e, <1>f DEF WatchWrite
<1>9. ASSUME \/ \E m \in DOMAIN matches : Age(m)
             \/ WatchFind \/ UNCHANGED vars
      PROVE  OneReporter' /\ Written' /\ Standing'
  <2>1. UNCHANGED <<call, matches, players>>
    BY <1>9 DEF Age, WatchFind, vars
  <2> QED
    BY <2>1, <1>e, <1>f
<1>10. CASE Next
  BY <1>10, <1>1, <1>2, <1>3, <1>4, <1>5, <1>6, <1>7, <1>8, <1>9, Zenon
  DEF Next, ReportStep, Watch
<1> QED
  BY <1>9, <1>10

\* Unless two writers finished the same match, a player's score is at most the
\* matches the player won, and whoever is out has lost a finished match.
THEOREM StandingsSound == Spec => []StandingsAgree
<1>1. Init => StandInv
  <2> SUFFICES ASSUME Init PROVE OneReporter /\ Written /\ Standing
    BY DEF StandInv
  <2>1. \A c \in Calls : call[c].pc = "idle"
    BY DEF Init, IdleCall
  <2>2. OneReporter /\ Written
    BY <2>1 DEF OneReporter, Written, ReportSteps
  <2>3. \A u \in Users : Cardinality(Won(u)) \in Nat
    BY InitType, WonFinite DEF TypeInv
  <2>4. Standing
    BY <2>3 DEF Init, Standing
  <2> QED
    BY <2>2, <2>4
<1>2. TypeInv /\ [Next]_vars => TypeInv'
  BY StepType
<1>3. TypeInv /\ StandInv /\ [Next]_vars => StandInv'
  BY StepStand
<1> QED
  BY InitType, StandAgree, <1>1, <1>2, <1>3, PTL DEF Spec
=============================================================================
