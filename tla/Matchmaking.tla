----------------------------- MODULE Matchmaking -----------------------------
(***************************************************************************)
(* Matchmaking in one tournament: players join a Redis list, the request   *)
(* that joined goes on to pair whoever waits at its head, participants     *)
(* report the winner.  Every await of a request is a step, so requests     *)
(* interleave between the look at the list and the removal of the pair.    *)
(*                                                                         *)
(* Lists and rows of different tournaments share nothing.  Registration is *)
(* TournamentLifecycle's; here a row can only be deleted by a late leave.  *)
(***************************************************************************)
EXTENDS Naturals, FiniteSets, SequencesExt

CONSTANTS
    Users,
    LateLeavers,    \* users whose leave, read while OPEN, is written after the start
    Calls,          \* requests that may be in flight together
    BootStatuses,   \* statuses of a match an operator may have left behind
    MaxJoins,       \* bound: requests to join the queue
    MaxFaults,      \* bound: database or Redis calls that fail
    None            \* no user

ASSUME MatchmakingAssumption ==
    /\ LateLeavers \subseteq Users /\ None \notin Users
    /\ MaxJoins \in Nat /\ MaxFaults \in Nat
    /\ BootStatuses \subseteq {"IN_PROGRESS"}

VARIABLES
    live,       \* whether Tournament.status is STARTED (afterwards COMPLETED)
    queue,      \* the list matchmaking:queue:<id>, its head first
    row,        \* TournamentPlayer: "active", "eliminated" or deleted
    score,      \* TournamentPlayer.score
    points,     \* leaderboard points
    matches,    \* Match rows in the order of their creation
    aged,       \* matches that have been IN_PROGRESS for more than five minutes
    watch,      \* timed out matches the watchdog has found and not yet written
    call,       \* what each request does, and what it has read
    used,       \* joins and faults so far
    doubled,    \* history: a user's two requests were entering the queue together
    contested   \* history: two writers finished the same match

players == <<row, score, points>>
vars == <<live, queue, players, matches, aged, watch, call, used, doubled, contested>>

JoinSteps   == {"remove", "push", "peek", "checkA", "checkB", "drop", "takeA", "takeB", "pair"}
ReportSteps == {"write", "count", "award"}
Steps == {"idle"} \cup JoinSteps \cup ReportSteps

IdleCall == [pc |-> "idle", user |-> None, a |-> None, b |-> None, ok |-> FALSE, match |-> 0]

Matches == [a : Users, b : Users, status : {"PENDING", "IN_PROGRESS", "FINISHED"},
            winner : Users \cup {None}]

TypeOK ==
    /\ live \in BOOLEAN
    /\ queue \in Seq(Users)
    /\ row \in [Users -> {"active", "eliminated", "gone"}]
    /\ score \in [Users -> Nat] /\ points \in [Users -> Nat]
    /\ matches \in Seq(Matches)
    /\ aged \subseteq DOMAIN matches /\ watch \subseteq aged
    /\ call \in [Calls -> [pc : Steps, user : Users \cup {None}, a : Users \cup {None},
                           b : Users \cup {None}, ok : BOOLEAN, match : Nat]]
    /\ \A c \in Calls : call[c].pc \in ReportSteps => call[c].match \in DOMAIN matches
    /\ used \in [joins : Nat, faults : Nat]
    /\ doubled \in BOOLEAN /\ contested \in BOOLEAN

Init ==
    /\ live = TRUE
    /\ queue = <<>>
    /\ row = [u \in Users |-> "active"]
    /\ score = [u \in Users |-> 0] /\ points = [u \in Users |-> 0]
    /\ \/ matches = <<>>
       \/ \E a, b \in Users, s \in BootStatuses :
            a # b /\ matches = << [a |-> a, b |-> b, status |-> s, winner |-> None] >>
    /\ aged = {} /\ watch = {}
    /\ call = [c \in Calls |-> IdleCall]
    /\ used = [joins |-> 0, faults |-> 0]
    /\ doubled = FALSE /\ contested = FALSE

Go(c, pc) == call' = [call EXCEPT ![c].pc = pc]
End(c)    == call' = [call EXCEPT ![c] = IdleCall]

-----------------------------------------------------------------------------
(* enqueueForMatchmaking                                                   *)

\* LREM with count 0: every occurrence of u leaves q, the others keep their order.
Without(q, u) ==
    LET kept == {i \in DOMAIN q : q[i] # u}
        Nth(n) == CHOOSE i \in kept : Cardinality({j \in kept : j <= i}) = n
    IN  [n \in 1 .. Cardinality(kept) |-> q[Nth(n)]]

Enqueue(c, u) ==
    /\ call[c].pc = "idle" /\ used.joins < MaxJoins
    /\ live /\ row[u] = "active"
    /\ call' = [call EXCEPT ![c] = [IdleCall EXCEPT !.pc = "remove", !.user = u]]
    /\ used' = [used EXCEPT !.joins = @ + 1]
    /\ doubled' = (doubled \/ \E d \in Calls :
                        call[d].user = u /\ call[d].pc \in {"remove", "push"})
    /\ UNCHANGED <<live, queue, players, matches, aged, watch, contested>>

\* Mutant of RemoveSelf: the list is not searched for the player.
KeepSelf(c) ==
    /\ call[c].pc = "remove"
    /\ Go(c, "push")
    /\ UNCHANGED <<live, queue, players, matches, aged, watch, used, doubled, contested>>

RemoveSelf(c) ==
    /\ call[c].pc = "remove"
    /\ queue' = Without(queue, call[c].user)
    /\ Go(c, "push")
    /\ UNCHANGED <<live, players, matches, aged, watch, used, doubled, contested>>

Push(c) ==
    /\ call[c].pc = "push"
    /\ queue' = <<call[c].user>> \o queue
    /\ Go(c, "peek")
    /\ UNCHANGED <<live, players, matches, aged, watch, used, doubled, contested>>

-----------------------------------------------------------------------------
(* processMatchmaking, by the same request                                 *)

\* Mutant of Peek: a pair is left when nobody else waits with it.
PeekThree(c) ==
    /\ call[c].pc = "peek"
    /\ IF Len(queue) < 3
       THEN End(c)
       ELSE call' = [call EXCEPT ![c].pc = "checkA", ![c].a = queue[1], ![c].b = queue[2]]
    /\ UNCHANGED <<live, queue, players, matches, aged, watch, used, doubled, contested>>

Peek(c) ==
    /\ call[c].pc = "peek"
    /\ IF Len(queue) < 2
       THEN End(c)
       ELSE call' = [call EXCEPT ![c].pc = "checkA", ![c].a = queue[1], ![c].b = queue[2]]
    /\ UNCHANGED <<live, queue, players, matches, aged, watch, used, doubled, contested>>

CheckA(c) ==
    /\ call[c].pc = "checkA"
    /\ call' = [call EXCEPT ![c].pc = "checkB", ![c].ok = (row[call[c].a] = "active")]
    /\ UNCHANGED <<live, queue, players, matches, aged, watch, used, doubled, contested>>

\* Of the two the first that is not active is dropped; a is the one to drop then.
CheckB(c) ==
    /\ call[c].pc = "checkB"
    /\ call' = CASE ~ call[c].ok -> [call EXCEPT ![c].pc = "drop"]
                 [] call[c].ok /\ row[call[c].b] # "active" ->
                        [call EXCEPT ![c].pc = "drop", ![c].a = call[c].b]
                 [] OTHER -> [call EXCEPT ![c].pc = "takeA"]
    /\ UNCHANGED <<live, queue, players, matches, aged, watch, used, doubled, contested>>

Drop(c) ==
    /\ call[c].pc = "drop"
    /\ queue' = Without(queue, call[c].a)
    /\ Go(c, "peek")
    /\ UNCHANGED <<live, players, matches, aged, watch, used, doubled, contested>>

TakeA(c) ==
    /\ call[c].pc = "takeA"
    /\ queue' = Without(queue, call[c].a)
    /\ Go(c, "takeB")
    /\ UNCHANGED <<live, players, matches, aged, watch, used, doubled, contested>>

TakeB(c) ==
    /\ call[c].pc = "takeB"
    /\ queue' = Without(queue, call[c].b)
    /\ Go(c, "pair")
    /\ UNCHANGED <<live, players, matches, aged, watch, used, doubled, contested>>

\* Whatever the removals found, and whatever became of the tournament.
Pair(c) ==
    /\ call[c].pc = "pair"
    /\ matches' = Append(matches, [a |-> call[c].a, b |-> call[c].b,
                                   status |-> "PENDING", winner |-> None])
    /\ Go(c, "peek")
    /\ UNCHANGED <<live, queue, players, aged, watch, used, doubled, contested>>

-----------------------------------------------------------------------------
(* reportMatchResult: the reporter is a participant, the winner is "user".  *)

\* Mutant of ReadMatch: a finished match may be reported again.
ReadAnyMatch(c, m, winner) ==
    /\ call[c].pc = "idle"
    /\ winner \in {matches[m].a, matches[m].b}
    /\ call' = [call EXCEPT ![c] =
                    [IdleCall EXCEPT !.pc = "write", !.user = winner, !.match = m]]
    /\ contested' = (contested \/ \E d \in Calls :
                        call[d].pc \in ReportSteps /\ call[d].match = m)
    /\ UNCHANGED <<live, queue, players, matches, aged, watch, used, doubled>>

ReadMatch(c, m, winner) ==
    /\ call[c].pc = "idle"
    /\ matches[m].status # "FINISHED"
    /\ winner \in {matches[m].a, matches[m].b}
    /\ call' = [call EXCEPT ![c] =
                    [IdleCall EXCEPT !.pc = "write", !.user = winner, !.match = m]]
    /\ contested' = (contested \/ \E d \in Calls :
                        call[d].pc \in ReportSteps /\ call[d].match = m)
    /\ UNCHANGED <<live, queue, players, matches, aged, watch, used, doubled>>

\* Mutant of Finish: a status the schema does not have.
FinishAsWon(m, winner) ==
    matches' = [matches EXCEPT ![m].status = "WON", ![m].winner = winner]

Finish(m, winner) ==
    matches' = [matches EXCEPT ![m].status = "FINISHED", ![m].winner = winner]

WriteResult(c) ==
    /\ call[c].pc = "write"
    /\ Finish(call[c].match, call[c].user)
    /\ Go(c, "count")
    /\ UNCHANGED <<live, queue, players, aged, watch, used, doubled, contested>>

Loser(c) ==
    LET m == matches[call[c].match] IN IF call[c].user = m.a THEN m.b ELSE m.a

\* One transaction, which rolls back when a row is gone.
CountResult(c) ==
    LET winner == call[c].user  loser == Loser(c) IN
    /\ call[c].pc = "count"
    /\ IF "gone" \in {row[winner], row[loser]}
       THEN End(c) /\ UNCHANGED <<row, score>>
       ELSE /\ score' = [score EXCEPT ![winner] = @ + 1]
            /\ row' = [row EXCEPT ![loser] = "eliminated"]
            /\ Go(c, "award")
    /\ UNCHANGED <<live, queue, points, matches, aged, watch, used, doubled, contested>>

\* addLeaderboardPoints is not exported by the leaderboard service: the call throws.
Award(c) ==
    /\ call[c].pc = "award"
    /\ End(c)
    /\ UNCHANGED <<live, queue, players, matches, aged, watch, used, doubled, contested>>

Fault(c) ==
    /\ call[c].pc # "idle" /\ used.faults < MaxFaults
    /\ used' = [used EXCEPT !.faults = @ + 1]
    /\ End(c)
    /\ UNCHANGED <<live, queue, players, matches, aged, watch, doubled, contested>>

-----------------------------------------------------------------------------
(* What the rest of the service does to players and matches.               *)

\* The completion of the tournament finishes every open match in one transaction.
Complete ==
    /\ live
    /\ live' = FALSE
    /\ matches' = [m \in DOMAIN matches |-> [matches[m] EXCEPT !.status = "FINISHED"]]
    /\ UNCHANGED <<queue, players, aged, watch, call, used, doubled, contested>>

LeaveLate(u) ==
    /\ row[u] # "gone"
    /\ row' = [row EXCEPT ![u] = "gone"]
    /\ score' = [score EXCEPT ![u] = 0]
    /\ UNCHANGED <<live, queue, points, matches, aged, watch, call, used, doubled, contested>>

\* Only the watchdog looks at the age, and only of these.
Age(m) ==
    /\ m \notin aged /\ matches[m].status = "IN_PROGRESS"
    /\ aged' = aged \cup {m}
    /\ UNCHANGED <<live, queue, players, matches, watch, call, used, doubled, contested>>

\* resolveTimedOutMatches looks for matches IN_PROGRESS, then writes one by one.
WatchFind ==
    LET found == {m \in aged : matches[m].status = "IN_PROGRESS"} IN
    /\ watch = {} /\ found # {}
    /\ watch' = found
    /\ UNCHANGED <<live, queue, players, matches, aged, call, used, doubled, contested>>

WatchWrite(m) ==
    /\ m \in watch
    /\ watch' = watch \ {m}
    /\ \E winner \in {matches[m].a, matches[m].b} : Finish(m, winner)
    /\ contested' = (contested \/ matches[m].status = "FINISHED")
    /\ UNCHANGED <<live, queue, players, aged, call, used, doubled>>

Watch == WatchFind \/ \E m \in watch : WatchWrite(m)

-----------------------------------------------------------------------------

JoinStep(c) ==
    \/ RemoveSelf(c) \/ Push(c) \/ Peek(c) \/ CheckA(c) \/ CheckB(c) \/ Drop(c)
    \/ TakeA(c) \/ TakeB(c) \/ Pair(c)
ReportStep(c) == WriteResult(c) \/ CountResult(c) \/ Award(c)

Next ==
    \/ \E c \in Calls, u \in Users : Enqueue(c, u)
    \/ \E c \in Calls, m \in DOMAIN matches, u \in Users : ReadMatch(c, m, u)
    \/ \E c \in Calls : JoinStep(c) \/ ReportStep(c) \/ Fault(c)
    \/ \E m \in DOMAIN matches : Age(m)
    \/ \E u \in LateLeavers : LeaveLate(u)
    \/ Complete \/ Watch

Spec == Init /\ [][Next]_vars

-----------------------------------------------------------------------------
(* Properties.                                                             *)

\* As long as nobody enters the queue twice at once, nobody is in the list twice
\* and nobody is matched with themselves, although pairing never compares the two.
NoSelfMatch ==
    doubled \/ /\ IsInjective(queue)
               /\ \A m \in DOMAIN matches : matches[m].a # matches[m].b

\* Two players do not sit in the list with no request at work to pair them: the
\* request that ends saw less than two, and one that pushed later is still there.
NoPairLeftWaiting ==
    used.faults > 0 \/ (Len(queue) >= 2 => \E c \in Calls : call[c].pc \in JoinSteps)

\* Standings agree with the matches unless two writers finished the same match:
\* a score counts matches won, and who is out has lost one.
StandingsAgree ==
    contested \/ \A u \in Users :
        /\ score[u] <= Cardinality({m \in DOMAIN matches :
                            matches[m].status = "FINISHED" /\ matches[m].winner = u})
        /\ row[u] = "eliminated" => \E m \in DOMAIN matches :
                /\ matches[m].status = "FINISHED" /\ matches[m].winner # None
                /\ u \in {matches[m].a, matches[m].b}
                /\ matches[m].winner # u \/ matches[m].a = matches[m].b
=============================================================================
