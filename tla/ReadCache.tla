----------------------------- MODULE ReadCache ------------------------------
(***************************************************************************)
(* The read-through caches: a tournament page (getTournament), the pages   *)
(* of the marketplace (getListings) and the top of a leaderboard (getTop), *)
(* each a Redis key with a time to live.  A reader that misses runs its    *)
(* statements and stores the answer; a writer changes its table, then asks *)
(* for the keys of a pattern, then deletes the keys it was told of.        *)
(*                                                                         *)
(* An answer is abstracted to the version of the table that each of its    *)
(* statements has seen.                                                    *)
(***************************************************************************)
EXTENDS Naturals

CONSTANTS
    Tournaments,    \* the keys tournament:<id>
    Pages,          \* the keys marketplace:listings:<status>:<page>:<size>
    Tops,           \* the keys leaderboard:cache:<period>:top<n>
    Readers,        \* requests that read
    Writers,        \* requests that write
    MaxWrites,      \* bound: writes
    MaxFaults,      \* bound: Redis or database calls that fail
    None            \* no key, no table, no answer

Keys   == Tournaments \cup Pages \cup Tops
Tables == Tournaments \cup {"listings", "board"}

Table(k) == IF k \in Tournaments THEN k ELSE IF k \in Pages THEN "listings" ELSE "board"

\* The statements behind an answer.
Statements(k) == IF k \in Tournaments THEN {"row"}
                 ELSE IF k \in Pages THEN {"items", "total"} ELSE {"entries", "names"}
AllStatements == {"row", "items", "total", "entries", "names"}

Versions == 0 .. MaxWrites
Answers  == UNION {[S -> Versions] : S \in SUBSET AllStatements}

ASSUME CacheAssumption ==
    /\ MaxWrites \in Nat /\ MaxFaults \in Nat
    /\ None \notin Keys \cup Tables \cup Answers
    /\ Tournaments \cap (Pages \cup Tops) = {} /\ Pages \cap Tops = {}
    /\ Tournaments \cap {"listings", "board"} = {}

VARIABLES
    version,    \* of each table
    cache,      \* what each key holds
    expiring,   \* keys that were stored with EX
    reader,     \* what each reading request does: its key and what it has seen
    writer,     \* what each writing request does: its table and the keys found
    left,       \* history: keys whose answer no invalidation will look for
    writes,     \* writes made
    faults      \* calls that failed

vars == <<version, cache, expiring, reader, writer, left, writes, faults>>

IdleReader == [key |-> None, seen |-> [s \in {} |-> 0], passed |-> FALSE]
IdleWriter == [pc |-> "idle", table |-> None, found |-> {}]

TypeOK ==
    /\ version \in [Tables -> Versions]
    /\ cache \in [Keys -> Answers \cup {None}]
    /\ \A k \in Keys : cache[k] # None => DOMAIN cache[k] = Statements(k)
    /\ expiring = {k \in Keys : cache[k] # None}
    /\ left \subseteq expiring
    /\ reader \in [Readers -> [key : Keys \cup {None}, seen : Answers, passed : BOOLEAN]]
    /\ writer \in [Writers -> [pc : {"idle", "keys", "del"}, table : Tables \cup {None},
                               found : SUBSET Keys]]
    /\ writes \in 0 .. MaxWrites /\ faults \in 0 .. MaxFaults
    /\ \A t \in Tables : version[t] <= writes

Init ==
    /\ version = [t \in Tables |-> 0]
    /\ cache = [k \in Keys |-> None]
    /\ expiring = {} /\ left = {}
    /\ reader = [r \in Readers |-> IdleReader]
    /\ writer = [w \in Writers |-> IdleWriter]
    /\ writes = 0 /\ faults = 0

\* An answer for k that some statement took from an older version.
Old(k, answer) == \E s \in DOMAIN answer : answer[s] # version[Table(k)]
Stale(k)       == cache[k] # None /\ Old(k, cache[k])

-----------------------------------------------------------------------------
(* Readers.  A hit changes nothing; an error ends the request.             *)

GetMiss(r, k) ==
    /\ reader[r].key = None
    /\ cache[k] = None
    /\ reader' = [reader EXCEPT ![r].key = k]
    /\ UNCHANGED <<version, cache, expiring, writer, left, writes, faults>>

See(r, s) ==
    /\ s \notin DOMAIN reader[r].seen
    /\ reader' = [reader EXCEPT ![r].seen =
            [x \in DOMAIN @ \cup {s} |->
                IF x = s THEN version[Table(reader[r].key)] ELSE @[x]]]
    /\ UNCHANGED <<version, cache, expiring, writer, left, writes, faults>>

ReadTournament(r) == reader[r].key \in Tournaments /\ See(r, "row")

\* Promise.all: in either order.
ReadListings(r) ==
    /\ reader[r].key \in Pages
    /\ \E s \in {"items", "total"} : See(r, s)

ReadTop(r) ==
    /\ reader[r].key \in Tops
    /\ \/ See(r, "entries")
       \/ "entries" \in DOMAIN reader[r].seen /\ See(r, "names")

\* Mutant of Fill: a statement is not waited for.
FillEarly(r) ==
    LET k == reader[r].key IN
    /\ k # None
    /\ cache' = [cache EXCEPT ![k] = reader[r].seen]
    /\ expiring' = expiring \cup {k}
    /\ left' = IF reader[r].passed THEN left \cup {k} ELSE left \ {k}
    /\ reader' = [reader EXCEPT ![r] = IdleReader]
    /\ UNCHANGED <<version, writer, writes, faults>>

\* Mutant of Fill: SET without EX.
FillForGood(r) ==
    LET k == reader[r].key IN
    /\ k # None
    /\ DOMAIN reader[r].seen = Statements(k)
    /\ cache' = [cache EXCEPT ![k] = reader[r].seen]
    /\ left' = IF reader[r].passed THEN left \cup {k} ELSE left \ {k}
    /\ reader' = [reader EXCEPT ![r] = IdleReader]
    /\ UNCHANGED <<version, expiring, writer, writes, faults>>

\* SET ... EX, whatever the key holds by now.
Fill(r) ==
    LET k == reader[r].key IN
    /\ k # None
    /\ DOMAIN reader[r].seen = Statements(k)
    /\ cache' = [cache EXCEPT ![k] = reader[r].seen]
    /\ expiring' = expiring \cup {k}
    /\ left' = IF reader[r].passed THEN left \cup {k} ELSE left \ {k}
    /\ reader' = [reader EXCEPT ![r] = IdleReader]
    /\ UNCHANGED <<version, writer, writes, faults>>

-----------------------------------------------------------------------------
(* Writers                                                                 *)

\* The readers of table t that hold an older version.
Behind(r, t) == /\ reader[r].key # None /\ Table(reader[r].key) = t
                /\ Old(reader[r].key, reader[r].seen)
Pass(t) == reader' = [r \in Readers |->
                        IF Behind(r, t) THEN [reader[r] EXCEPT !.passed = TRUE] ELSE reader[r]]

Write(w, t) ==
    /\ writer[w].pc = "idle"
    /\ writes < MaxWrites
    /\ writes' = writes + 1
    /\ version' = [version EXCEPT ![t] = @ + 1]
    /\ writer' = [writer EXCEPT ![w] = [pc |-> "keys", table |-> t, found |-> {}]]
    /\ UNCHANGED <<cache, expiring, reader, left, faults>>

\* updateTournament; the writes of startTournament and completeTournament.
WriteTournament(w) == \E t \in Tournaments : Write(w, t)

\* listAsset; the writes of cancelListing and purchaseListing.
WriteListings(w) == Pages # {} /\ Write(w, "listings")

AddPoints(w) == Tops # {} /\ Write(w, "board")

Matching(t) == {k \in Keys : Table(k) = t /\ cache[k] # None}

\* Mutant of FindKeys: one key is enough.
FindOneKey(w) ==
    LET t == writer[w].table IN
    /\ writer[w].pc = "keys"
    /\ writer' = [writer EXCEPT ![w] =
            IF Matching(t) = {} THEN IdleWriter
            ELSE [pc |-> "del", table |-> t, found |-> {CHOOSE k \in Matching(t) : TRUE}]]
    /\ Pass(t)
    /\ UNCHANGED <<version, cache, expiring, left, writes, faults>>

\* KEYS pattern
FindKeys(w) ==
    LET t == writer[w].table IN
    /\ writer[w].pc = "keys"
    /\ writer' = [writer EXCEPT ![w] =
            IF Matching(t) = {} THEN IdleWriter
            ELSE [pc |-> "del", table |-> t, found |-> Matching(t)]]
    /\ Pass(t)
    /\ UNCHANGED <<version, cache, expiring, left, writes, faults>>

\* DEL, whatever the keys hold by now.
DeleteKeys(w) ==
    /\ writer[w].pc = "del"
    /\ cache' = [k \in Keys |-> IF k \in writer[w].found THEN None ELSE cache[k]]
    /\ expiring' = expiring \ writer[w].found
    /\ left' = left \ writer[w].found
    /\ writer' = [writer EXCEPT ![w] = IdleWriter]
    /\ UNCHANGED <<version, reader, writes, faults>>

-----------------------------------------------------------------------------
(* Writes that invalidate nothing, failures, time.                         *)

\* Everybody who holds an answer from one of the tables T is left with it.
Leave(T) ==
    /\ left' = left \cup {k \in Keys : cache[k] # None /\ Table(k) \in T}
    /\ reader' = [r \in Readers |->
            IF \E t \in T : Table(reader[r].key) = t /\ DOMAIN reader[r].seen # {}
            THEN [reader[r] EXCEPT !.passed = TRUE] ELSE reader[r]]

\* cancelTournament, joinTournament, leaveTournament, and the scores and
\* eliminations that reportMatchResult writes.
SilentWrite(t) ==
    /\ writes < MaxWrites
    /\ writes' = writes + 1
    /\ version' = [version EXCEPT ![t] = @ + 1]
    /\ Leave({t})
    /\ UNCHANGED <<cache, expiring, writer, faults>>

\* A user name is in the players, the sellers and the entries.
UpdateProfile ==
    /\ writes < MaxWrites
    /\ writes' = writes + 1
    /\ version' = [t \in Tables |-> version[t] + 1]
    /\ Leave(Tables)
    /\ UNCHANGED <<cache, expiring, writer, faults>>

ReaderFault(r) ==
    /\ reader[r].key # None
    /\ faults < MaxFaults
    /\ faults' = faults + 1
    /\ reader' = [reader EXCEPT ![r] = IdleReader]
    /\ UNCHANGED <<version, cache, expiring, writer, left, writes>>

\* The invalidation fails, or the process dies, after the write.
WriterFault(w) ==
    LET t == writer[w].table IN
    /\ writer[w].pc # "idle"
    /\ faults < MaxFaults
    /\ faults' = faults + 1
    /\ IF writer[w].pc = "keys"
       THEN Pass(t) /\ left' = left \cup {k \in Keys : Table(k) = t /\ Stale(k)}
       ELSE left' = left \cup {k \in writer[w].found : Stale(k)} /\ UNCHANGED reader
    /\ writer' = [writer EXCEPT ![w] = IdleWriter]
    /\ UNCHANGED <<version, cache, expiring, writes>>

Expire(k) ==
    /\ k \in expiring
    /\ cache' = [cache EXCEPT ![k] = None]
    /\ expiring' = expiring \ {k} /\ left' = left \ {k}
    /\ UNCHANGED <<version, reader, writer, writes, faults>>

ReaderStep(r) == ReadTournament(r) \/ ReadListings(r) \/ ReadTop(r) \/ Fill(r)
WriterStep(w) == FindKeys(w) \/ DeleteKeys(w)

Next ==
    \/ \E r \in Readers : \/ \E k \in Keys : GetMiss(r, k)
                          \/ ReaderStep(r)
                          \/ ReaderFault(r)
    \/ \E w \in Writers : \/ WriteTournament(w) \/ WriteListings(w) \/ AddPoints(w)
                          \/ WriterStep(w)
                          \/ WriterFault(w)
    \/ \E t \in Tournaments : SilentWrite(t)
    \/ UpdateProfile
    \/ \E k \in Keys : Expire(k)

\* Requests in flight go on, and Redis expires keys.
Fairness ==
    /\ \A r \in Readers : WF_vars(ReaderStep(r))
    /\ \A w \in Writers : WF_vars(WriterStep(w))
    /\ \A k \in Keys : WF_vars(Expire(k))

Spec     == Init /\ [][Next]_vars
FairSpec == Spec /\ Fairness

-----------------------------------------------------------------------------

\* Some writer has yet to look for k, or is about to delete it.
Pending(k) == \E w \in Writers : \/ writer[w].pc = "keys" /\ writer[w].table = Table(k)
                                 \/ writer[w].pc = "del" /\ k \in writer[w].found

\* A key holds an answer older than its table, or one put together from two
\* versions, only while an invalidation that will delete it is under way, or
\* after one of the cases the code leaves to the time to live: a fill that an
\* invalidation overtook (its KEYS came between the reader's statement and its
\* SET), a write that invalidates nothing, an invalidation that failed.
FreshUnlessLeft == \A k \in Keys : Stale(k) => Pending(k) \/ k \in left

\* Once writes stop, no key stays stale: whatever raced, the time to live of
\* every fill makes good for it.
EventuallyFresh == <>[](\A k \in Keys : ~Stale(k))

=============================================================================
