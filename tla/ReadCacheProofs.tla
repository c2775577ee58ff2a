-------------------------- MODULE ReadCacheProofs ---------------------------
(***************************************************************************)
(* What holds of ReadCache for any keys, readers, writers and bounds: a    *)
(* stale answer is about to be deleted, or is one of the cases the code    *)
(* leaves to the time to live.                                             *)
(***************************************************************************)
EXTENDS ReadCache, TLAPS

\* Somebody has yet to look for the keys of table t.
Looking(t) == \E w \in Writers : writer[w].pc = "keys" /\ writer[w].table = t

\* A reader that holds an older version, and has not been passed by, will
\* store it before somebody looks for its key.
ReadersCovered ==
    \A r \in Readers : /\ reader[r].key = None => DOMAIN reader[r].seen = {}
                       /\ reader[r].key # None /\ Old(reader[r].key, reader[r].seen)
                            => reader[r].passed \/ Looking(Table(reader[r].key))

Inv == ReadersCovered /\ FreshUnlessLeft

ReaderTypes == [Readers -> [key : Keys \cup {None}, seen : Answers, passed : BOOLEAN]]

\* The steps of Next, each with its own name.
LEMMA NextCases ==
    ASSUME Next
    PROVE  \/ \E r \in Readers, k \in Keys : GetMiss(r, k)
           \/ \E r \in Readers, s \in AllStatements : reader[r].key # None /\ See(r, s)
           \/ \E r \in Readers : Fill(r)
           \/ \E r \in Readers : ReaderFault(r)
           \/ \E w \in Writers, t \in Tables : Write(w, t)
           \/ \E w \in Writers : FindKeys(w)
           \/ \E w \in Writers : DeleteKeys(w)
           \/ \E w \in Writers : WriterFault(w)
           \/ \E t \in Tables : SilentWrite(t)
           \/ UpdateProfile
           \/ \E k \in Keys : Expire(k)
<1>1. ASSUME NEW r \in Readers, ReadTournament(r) \/ ReadListings(r) \/ ReadTop(r)
      PROVE  \E s \in AllStatements : reader[r].key # None /\ See(r, s)
  BY <1>1, CacheAssumption
     DEF CacheAssumption, ReadTournament, ReadListings, ReadTop, AllStatements, Keys
<1>2. ASSUME NEW w \in Writers, WriteTournament(w) \/ WriteListings(w) \/ AddPoints(w)
      PROVE  \E t \in Tables : Write(w, t)
  BY <1>2, Zenon DEF WriteTournament, WriteListings, AddPoints, Tables
<1>3. ASSUME NEW t \in Tournaments, SilentWrite(t)
      PROVE  \E u \in Tables : SilentWrite(u)
  BY <1>3, Zenon DEF Tables
<1>4. QED
  BY <1>1, <1>2, <1>3, Zenon DEF Next, ReaderStep, WriterStep

\* A key, and a reader's, belongs to a table.
LEMMA TableType == ASSUME NEW k PROVE Table(k) \in Tables
  BY DEF Table, Tables, Keys

-----------------------------------------------------------------------------
(* Types                                                                   *)

LEMMA EmptyAnswer == [s \in {} |-> 0] \in Answers
<1>1. {} \in SUBSET AllStatements /\ [s \in {} |-> 0] \in [{} -> Versions]
  OBVIOUS
<1>2. QED
  BY <1>1, Zenon DEF Answers

\* Taking a version of one more statement gives an answer.
LEMMA MoreSeen ==
    ASSUME NEW a \in Answers, NEW s \in AllStatements, NEW v \in Versions
    PROVE  [x \in DOMAIN a \cup {s} |-> IF x = s THEN v ELSE a[x]] \in Answers
<1>1. PICK S \in SUBSET AllStatements : a \in [S -> Versions]
  BY Zenon DEF Answers
<1>2. S \cup {s} \in SUBSET AllStatements
  OBVIOUS
<1>3. [x \in DOMAIN a \cup {s} |-> IF x = s THEN v ELSE a[x]] \in [S \cup {s} -> Versions]
  BY <1>1
<1>4. QED
  BY <1>2, <1>3, Zenon DEF Answers

LEMMA InitType == Init => TypeOK
  BY CacheAssumption, EmptyAnswer
     DEF CacheAssumption, Init, TypeOK, IdleReader, IdleWriter, Versions

LEMMA TypeInvariance == TypeOK /\ [Next]_vars => TypeOK'
<1> SUFFICES ASSUME TypeOK, [Next]_vars PROVE TypeOK'
  OBVIOUS
<1> USE CacheAssumption DEF CacheAssumption
<1>1. ASSUME NEW r \in Readers, NEW k \in Keys, GetMiss(r, k) PROVE TypeOK'
  BY <1>1 DEF GetMiss, TypeOK
<1>2. ASSUME NEW r \in Readers, NEW s \in AllStatements, reader[r].key # None, See(r, s)
      PROVE  TypeOK'
  <2> DEFINE t == Table(reader[r].key)
             new == [x \in DOMAIN reader[r].seen \cup {s} |->
                        IF x = s THEN version[t] ELSE reader[r].seen[x]]
  <2>1. reader' = [reader EXCEPT ![r].seen = new]
    BY <1>2 DEF See
  <2>2. version[t] \in Versions /\ reader[r].seen \in Answers
    BY TableType DEF TypeOK
  <2>3. new \in Answers
    BY <2>2, MoreSeen
  <2> HIDE DEF new
  <2>4. reader' \in [Readers -> [key : Keys \cup {None}, seen : Answers, passed : BOOLEAN]]
    BY <2>1, <2>3 DEF TypeOK
  <2>5. QED
    BY <1>2, <2>4 DEF See, TypeOK
<1>3. ASSUME NEW r \in Readers, Fill(r) PROVE TypeOK'
  <2> DEFINE k == reader[r].key
  <2>1. k \in Keys /\ reader[r].seen \in Answers /\ DOMAIN reader[r].seen = Statements(k)
    BY <1>3 DEF Fill, TypeOK
  <2>2. cache' = [cache EXCEPT ![k] = reader[r].seen] /\ expiring' = expiring \cup {k}
    BY <1>3 DEF Fill
  <2>3. left' = left \cup {k} \/ left' = left \ {k}
    BY <1>3, Zenon DEF Fill
  <2>4. reader[r].seen # None
    BY <2>1
  <2>5. QED
    BY <1>3, <2>1, <2>2, <2>3, EmptyAnswer DEF Fill, TypeOK, IdleReader
<1>4. ASSUME NEW r \in Readers, ReaderFault(r) PROVE TypeOK'
  BY <1>4, EmptyAnswer DEF ReaderFault, TypeOK, IdleReader
<1>5. ASSUME NEW w \in Writers, NEW t \in Tables, Write(w, t) PROVE TypeOK'
  BY <1>5 DEF Write, TypeOK, Versions
<1>6. ASSUME NEW w \in Writers, FindKeys(w) PROVE TypeOK'
  BY <1>6 DEF FindKeys, Pass, Matching, TypeOK, IdleWriter
<1>7. ASSUME NEW w \in Writers, DeleteKeys(w) PROVE TypeOK'
  BY <1>7 DEF DeleteKeys, TypeOK, IdleWriter
<1>8. ASSUME NEW w \in Writers, WriterFault(w) PROVE TypeOK'
  <2>1. writer' \in [Writers -> [pc : {"idle", "keys", "del"}, table : Tables \cup {None},
                                 found : SUBSET Keys]]
    BY <1>8 DEF WriterFault, TypeOK, IdleWriter
  <2>2. left' \subseteq expiring
    <3>1. \A k \in Keys : Stale(k) => k \in expiring
      BY DEF Stale, TypeOK
    <3>2. writer[w].found \subseteq Keys /\ left \subseteq expiring
      BY DEF TypeOK
    <3>3. QED
      BY <1>8, <3>1, <3>2 DEF WriterFault
  <2>3. reader' \in ReaderTypes
    <3>1. CASE Pass(writer[w].table)
      BY <3>1 DEF Pass, TypeOK, ReaderTypes
    <3>2. CASE UNCHANGED reader
      BY <3>2 DEF TypeOK, ReaderTypes
    <3>3. QED
      BY <1>8, <3>1, <3>2, Zenon DEF WriterFault
  <2>4. faults' \in 0 .. MaxFaults
    BY <1>8 DEF WriterFault, TypeOK
  <2>5. QED
    BY <1>8, <2>1, <2>2, <2>3, <2>4 DEF WriterFault, TypeOK, ReaderTypes
<1>9. ASSUME NEW t \in Tables, SilentWrite(t) PROVE TypeOK'
  <2>1. reader' \in [Readers -> [key : Keys \cup {None}, seen : Answers, passed : BOOLEAN]]
    BY <1>9 DEF SilentWrite, Leave, TypeOK
  <2>2. left' \subseteq expiring
    BY <1>9 DEF SilentWrite, Leave, TypeOK
  <2>3. /\ writes' \in 0 .. MaxWrites /\ version' \in [Tables -> Versions]
        /\ \A u \in Tables : version'[u] <= writes'
    BY <1>9 DEF SilentWrite, TypeOK, Versions
  <2>4. QED
    BY <1>9, <2>1, <2>2, <2>3 DEF SilentWrite, TypeOK
<1>10. CASE UpdateProfile
  <2>1. reader' \in [Readers -> [key : Keys \cup {None}, seen : Answers, passed : BOOLEAN]]
    BY <1>10 DEF UpdateProfile, Leave, TypeOK
  <2>2. left' \subseteq expiring
    BY <1>10 DEF UpdateProfile, Leave, TypeOK
  <2>3. /\ writes' \in 0 .. MaxWrites /\ version' \in [Tables -> Versions]
        /\ \A u \in Tables : version'[u] <= writes'
    BY <1>10 DEF UpdateProfile, TypeOK, Versions
  <2>4. QED
    BY <1>10, <2>1, <2>2, <2>3 DEF UpdateProfile, TypeOK
<1>11. ASSUME NEW k \in Keys, Expire(k) PROVE TypeOK'
  BY <1>11 DEF Expire, TypeOK
<1>12. CASE UNCHANGED vars
  BY <1>12 DEF vars, TypeOK
<1>13. QED
  BY NextCases, <1>1, <1>2, <1>3, <1>4, <1>5, <1>6, <1>7, <1>8, <1>9, <1>10, <1>11, <1>12, Zenon

\* The state of the caches keeps its type: in particular every answer is whole
\* and has a time to live.
THEOREM TypeCorrect == Spec => []TypeOK
  BY InitType, TypeInvariance, PTL DEF Spec

-----------------------------------------------------------------------------
(* Freshness                                                               *)

LEMMA InitInv == Init => Inv
  BY DEF Init, Inv, ReadersCovered, FreshUnlessLeft, Stale, IdleReader

\* What a reader has seen stays what it is, and so does a key.
LEMMA SeeMore ==
    ASSUME TypeOK, NEW r \in Readers, NEW s \in AllStatements,
           reader[r].key # None, See(r, s), Old(reader[r].key, reader[r].seen)'
    PROVE  Old(reader[r].key, reader[r].seen) /\ reader'[r].passed = reader[r].passed
BY DEF See, Old, TypeOK

\* A write that invalidates nothing is paid for by all who hold an answer.
LEMMA Leaving ==
    ASSUME TypeOK, Inv, NEW T \in SUBSET Tables, Leave(T),
           \A u \in Tables \ T : version'[u] = version[u],
           cache' = cache, writer' = writer
    PROVE  Inv'
<1> USE TableType DEF TypeOK
<1>1. \A r \in Readers : /\ reader'[r].key = reader[r].key
                         /\ reader'[r].seen = reader[r].seen
                         /\ reader[r].passed => reader'[r].passed
                         /\ (Table(reader[r].key) \in T /\ DOMAIN reader[r].seen # {})
                                => reader'[r].passed
  BY DEF Leave
<1>2. ReadersCovered'
  BY <1>1 DEF Inv, ReadersCovered, Old, Looking
<1>3. ASSUME NEW k \in Keys, Stale(k)' PROVE Pending(k)' \/ k \in left'
  <2>1. CASE Table(k) \in T
    BY <1>3, <2>1 DEF Leave, Stale
  <2>2. CASE Table(k) \notin T
    BY <1>3, <2>2 DEF Inv, FreshUnlessLeft, Leave, Stale, Old, Pending
  <2>3. QED
    BY <2>1, <2>2
<1>4. QED
  BY <1>2, <1>3 DEF Inv, FreshUnlessLeft

LEMMA Freshness == TypeOK /\ Inv /\ [Next]_vars => Inv'
<1> SUFFICES ASSUME TypeOK, Inv, [Next]_vars PROVE Inv'
  OBVIOUS
<1> USE TableType DEF TypeOK
<1>a. /\ \A r \in Readers : reader[r].key = None => DOMAIN reader[r].seen = {}
      /\ \A r \in Readers : reader[r].key # None /\ Old(reader[r].key, reader[r].seen)
                            => reader[r].passed \/ Looking(Table(reader[r].key))
  BY DEF Inv, ReadersCovered
<1>b. \A k \in Keys : Stale(k) => Pending(k) \/ k \in left
  BY DEF Inv, FreshUnlessLeft
<1>1. ASSUME NEW r \in Readers, NEW k \in Keys, GetMiss(r, k) PROVE Inv'
  BY <1>1, <1>a, <1>b
     DEF GetMiss, Inv, ReadersCovered, FreshUnlessLeft, Stale, Old, Pending, Looking
<1>2. ASSUME NEW r \in Readers, NEW s \in AllStatements, reader[r].key # None, See(r, s)
      PROVE  Inv'
  <2>1. FreshUnlessLeft'
    BY <1>2, <1>b DEF See, FreshUnlessLeft, Stale, Old, Pending
  <2>2. \A q \in Readers \ {r} : reader'[q] = reader[q]
    BY <1>2 DEF See
  <2>3. reader'[r].key = reader[r].key
    BY <1>2 DEF See
  <2>4. version' = version /\ writer' = writer
    BY <1>2 DEF See
  <2>5. Old(reader[r].key, reader[r].seen)' =>
            Old(reader[r].key, reader[r].seen) /\ reader'[r].passed = reader[r].passed
    BY <1>2, SeeMore
  <2>6. ReadersCovered'
    BY <1>2, <1>a, <2>2, <2>3, <2>4, <2>5 DEF ReadersCovered, Old, Looking
  <2>7. QED
    BY <2>1, <2>6 DEF Inv
<1>3. ASSUME NEW r \in Readers, Fill(r) PROVE Inv'
  <2> DEFINE k == reader[r].key
  <2>1. k \in Keys /\ Table(k) \in Tables /\ version' = version /\ writer' = writer
    BY <1>3 DEF Fill
  <2>2. \A q \in Readers \ {r} : reader'[q] = reader[q]
    BY <1>3 DEF Fill
  <2>3. reader'[r] = IdleReader
    BY <1>3 DEF Fill
  <2>4. ReadersCovered'
    BY <1>a, <2>1, <2>2, <2>3 DEF ReadersCovered, Old, Looking, IdleReader
  <2>5. cache'[k] = reader[r].seen /\ (reader[r].passed => k \in left')
    BY <1>3, <2>1 DEF Fill
  <2>6. \A j \in Keys \ {k} : cache'[j] = cache[j] /\ (j \in left => j \in left')
    BY <1>3 DEF Fill
  <2>7. ASSUME NEW j \in Keys, Stale(j)' PROVE Pending(j)' \/ j \in left'
    <3>1. CASE j = k
      BY <1>3, <1>a, <2>1, <2>5, <2>7, <3>1 DEF Fill, Stale, Old, Looking, Pending
    <3>2. CASE j # k
      BY <1>b, <2>1, <2>6, <2>7, <3>2 DEF Stale, Old, Pending
    <3>3. QED
      BY <3>1, <3>2
  <2>8. QED
    BY <2>4, <2>7 DEF Inv, FreshUnlessLeft
<1>4. ASSUME NEW r \in Readers, ReaderFault(r) PROVE Inv'
  <2>1. FreshUnlessLeft'
    BY <1>4, <1>b DEF ReaderFault, FreshUnlessLeft, Stale, Old, Pending
  <2>2. ReadersCovered'
    BY <1>4, <1>a DEF ReaderFault, ReadersCovered, Old, Looking, IdleReader
  <2>3. QED
    BY <2>1, <2>2 DEF Inv
<1>5. ASSUME NEW w \in Writers, NEW t \in Tables, Write(w, t) PROVE Inv'
  <2>1. /\ \A u \in Tables \ {t} : version'[u] = version[u]
        /\ cache' = cache /\ reader' = reader /\ left' = left
    BY <1>5 DEF Write
  <2>2. writer'[w].pc = "keys" /\ writer'[w].table = t
    BY <1>5 DEF Write
  <2>3. writer[w].pc = "idle" /\ \A v \in Writers \ {w} : writer'[v] = writer[v]
    BY <1>5 DEF Write
  <2>4. Looking(t)' /\ \A u \in Tables : Looking(u) => Looking(u)'
    BY <2>2, <2>3 DEF Looking
  <2>5. \A k \in Keys : Table(k) = t \/ Pending(k) => Pending(k)'
    BY <2>2, <2>3 DEF Pending
  <2>6. ReadersCovered'
    BY <1>a, <2>1, <2>4 DEF ReadersCovered, Old
  <2>7. FreshUnlessLeft'
    BY <1>b, <2>1, <2>5 DEF FreshUnlessLeft, Stale, Old
  <2>8. QED
    BY <2>6, <2>7 DEF Inv
<1>6. ASSUME NEW w \in Writers, FindKeys(w) PROVE Inv'
  <2> DEFINE t == writer[w].table
  <2>1. version' = version /\ cache' = cache /\ left' = left /\ writer[w].pc = "keys"
    BY <1>6 DEF FindKeys
  <2>2. \A v \in Writers \ {w} : writer'[v] = writer[v]
    BY <1>6 DEF FindKeys
  <2>3. \A k \in Matching(t) : writer'[w].pc = "del" /\ k \in writer'[w].found
    BY <1>6 DEF FindKeys
  <2>4. \A r \in Readers : /\ reader'[r].key = reader[r].key
                           /\ reader'[r].seen = reader[r].seen
                           /\ reader[r].passed => reader'[r].passed
                           /\ Behind(r, t) => reader'[r].passed
    BY <1>6 DEF FindKeys, Pass
  <2>5. \A u \in Tables : Looking(u) /\ u # t => Looking(u)'
    BY <2>1, <2>2 DEF Looking
  <2>6. ReadersCovered'
    BY <1>a, <2>1, <2>4, <2>5 DEF ReadersCovered, Old, Behind
  <2>7. ASSUME NEW k \in Keys, Stale(k)' PROVE Pending(k)' \/ k \in left'
    <3>1. Stale(k)
      BY <2>1, <2>7 DEF Stale, Old
    <3>2. CASE Table(k) = t
      BY <2>3, <3>1, <3>2 DEF Stale, Matching, Pending
    <3>3. CASE Table(k) # t
      BY <1>b, <2>1, <2>2, <3>1, <3>3 DEF Pending
    <3>4. QED
      BY <3>2, <3>3
  <2>8. QED
    BY <2>6, <2>7 DEF Inv, FreshUnlessLeft
<1>7. ASSUME NEW w \in Writers, DeleteKeys(w) PROVE Inv'
  <2>1. version' = version /\ reader' = reader /\ writer[w].pc = "del"
    BY <1>7 DEF DeleteKeys
  <2>2. \A v \in Writers \ {w} : writer'[v] = writer[v]
    BY <1>7 DEF DeleteKeys
  <2>3. /\ \A k \in Keys \cap writer[w].found : cache'[k] = None
        /\ \A k \in Keys \ writer[w].found : cache'[k] = cache[k]
        /\ left' = left \ writer[w].found
    BY <1>7 DEF DeleteKeys
  <2>4. \A u \in Tables : Looking(u) => Looking(u)'
    BY <2>1, <2>2 DEF Looking
  <2>5. ReadersCovered'
    BY <1>a, <2>1, <2>4 DEF ReadersCovered, Old
  <2>6. \A k \in Keys \ writer[w].found : Pending(k) => Pending(k)'
    BY <2>1, <2>2 DEF Pending
  <2>7. FreshUnlessLeft'
    BY <1>b, <2>1, <2>3, <2>6 DEF FreshUnlessLeft, Stale, Old
  <2>8. QED
    BY <2>5, <2>7 DEF Inv
<1>8. ASSUME NEW w \in Writers, WriterFault(w) PROVE Inv'
  <2> DEFINE t == writer[w].table
  <2>1. version' = version /\ cache' = cache /\ writer[w].pc # "idle"
    BY <1>8 DEF WriterFault
  <2>2. \A v \in Writers \ {w} : writer'[v] = writer[v]
    BY <1>8 DEF WriterFault
  <2>3. CASE writer[w].pc = "keys"
    <3>1. Pass(t) /\ left' = left \cup {k \in Keys : Table(k) = t /\ Stale(k)}
      BY <1>8, <2>3 DEF WriterFault
    <3>2. \A r \in Readers : /\ reader'[r].key = reader[r].key
                             /\ reader'[r].seen = reader[r].seen
                             /\ reader[r].passed => reader'[r].passed
                             /\ Behind(r, t) => reader'[r].passed
      BY <3>1 DEF Pass
    <3>3. \A u \in Tables : Looking(u) /\ u # t => Looking(u)'
      BY <2>2 DEF Looking
    <3>4. ReadersCovered'
      BY <1>a, <2>1, <3>2, <3>3 DEF ReadersCovered, Old, Behind
    <3>5. \A k \in Keys : Pending(k) => Pending(k)' \/ Table(k) = t
      BY <2>2, <2>3 DEF Pending
    <3>6. FreshUnlessLeft'
      BY <1>b, <2>1, <3>1, <3>5 DEF FreshUnlessLeft, Stale, Old
    <3>7. QED
      BY <3>4, <3>6 DEF Inv
  <2>4. CASE writer[w].pc = "del"
    <3>1. reader' = reader /\ left' = left \cup {k \in writer[w].found : Stale(k)}
      BY <1>8, <2>4 DEF WriterFault
    <3>2. \A u \in Tables : Looking(u) => Looking(u)'
      BY <2>2, <2>4 DEF Looking
    <3>3. ReadersCovered'
      BY <1>a, <2>1, <3>1, <3>2 DEF ReadersCovered, Old
    <3>4. \A k \in Keys : Pending(k) => Pending(k)' \/ k \in writer[w].found
      BY <2>2, <2>4 DEF Pending
    <3>5. FreshUnlessLeft'
      BY <1>b, <2>1, <3>1, <3>4 DEF FreshUnlessLeft, Stale, Old
    <3>6. QED
      BY <3>3, <3>5 DEF Inv
  <2>5. QED
    BY <2>1, <2>3, <2>4
<1>9. ASSUME NEW t \in Tables, SilentWrite(t) PROVE Inv'
  <2>1. Leave({t}) /\ cache' = cache /\ writer' = writer
    BY <1>9, Zenon DEF SilentWrite
  <2>2. \A u \in Tables \ {t} : version'[u] = version[u]
    BY <1>9 DEF SilentWrite
  <2>3. {t} \in SUBSET Tables
    OBVIOUS
  <2>4. QED
    BY <2>1, <2>2, <2>3, Leaving
<1>10. CASE UpdateProfile
  <2>1. Leave(Tables) /\ cache' = cache /\ writer' = writer
    BY <1>10, Zenon DEF UpdateProfile
  <2>2. QED
    BY <2>1, Leaving
<1>11. ASSUME NEW k \in Keys, Expire(k) PROVE Inv'
  <2>1. ReadersCovered'
    BY <1>11, <1>a DEF Expire, ReadersCovered, Old, Looking
  <2>2. FreshUnlessLeft'
    BY <1>11, <1>b DEF Expire, FreshUnlessLeft, Stale, Old, Pending
  <2>3. QED
    BY <2>1, <2>2 DEF Inv
<1>12. CASE UNCHANGED vars
  BY <1>12, <1>a, <1>b
     DEF vars, Inv, ReadersCovered, FreshUnlessLeft, Stale, Old, Pending, Looking
<1>13. QED
  BY NextCases, <1>1, <1>2, <1>3, <1>4, <1>5, <1>6, <1>7, <1>8, <1>9, <1>10, <1>11, <1>12, Zenon

\* A stale answer is about to be deleted, or an overtaken fill, a write that
\* invalidates nothing or a failed invalidation has left it to its time to
\* live, for any number of keys, readers and writers.
THEOREM Fresh == Spec => []FreshUnlessLeft
<1>1. Inv => FreshUnlessLeft
  BY DEF Inv
<1>2. QED
  BY <1>1, InitType, TypeInvariance, InitInv, Freshness, PTL DEF Spec

=============================================================================
