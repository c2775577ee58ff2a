-------------------------- MODULE RateLimitProofs ---------------------------
(* The limit holds for any limit and any number of requests and failures,  *)
(* and only a lost call keeps a counter from expiring.                     *)
EXTENDS RateLimit, TLAPS

\* While the first request of a window waits for its EXPIRE it is the only
\* one, the key has no time to live, and it is counted but not yet admitted;
\* a time to live belongs to a key that is there.
Waiting(r) == request[r] = "expire"

Inv ==
    /\ current \in Nat /\ admitted \in Nat
    /\ request \in [Requests -> {"idle", "expire"}]
    /\ ttl = "set" => current > 0 /\ \A r \in Requests : ~Waiting(r)
    /\ \A r, s \in Requests : Waiting(r) /\ Waiting(s) => r = s
    /\ (\E r \in Requests : Waiting(r)) => admitted + 1 <= current
    /\ admitted <= current
    /\ LimitKept

LEMMA InitInv == Init => Inv
  BY RateLimitAssumption DEF RateLimitAssumption, Init, Inv, Waiting, LimitKept

LEMMA Inductive == Inv /\ [Next]_vars => Inv'
<1> SUFFICES ASSUME Inv, [Next]_vars PROVE Inv'
  OBVIOUS
<1> USE RateLimitAssumption DEF RateLimitAssumption, Inv, Waiting, LimitKept
<1>1. ASSUME NEW r \in Requests, Incr(r) PROVE Inv'
  <2>1. CASE current = 0
    BY <1>1, <2>1 DEF Incr, Go
  <2>2. CASE current # 0
    BY <1>1, <2>2 DEF Incr, Decide
  <2>3. QED
    BY <2>1, <2>2
<1>2. ASSUME NEW r \in Requests, SetExpiry(r) PROVE Inv'
  BY <1>2 DEF SetExpiry, Go, Decide
<1>3. ASSUME NEW r \in Requests, IncrLost(r) PROVE Inv'
  BY <1>3 DEF IncrLost, Fail, Decide
<1>4. ASSUME NEW r \in Requests, ExpiryLost(r) PROVE Inv'
  <2>1. /\ Waiting(r) /\ request' = [request EXCEPT ![r] = "idle"]
        /\ admitted' = admitted \/ admitted' = admitted + 1
        /\ current' = current /\ ttl' = ttl
    BY <1>4, Zenon DEF ExpiryLost, Go
  <2>2. /\ admitted' \in Nat /\ admitted' <= current
        /\ admitted' <= MaxRequests
    BY <2>1
  <2>3. \A s \in Requests : ~Waiting(s)'
    BY <2>1
  <2>4. QED
    BY <2>1, <2>2, <2>3
<1>5. CASE WindowEnds
  BY <1>5 DEF WindowEnds
<1>6. CASE UNCHANGED vars
  BY <1>6 DEF vars
<1>7. QED
  BY <1>1, <1>2, <1>3, <1>4, <1>5, <1>6 DEF Next

\* At most MaxRequests requests of a window go through by its count, for any
\* limit, whatever interleaves, is lost or is sent twice.
THEOREM LimitHolds == Spec => []LimitKept
<1>1. Inv => LimitKept
  BY DEF Inv
<1>2. QED
  BY <1>1, InitInv, Inductive, PTL DEF Spec

\* A counter without a time to live has a request on its way to EXPIRE, or has
\* lost its EXPIRE: what makes a lockout end, but for the fairness.
Expiring ==
    /\ request \in [Requests -> {"idle", "expire"}]
    /\ current > 0 => ttl = "set" \/ orphaned \/ \E r \in Requests : Waiting(r)

\* A client stays locked out only after a call to Redis was lost: as long as
\* none is, every counter gets its time to live.
THEOREM OnlyLossLocksOut == Spec => []Expiring
<1>1. Init => Expiring
  BY DEF Init, Expiring
<1>2. Inv /\ Expiring /\ [Next]_vars => Expiring'
  <2> SUFFICES ASSUME Inv, Expiring, [Next]_vars PROVE Expiring'
    OBVIOUS
  <2> USE DEF Inv, Expiring, Waiting
  <2>1. ASSUME NEW r \in Requests, Incr(r) PROVE Expiring'
    <3>1. CASE current = 0
      BY <2>1, <3>1 DEF Incr, Go
    <3>2. CASE current # 0
      BY <2>1, <3>2 DEF Incr
    <3>3. QED
      BY <3>1, <3>2
  <2>2. ASSUME NEW r \in Requests, SetExpiry(r) PROVE Expiring'
    <3>1. request' \in [Requests -> {"idle", "expire"}]
      BY <2>2 DEF SetExpiry, Go
    <3>2. ttl' = "set"
      BY <2>2 DEF SetExpiry
    <3>3. QED
      BY <3>1, <3>2
  <2>3. ASSUME NEW r \in Requests, IncrLost(r) PROVE Expiring'
    <3>1. request' = request /\ ttl' = ttl
      BY <2>3 DEF IncrLost
    <3>2. orphaned' = (orphaned \/ current = 0)
      BY <2>3, Zenon DEF IncrLost
    <3>3. current = 0 \/ current > 0
      OBVIOUS
    <3>4. CASE current = 0
      <4>1. orphaned'
        BY <3>2, <3>4, Zenon
      <4>2. QED
        BY <3>1, <4>1, Zenon
    <3>5. CASE current > 0
      <4>1. ttl = "set" \/ orphaned \/ \E s \in Requests : Waiting(s)
        BY <3>5
      <4>2. ttl' = "set" \/ orphaned' \/ \E s \in Requests : Waiting(s)'
        BY <3>1, <3>2, <4>1, Zenon
      <4>3. QED
        BY <3>1, <4>2, Zenon
    <3>6. QED
      BY <3>3, <3>4, <3>5
  <2>4. ASSUME NEW r \in Requests, ExpiryLost(r) PROVE Expiring'
    <3>1. request' \in [Requests -> {"idle", "expire"}]
      BY <2>4 DEF ExpiryLost, Go
    <3>2. orphaned'
      BY <2>4, Zenon DEF ExpiryLost
    <3>3. QED
      BY <3>1, <3>2, Zenon
  <2>5. CASE WindowEnds
    BY <2>5 DEF WindowEnds
  <2>6. CASE UNCHANGED vars
    BY <2>6 DEF vars
  <2>7. QED
    BY <2>1, <2>2, <2>3, <2>4, <2>5, <2>6 DEF Next
<1>3. QED
  BY <1>1, <1>2, InitInv, Inductive, PTL DEF Spec

=============================================================================
