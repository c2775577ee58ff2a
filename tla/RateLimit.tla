----------------------------- MODULE RateLimit ------------------------------
(***************************************************************************)
(* The rate limiter of the auth routes, for one client: a counter in Redis *)
(* that the first request of a window creates with INCR and only then      *)
(* gives a time to live.  It fails open: a request whose call to Redis     *)
(* fails goes through.                                                     *)
(***************************************************************************)
EXTENDS Naturals

CONSTANTS
    Requests,       \* requests of the client that may be in flight together
    MaxRequests,    \* 30
    MaxFailures,    \* bound: calls to Redis that fail, and deaths of the process
    MaxCount        \* bound: requests counted in one window

ASSUME RateLimitAssumption ==
    {MaxRequests, MaxFailures, MaxCount} \subseteq Nat /\ MaxRequests > 0

VARIABLES
    current,    \* rl:auth:<ip>; 0: there is no such key
    ttl,        \* "set" once the key has a time to live
    request,    \* "idle", or "expire" between INCR and EXPIRE
    admitted,   \* history: requests of this window that went through by its count
    orphaned,   \* history: the key has lost its EXPIRE
    failures

vars == <<current, ttl, request, admitted, orphaned, failures>>

TypeOK ==
    /\ current \in Nat /\ admitted \in Nat /\ failures \in Nat
    /\ ttl \in {"none", "set"} /\ orphaned \in BOOLEAN
    /\ request \in [Requests -> {"idle", "expire"}]

Init ==
    /\ current = 0 /\ ttl = "none"
    /\ request = [r \in Requests |-> "idle"]
    /\ admitted = 0 /\ orphaned = FALSE
    /\ failures = 0

Go(r, step) == request' = [request EXCEPT ![r] = step]

\* Mutant of Decide: one too many.
DecideLate(count) ==
    admitted' = IF count - 1 > MaxRequests THEN admitted ELSE admitted + 1

\* next() or 429, by what INCR has returned.
Decide(count) == admitted' = IF count > MaxRequests THEN admitted ELSE admitted + 1

\* INCR.  All but the first request of a window are decided at once.
Incr(r) ==
    /\ request[r] = "idle"
    /\ current < MaxCount
    /\ current' = current + 1
    /\ IF current = 0
       THEN Go(r, "expire") /\ UNCHANGED admitted
       ELSE Decide(current + 1) /\ UNCHANGED request
    /\ UNCHANGED <<ttl, orphaned, failures>>

\* Mutant of SetExpiry: the call is left out.
SkipExpiry(r) ==
    /\ request[r] = "expire"
    /\ Decide(1)
    /\ Go(r, "idle")
    /\ UNCHANGED <<current, ttl, orphaned, failures>>

\* EXPIRE, after INCR has returned 1.
SetExpiry(r) ==
    /\ request[r] = "expire"
    /\ ttl' = "set"
    /\ Decide(1)
    /\ Go(r, "idle")
    /\ UNCHANGED <<current, orphaned, failures>>

Fail == failures < MaxFailures /\ failures' = failures + 1

\* The connection breaks under an INCR that has been carried out: the client
\* sends it again and it returns one too many, or gives up and the request
\* goes through.  If this was the first of its window nobody calls EXPIRE.
\* (An INCR that was not carried out changes nothing.)
IncrLost(r) ==
    /\ request[r] = "idle"
    /\ Fail
    /\ \/ current + 1 < MaxCount /\ current' = current + 2 /\ Decide(current + 2)
       \/ current < MaxCount /\ current' = current + 1 /\ UNCHANGED admitted
    /\ orphaned' = (orphaned \/ current = 0)
    /\ UNCHANGED <<ttl, request>>

\* EXPIRE fails and the request goes through, or the process dies.
ExpiryLost(r) ==
    /\ request[r] = "expire"
    /\ Fail
    /\ admitted' \in {admitted, admitted + 1}
    /\ Go(r, "idle")
    /\ orphaned' = TRUE
    /\ UNCHANGED <<current, ttl>>

WindowEnds ==
    /\ ttl = "set"
    /\ current' = 0 /\ ttl' = "none" /\ admitted' = 0
    /\ UNCHANGED <<request, orphaned, failures>>

Next ==
    \/ \E r \in Requests : Incr(r) \/ SetExpiry(r) \/ IncrLost(r) \/ ExpiryLost(r)
    \/ WindowEnds

\* Requests in flight go on, and Redis expires keys.
Fairness == (\A r \in Requests : WF_vars(SetExpiry(r))) /\ WF_vars(WindowEnds)

Spec     == Init /\ [][Next]_vars
FairSpec == Spec /\ Fairness

-----------------------------------------------------------------------------

\* At most MaxRequests requests of a window go through by its count, whatever
\* interleaves between the INCR and the EXPIRE of the first, is sent twice or
\* fails; the place of the first is kept for it while it waits.
LimitKept ==
    /\ admitted <= MaxRequests
    /\ (\E r \in Requests : request[r] = "expire") => admitted < MaxRequests

\* A client at its limit gets a new window, unless the key has lost its
\* EXPIRE: then it is locked out for good.
LockoutEnds == current >= MaxRequests ~> current = 0 \/ orphaned

=============================================================================
