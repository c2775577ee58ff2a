---------------------------- MODULE AuthSessions ----------------------------
(***************************************************************************)
(* Wallet login and the refresh-token sessions it creates: a challenge     *)
(* nonce in Redis, a session row in PostgreSQL, and the cap on the active  *)
(* sessions of a user, which every login enforces after its own insert.    *)
(*                                                                         *)
(* Signatures, tokens and their hashes are outside: a login that gets to   *)
(* its first step here has a valid signature over the nonce it presents.   *)
(* A user is its wallet.  refreshSession changes nothing: it verifies as a *)
(* JWT a token that createSession made of random bytes, and throws.        *)
(***************************************************************************)
EXTENDS Naturals, FiniteSets

CONSTANTS
    Wallets,
    Calls,          \* logins that may be in flight together
    MaxSessionsPerUser,
    MaxChallenges,  \* bound: challenges requested
    MaxLogins,      \* bound: sessions created
    MaxFaults,      \* bound: database or Redis calls that fail
    None            \* no user

Nonces   == 1 .. MaxChallenges   \* 0 is no nonce
Sessions == 1 .. MaxLogins       \* in the order of createdAt; 0 is no session

ASSUME AuthAssumption ==
    /\ MaxSessionsPerUser \in Nat \ {0}
    /\ {MaxChallenges, MaxLogins, MaxFaults} \subseteq Nat
    /\ None \notin Wallets

VARIABLES
    challenge,  \* auth:challenge:<wallet>
    issued,     \* nonces handed out so far
    made,       \* AuthSession rows created so far
    user,       \* AuthSession.userId
    nonce,      \* the nonce the session was obtained with
    ended,      \* "open" while revokedAt is null, then who set it first
    call,       \* what each login does, and what it has read
    raced,      \* history: nonces two logins had both found valid
    crossed,    \* history: users with overlapping inserts, or one that failed after it
    left,       \* history: users who logged out under a login
    faults      \* calls that failed

rows    == <<made, user, nonce, ended>>
history == <<raced, crossed, left>>
vars    == <<challenge, issued, rows, call, history, faults>>

\* A login past its insert and not yet done with the cap.
Capping == {"count", "find", "revoke"}

TypeOK ==
    /\ challenge \in [Wallets -> Nonces \cup {0}]
    /\ issued \in 0 .. MaxChallenges
    /\ made \in 0 .. MaxLogins
    /\ user \in [Sessions -> Wallets \cup {None}]
    /\ nonce \in [Sessions -> Nonces \cup {0}]
    /\ ended \in [Sessions -> {"open", "cap", "logout"}]
    /\ call \in [Calls -> [pc : {"idle", "consume", "create"} \cup Capping,
                           user : Wallets \cup {None}, nonce : Nonces \cup {0},
                           own : Sessions \cup {0}, oldest : Sessions \cup {0}]]
    /\ \A c \in Calls :
        /\ call[c].pc # "idle" => call[c].user \in Wallets /\ call[c].nonce \in Nonces
        /\ call[c].pc \in Capping => call[c].own \in 1 .. made
        /\ call[c].pc = "revoke" => call[c].oldest \in 1 .. made
    /\ raced \subseteq Nonces /\ crossed \subseteq Wallets /\ left \subseteq Wallets
    /\ faults \in 0 .. MaxFaults

IdleCall == [pc |-> "idle", user |-> None, nonce |-> 0, own |-> 0, oldest |-> 0]

Init ==
    /\ challenge = [w \in Wallets |-> 0]
    /\ issued = 0 /\ made = 0
    /\ user = [s \in Sessions |-> None] /\ nonce = [s \in Sessions |-> 0]
    /\ ended = [s \in Sessions |-> "open"]
    /\ call = [c \in Calls |-> IdleCall]
    /\ raced = {} /\ crossed = {} /\ left = {}
    /\ faults = 0

Go(c, pc) == call' = [call EXCEPT ![c].pc = pc]
End(c)    == call' = [call EXCEPT ![c] = IdleCall]

SessionsOf(w) == {s \in 1 .. made : user[s] = w}
Active(w)     == {s \in SessionsOf(w) : ended[s] = "open"}
CappingOf(w)  == {c \in Calls : call[c].pc \in Capping /\ call[c].user = w}

-----------------------------------------------------------------------------
(* requestChallenge, and the time to live of its key.                      *)

RequestChallenge(w) ==
    /\ issued < MaxChallenges
    /\ issued' = issued + 1
    /\ challenge' = [challenge EXCEPT ![w] = issued + 1]
    /\ UNCHANGED <<rows, call, history, faults>>

ChallengeExpires(w) ==
    /\ challenge[w] # 0
    /\ challenge' = [challenge EXCEPT ![w] = 0]
    /\ UNCHANGED <<issued, rows, call, history, faults>>

-----------------------------------------------------------------------------
(* walletLogin                                                             *)

\* Any other nonce is refused.  The signature is taken as good, which is more
\* than the code lets through today: verifyEd25519Signature hands the raw key to
\* crypto.verify, which takes it for PEM and throws.
LoginRead(c, w) ==
    /\ call[c].pc = "idle"
    /\ challenge[w] # 0
    /\ call' = [call EXCEPT ![c] =
            [IdleCall EXCEPT !.pc = "consume", !.user = w, !.nonce = challenge[w]]]
    /\ raced' = IF \E d \in Calls : call[d].pc = "consume" /\ call[d].nonce = challenge[w]
                THEN raced \cup {challenge[w]} ELSE raced
    /\ UNCHANGED <<challenge, issued, rows, crossed, left, faults>>

\* Mutant of LoginConsume: the key is left to expire.
LoginLeave(c) ==
    /\ call[c].pc = "consume"
    /\ Go(c, "create")
    /\ UNCHANGED <<challenge, issued, rows, history, faults>>

\* DEL, whatever nonce the key has by now.
LoginConsume(c) ==
    /\ call[c].pc = "consume"
    /\ challenge' = [challenge EXCEPT ![call[c].user] = 0]
    /\ Go(c, "create")
    /\ UNCHANGED <<issued, rows, history, faults>>

\* The upsert of the user, and the insert of createSession.
LoginCreate(c) ==
    LET w == call[c].user IN
    /\ call[c].pc = "create"
    /\ made < MaxLogins
    /\ made' = made + 1
    /\ user' = [user EXCEPT ![made + 1] = w]
    /\ nonce' = [nonce EXCEPT ![made + 1] = call[c].nonce]
    /\ call' = [call EXCEPT ![c].pc = "count", ![c].own = made + 1]
    /\ crossed' = IF CappingOf(w) # {} THEN crossed \cup {w} ELSE crossed
    /\ UNCHANGED <<challenge, issued, ended, raced, left, faults>>

\* Mutant of LoginCount: one session more is let through.
LoginCountLate(c) ==
    /\ call[c].pc = "count"
    /\ IF Cardinality(Active(call[c].user)) > MaxSessionsPerUser + 1
       THEN Go(c, "find") ELSE End(c)
    /\ UNCHANGED <<challenge, issued, rows, history, faults>>

LoginCount(c) ==
    /\ call[c].pc = "count"
    /\ IF Cardinality(Active(call[c].user)) > MaxSessionsPerUser
       THEN Go(c, "find") ELSE End(c)
    /\ UNCHANGED <<challenge, issued, rows, history, faults>>

\* Mutants of LoginFind: the newest session is taken; nothing found is not
\* looked at.
LoginFindNewest(c) ==
    LET active == Active(call[c].user) IN
    /\ call[c].pc = "find"
    /\ \/ active = {} /\ End(c)
       \/ \E s \in active :
            /\ \A t \in active : t <= s
            /\ call' = [call EXCEPT ![c].pc = "revoke", ![c].oldest = s]
    /\ UNCHANGED <<challenge, issued, rows, history, faults>>
LoginFindAnything(c) ==
    LET active == Active(call[c].user) IN
    /\ call[c].pc = "find"
    /\ \/ active = {} /\ Go(c, "revoke")
       \/ \E s \in active :
            /\ \A t \in active : s <= t
            /\ call' = [call EXCEPT ![c].pc = "revoke", ![c].oldest = s]
    /\ UNCHANGED <<challenge, issued, rows, history, faults>>

LoginFind(c) ==
    LET active == Active(call[c].user) IN
    /\ call[c].pc = "find"
    /\ \/ active = {} /\ End(c)
       \/ \E s \in active :
            /\ \A t \in active : s <= t
            /\ call' = [call EXCEPT ![c].pc = "revoke", ![c].oldest = s]
    /\ UNCHANGED <<challenge, issued, rows, history, faults>>

\* By id, whether or not it is still open.
LoginRevoke(c) ==
    LET s == call[c].oldest IN
    /\ call[c].pc = "revoke"
    /\ ended' = [ended EXCEPT ![s] = IF @ = "open" THEN "cap" ELSE @]
    /\ End(c)
    /\ UNCHANGED <<challenge, issued, made, user, nonce, history, faults>>

\* logout: one conditional update.
Logout(s) ==
    /\ s \in 1 .. made /\ ended[s] = "open"
    /\ ended' = [ended EXCEPT ![s] = "logout"]
    /\ left' = IF CappingOf(user[s]) # {} THEN left \cup {user[s]} ELSE left
    /\ UNCHANGED <<challenge, issued, made, user, nonce, call, raced, crossed, faults>>

\* A call of the login fails: the request ends where it is.
Fault(c) ==
    /\ call[c].pc # "idle" /\ faults < MaxFaults
    /\ faults' = faults + 1
    /\ crossed' = IF call[c].pc \in Capping THEN crossed \cup {call[c].user} ELSE crossed
    /\ End(c)
    /\ UNCHANGED <<challenge, issued, rows, raced, left>>

-----------------------------------------------------------------------------

LoginStep(c) ==
    \/ LoginConsume(c) \/ LoginCreate(c) \/ LoginCount(c) \/ LoginFind(c) \/ LoginRevoke(c)

Next ==
    \/ \E w \in Wallets : RequestChallenge(w) \/ ChallengeExpires(w)
    \/ \E c \in Calls, w \in Wallets : LoginRead(c, w)
    \/ \E c \in Calls : LoginStep(c) \/ Fault(c)
    \/ \E s \in Sessions : Logout(s)

Spec == Init /\ [][Next]_vars

-----------------------------------------------------------------------------
(* Properties.                                                             *)

\* A nonce gives one session unless two logins found it before either deleted
\* it: challenges requested, expired and deleted meanwhile do not bring it back.
NonceOnceUnlessRaced ==
    \A s, t \in 1 .. made : nonce[s] = nonce[t] /\ nonce[s] \notin raced => s = t

\* A user has no more active sessions than the cap, and one more for a login
\* that has inserted and not yet counted, as long as the user's logins do not
\* overlap there.  (If they do, both revoke the same session, and no later login
\* makes up for it: each revokes one.)
CapUnlessCrossed ==
    \A w \in Wallets \ crossed :
        Cardinality(Active(w)) <= MaxSessionsPerUser + Cardinality(CappingOf(w))

\* The cap takes the oldest first, however logins overlap, fail or are
\* overtaken by logouts: no older session of the user survives one it has taken.
OldestGoFirst ==
    \A s, t \in 1 .. made :
        user[s] = user[t] /\ s < t /\ ended[t] = "cap" => ended[s] # "open"

\* A login does not revoke the session it answers with, unless the user logs out
\* or in again under it.
OwnSessionKept ==
    \A c \in Calls :
        call[c].pc = "revoke" /\ call[c].user \notin crossed \cup left
            => call[c].oldest # call[c].own
=============================================================================
