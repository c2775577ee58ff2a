------------------------- MODULE AuthSessionsProofs -------------------------
(***************************************************************************)
(* What holds of AuthSessions for any wallets, calls, cap and bounds: its  *)
(* type, that a nonce gives one session unless two logins raced for it,    *)
(* that the cap takes the oldest session first, never the one a login      *)
(* answers with, and that it holds for users whose logins do not overlap.  *)
(***************************************************************************)
EXTENDS AuthSessions, FiniteSetTheorems, TLAPS

CallType == [pc : {"idle", "consume", "create"} \cup Capping,
             user : Wallets \cup {None}, nonce : Nonces \cup {0},
             own : Sessions \cup {0}, oldest : Sessions \cup {0}]

\* What TypeOK says of one call when n sessions have been made.
CallOK(r, n) ==
    /\ r \in CallType
    /\ r.pc # "idle" => r.user \in Wallets /\ r.nonce \in Nonces
    /\ r.pc \in Capping => r.own \in 1 .. n
    /\ r.pc = "revoke" => r.oldest \in 1 .. n

CallsOK == call \in [Calls -> CallType] /\ \A c \in Calls : CallOK(call[c], made)

\* The steps of Next, each with its own name.
LEMMA NextCases ==
    ASSUME Next
    PROVE  \/ \E w \in Wallets : RequestChallenge(w)
           \/ \E w \in Wallets : ChallengeExpires(w)
           \/ \E c \in Calls, w \in Wallets : LoginRead(c, w)
           \/ \E c \in Calls : LoginConsume(c)
           \/ \E c \in Calls : LoginCreate(c)
           \/ \E c \in Calls : LoginCount(c)
           \/ \E c \in Calls : LoginFind(c)
           \/ \E c \in Calls : LoginRevoke(c)
           \/ \E c \in Calls : Fault(c)
           \/ \E s \in Sessions : Logout(s)
  BY Zenon DEF Next, LoginStep

-----------------------------------------------------------------------------
(* Types.                                                                  *)

LEMMA InitType == Init => TypeOK
  BY AuthAssumption DEF Init, TypeOK, IdleCall, Capping, Nonces, Sessions

LEMMA TypeCalls == TypeOK => CallsOK
  BY DEF TypeOK, CallsOK, CallOK, CallType

\* A step that changes one call, and perhaps makes a session.
LEMMA CallUpdate ==
    ASSUME TypeOK, NEW c \in Calls, NEW r, CallOK(r, made'),
           call' = [call EXCEPT ![c] = r], made' \in made .. MaxLogins
    PROVE  CallsOK'
<1>1. \A d \in Calls : call'[d] = IF d = c THEN r ELSE call[d]
  BY TypeCalls DEF CallsOK
<1>2. \A d \in Calls : CallOK(call[d], made')
  BY TypeCalls, AuthAssumption DEF CallsOK, CallOK, TypeOK
<1> QED
  BY <1>1, <1>2, TypeCalls DEF CallsOK, CallOK

LEMMA IdleOK == \A n \in Nat : CallOK(IdleCall, n)
  BY DEF CallOK, CallType, IdleCall, Capping

LEMMA StepType == TypeOK /\ [Next]_vars => TypeOK'
<1> SUFFICES ASSUME TypeOK, [Next]_vars PROVE TypeOK'
  OBVIOUS
<1> USE AuthAssumption
<1> DEFINE RestOK ==
      /\ challenge \in [Wallets -> Nonces \cup {0}]
      /\ issued \in 0 .. MaxChallenges
      /\ made \in 0 .. MaxLogins
      /\ user \in [Sessions -> Wallets \cup {None}]
      /\ nonce \in [Sessions -> Nonces \cup {0}]
      /\ ended \in [Sessions -> {"open", "cap", "logout"}]
      /\ raced \subseteq Nonces /\ crossed \subseteq Wallets /\ left \subseteq Wallets
      /\ faults \in 0 .. MaxFaults
<1>a. RestOK /\ CallsOK
  BY TypeCalls DEF TypeOK
<1>b. RestOK' /\ CallsOK' => TypeOK'
  BY DEF TypeOK, CallsOK, CallOK, CallType
<1>c. made \in made .. MaxLogins /\ made \in Nat
  BY <1>a
<1>d. \A c \in Calls : CallOK(call[c], made)
  BY <1>a DEF CallsOK
<1>e. UNCHANGED <<made, call>> => CallsOK'
  BY <1>a DEF CallsOK, CallOK
<1>1. ASSUME NEW w \in Wallets, RequestChallenge(w) PROVE TypeOK'
  BY <1>1, <1>a, <1>b, <1>e DEF RequestChallenge, rows, history, Nonces
<1>2. ASSUME NEW w \in Wallets, ChallengeExpires(w) PROVE TypeOK'
  BY <1>2, <1>a, <1>b, <1>e DEF ChallengeExpires, rows, history
<1>3. ASSUME NEW c \in Calls, NEW w \in Wallets, LoginRead(c, w) PROVE TypeOK'
  <2> DEFINE r == [IdleCall EXCEPT !.pc = "consume", !.user = w, !.nonce = challenge[w]]
  <2>1. challenge[w] \in Nonces
    BY <1>3, <1>a DEF LoginRead
  <2>2. CallOK(r, made')
    BY <2>1 DEF CallOK, CallType, IdleCall, Capping
  <2>3. CallsOK'
    BY <1>3, <1>c, <2>2, CallUpdate DEF LoginRead, rows
  <2> QED
    BY <1>3, <1>a, <1>b, <2>1, <2>3 DEF LoginRead, rows
<1>4. ASSUME NEW c \in Calls, LoginConsume(c) PROVE TypeOK'
  <2> DEFINE r == [call[c] EXCEPT !.pc = "create"]
  <2>1. call' = [call EXCEPT ![c] = r]
    BY <1>4 DEF LoginConsume, Go
  <2>2. CallOK(r, made')
    BY <1>4, <1>d DEF LoginConsume, CallOK, CallType, Capping
  <2>3. CallsOK'
    BY <1>4, <1>c, <2>1, <2>2, CallUpdate DEF LoginConsume, rows
  <2> QED
    BY <1>4, <1>a, <1>b, <2>3 DEF LoginConsume, rows, history
<1>5. ASSUME NEW c \in Calls, LoginCreate(c) PROVE TypeOK'
  <2> DEFINE r == [call[c] EXCEPT !.pc = "count", !.own = made + 1]
  <2>1. call' = [call EXCEPT ![c] = r]
    BY <1>5 DEF LoginCreate
  <2>2. made + 1 \in Sessions /\ made' = made + 1 /\ made' \in made .. MaxLogins
    BY <1>5, <1>a DEF LoginCreate, Sessions
  <2>3. call[c].user \in Wallets /\ call[c].nonce \in Nonces
    BY <1>5, <1>d DEF LoginCreate, CallOK
  <2>4. CallOK(r, made')
    <3>1. call[c] \in CallType
      BY <1>d DEF CallOK
    <3>2. r \in CallType /\ r.pc = "count" /\ r.own = made + 1
          /\ r.user = call[c].user /\ r.nonce = call[c].nonce
      BY <3>1, <2>2 DEF CallType, Capping
    <3>3. made + 1 \in 1 .. made'
      BY <1>c, <2>2
    <3> QED
      BY <3>2, <3>3, <2>3 DEF CallOK
  <2>5. CallsOK'
    BY <2>1, <2>2, <2>4, CallUpdate
  <2> QED
    BY <1>5, <1>a, <1>b, <2>2, <2>3, <2>5 DEF LoginCreate
<1>6. ASSUME NEW c \in Calls, LoginCount(c) PROVE TypeOK'
  <2>1. PICK r : r \in {IdleCall, [call[c] EXCEPT !.pc = "find"]}
                 /\ call' = [call EXCEPT ![c] = r]
    BY <1>6 DEF LoginCount, Go, End
  <2>2. CallOK([call[c] EXCEPT !.pc = "find"], made)
    BY <1>6, <1>d DEF LoginCount, CallOK, CallType, Capping
  <2>3. CallOK(r, made') /\ made' = made
    BY <1>6, <1>c, <2>1, <2>2, IdleOK DEF LoginCount, rows
  <2>4. CallsOK'
    BY <1>c, <2>1, <2>3, CallUpdate
  <2> QED
    BY <1>6, <1>a, <1>b, <2>4 DEF LoginCount, rows, history
<1>7. ASSUME NEW c \in Calls, LoginFind(c) PROVE TypeOK'
  <2>1. PICK r : /\ call' = [call EXCEPT ![c] = r]
                 /\ \/ r = IdleCall
                    \/ \E s \in 1 .. made :
                         r = [call[c] EXCEPT !.pc = "revoke", !.oldest = s]
    BY <1>7 DEF LoginFind, End, Active, SessionsOf
  <2>2. \A s \in 1 .. made : CallOK([call[c] EXCEPT !.pc = "revoke", !.oldest = s], made)
    <3> TAKE s \in 1 .. made
    <3> DEFINE q == [call[c] EXCEPT !.pc = "revoke", !.oldest = s]
    <3>1. call[c] \in CallType /\ call[c].pc = "find" /\ call[c].user \in Wallets
          /\ call[c].nonce \in Nonces /\ call[c].own \in 1 .. made
      BY <1>7, <1>d DEF LoginFind, CallOK, Capping
    <3>2. s \in Sessions
      BY <1>a DEF Sessions
    <3>3. q \in CallType /\ q.pc = "revoke" /\ q.oldest = s /\ q.own = call[c].own
          /\ q.user = call[c].user /\ q.nonce = call[c].nonce
      BY <3>1, <3>2 DEF CallType, Capping
    <3> QED
      BY <3>1, <3>3 DEF CallOK
  <2>3. CallOK(r, made') /\ made' = made
    BY <1>7, <1>c, <2>1, <2>2, IdleOK DEF LoginFind, rows
  <2>4. CallsOK'
    BY <1>c, <2>1, <2>3, CallUpdate
  <2> QED
    BY <1>7, <1>a, <1>b, <2>4 DEF LoginFind, rows, history
<1>8. ASSUME NEW c \in Calls, LoginRevoke(c) PROVE TypeOK'
  <2>1. CallsOK'
    BY <1>8, <1>c, IdleOK, CallUpdate DEF LoginRevoke, End
  <2> QED
    BY <1>8, <1>a, <1>b, <2>1 DEF LoginRevoke, history
<1>9. ASSUME NEW c \in Calls, Fault(c) PROVE TypeOK'
  <2>1. CallsOK'
    BY <1>9, <1>c, IdleOK, CallUpdate DEF Fault, End, rows
  <2>2. call[c].user \in Wallets
    BY <1>9, <1>d DEF Fault, CallOK
  <2> QED
    BY <1>9, <1>a, <1>b, <2>1, <2>2 DEF Fault, rows
<1>10. ASSUME NEW s \in Sessions, Logout(s) PROVE TypeOK'
  <2>1. CappingOf(user[s]) # {} => user[s] \in Wallets
    BY <1>d DEF CappingOf, CallOK, Capping
  <2> QED
    BY <1>10, <1>a, <1>b, <1>e, <2>1 DEF Logout
<1>11. CASE UNCHANGED vars
  BY <1>11, <1>a, <1>b, <1>e DEF vars, rows, history
<1> QED
  BY <1>1, <1>2, <1>3, <1>4, <1>5, <1>6, <1>7, <1>8, <1>9, <1>10, <1>11, NextCases

\* The state of the login keeps its type.
THEOREM TypeCorrect == Spec => []TypeOK
  BY InitType, StepType, PTL DEF Spec

-----------------------------------------------------------------------------
(* The cap.                                                                *)

\* What a call has found to be the oldest session still is: sessions older
\* than it are closed for good, and new ones are younger.
FoundOldest ==
    \A c \in Calls : call[c].pc = "revoke" =>
        \A s \in 1 .. made :
            user[s] = user[call[c].oldest] /\ s < call[c].oldest => ended[s] # "open"

UnmadeOpen == \A s \in Sessions : s > made => ended[s] = "open"

CapInv == TypeOK /\ FoundOldest /\ UnmadeOpen /\ OldestGoFirst

LEMMA CapInit == Init => CapInv
  BY InitType, AuthAssumption
  DEF Init, CapInv, FoundOldest, UnmadeOpen, OldestGoFirst, IdleCall, Sessions

\* A step that closes no session, makes none, and finds none.
LEMMA CapQuiet ==
    ASSUME CapInv, TypeOK', UNCHANGED rows,
           \A c \in Calls : call'[c].pc = "revoke" => call'[c] = call[c]
    PROVE  CapInv'
  BY AuthAssumption DEF CapInv, FoundOldest, UnmadeOpen, OldestGoFirst, rows, TypeOK

LEMMA CapStep == CapInv /\ [Next]_vars => CapInv'
<1> SUFFICES ASSUME CapInv, [Next]_vars PROVE CapInv'
  OBVIOUS
<1>0. TypeOK /\ TypeOK'
  BY StepType DEF CapInv
<1>a. call \in [Calls -> CallType]
  BY <1>0, TypeCalls DEF CallsOK
<1> USE AuthAssumption
<1>1. ASSUME NEW w \in Wallets, RequestChallenge(w) PROVE CapInv'
  BY <1>0, <1>1, CapQuiet DEF RequestChallenge
<1>2. ASSUME NEW w \in Wallets, ChallengeExpires(w) PROVE CapInv'
  BY <1>0, <1>2, CapQuiet DEF ChallengeExpires
<1>3. ASSUME NEW c \in Calls, NEW w \in Wallets, LoginRead(c, w) PROVE CapInv'
  <2>1. \A d \in Calls : call'[d].pc = "revoke" => call'[d] = call[d]
    BY <1>3, <1>a DEF LoginRead, IdleCall
  <2> QED
    BY <1>0, <1>3, <2>1, CapQuiet DEF LoginRead
<1>4. ASSUME NEW c \in Calls, LoginConsume(c) PROVE CapInv'
  <2>1. \A d \in Calls : call'[d].pc = "revoke" => call'[d] = call[d]
    BY <1>4, <1>a DEF LoginConsume, Go, CallType
  <2> QED
    BY <1>0, <1>4, <2>1, CapQuiet DEF LoginConsume
<1>5. ASSUME NEW c \in Calls, LoginCreate(c) PROVE CapInv'
  <2>a. \A d \in Calls : call'[d].pc = "revoke" => call'[d] = call[d]
    BY <1>5, <1>a DEF LoginCreate, CallType
  <2>b. /\ made' = made + 1 /\ made \in Nat /\ ended' = ended
        /\ \A s \in 1 .. made : user'[s] = user[s]
    BY <1>0, <1>5 DEF LoginCreate, TypeOK, Sessions
  <2>c. \A d \in Calls : call[d].pc = "revoke" => call[d].oldest \in 1 .. made
    BY <1>0 DEF TypeOK
  <2>1. FoundOldest'
    <3> SUFFICES ASSUME NEW d \in Calls, call'[d].pc = "revoke", NEW s \in 1 .. made',
                        user'[s] = user'[call'[d].oldest], s < call'[d].oldest
                 PROVE  ended'[s] # "open"
      BY DEF FoundOldest
    <3>1. call[d].pc = "revoke" /\ call'[d].oldest = call[d].oldest
          /\ call[d].oldest \in 1 .. made
      BY <2>a, <2>c
    <3>2. s \in 1 .. made /\ user[s] = user[call[d].oldest]
      BY <2>b, <3>1
    <3> QED
      BY <2>b, <3>1, <3>2 DEF CapInv, FoundOldest
  <2>2. UnmadeOpen'
    BY <1>0, <1>5 DEF LoginCreate, CapInv, UnmadeOpen, TypeOK, Sessions
  <2>3. OldestGoFirst'
    <3> SUFFICES ASSUME NEW s \in 1 .. made', NEW t \in 1 .. made',
                        user'[s] = user'[t], s < t, ended'[t] = "cap"
                 PROVE  ended'[s] # "open"
      BY DEF OldestGoFirst
    <3>1. made + 1 \in Sessions
      BY <1>0, <1>5 DEF LoginCreate, TypeOK, Sessions
    <3>2. t # made + 1
      BY <2>b, <3>1 DEF CapInv, UnmadeOpen
    <3>3. s \in 1 .. made /\ t \in 1 .. made
      BY <2>b, <3>2
    <3> QED
      BY <2>b, <3>3 DEF CapInv, OldestGoFirst
  <2> QED
    BY <1>0, <2>1, <2>2, <2>3 DEF CapInv
<1>6. ASSUME NEW c \in Calls, LoginCount(c) PROVE CapInv'
  BY <1>0, <1>6, CapQuiet DEF LoginCount, Go, End, IdleCall, TypeOK
<1>7. ASSUME NEW c \in Calls, LoginFind(c) PROVE CapInv'
  <2>1. FoundOldest'
    BY <1>0, <1>7
    DEF LoginFind, End, IdleCall, CapInv, FoundOldest, Active, SessionsOf, TypeOK, Sessions, rows
  <2>2. UnmadeOpen' /\ OldestGoFirst'
    BY <1>7 DEF LoginFind, CapInv, UnmadeOpen, OldestGoFirst, rows
  <2> QED
    BY <1>0, <2>1, <2>2 DEF CapInv
<1>8. ASSUME NEW c \in Calls, LoginRevoke(c) PROVE CapInv'
  <2> DEFINE s == call[c].oldest
  <2>1. s \in 1 .. made /\ s \in Sessions
    BY <1>0, <1>8 DEF LoginRevoke, TypeOK, Capping, Sessions
  <2>2. /\ ended' = [ended EXCEPT ![s] = IF @ = "open" THEN "cap" ELSE @]
        /\ made' = made /\ user' = user
        /\ \A d \in Calls : call'[d].pc = "revoke" => call'[d] = call[d]
    BY <1>0, <1>8 DEF LoginRevoke, End, IdleCall, TypeOK
  <2>3. \A t \in 1 .. made : ended'[t] # "open" <=> ended[t] # "open" \/ t = s
    BY <1>0, <2>1, <2>2 DEF TypeOK, Sessions
  <2>4. FoundOldest'
    BY <2>2, <2>3 DEF CapInv, FoundOldest
  <2>5. UnmadeOpen'
    BY <1>0, <2>1, <2>2 DEF CapInv, UnmadeOpen, TypeOK, Sessions
  <2>6. \A t \in 1 .. made : ended'[t] = "cap" => ended[t] = "cap" \/ t = s
    BY <1>0, <2>1, <2>2 DEF TypeOK, Sessions
  <2>7. OldestGoFirst'
    BY <1>8, <2>1, <2>2, <2>3, <2>6 DEF CapInv, FoundOldest, OldestGoFirst, LoginRevoke
  <2> QED
    BY <1>0, <2>4, <2>5, <2>7 DEF CapInv
<1>9. ASSUME NEW c \in Calls, Fault(c) PROVE CapInv'
  BY <1>0, <1>9, CapQuiet DEF Fault, End, IdleCall, TypeOK
<1>10. ASSUME NEW s \in Sessions, Logout(s) PROVE CapInv'
  BY <1>0, <1>10 DEF Logout, CapInv, FoundOldest, UnmadeOpen, OldestGoFirst, TypeOK, Sessions
<1>11. CASE UNCHANGED vars
  BY <1>0, <1>11, CapQuiet DEF vars
<1> QED
  BY <1>1, <1>2, <1>3, <1>4, <1>5, <1>6, <1>7, <1>8, <1>9, <1>10, <1>11, NextCases

\* The cap takes the oldest session first, however many logins overlap.
THEOREM OldestFirst == Spec => []OldestGoFirst
<1>1. CapInv => OldestGoFirst
  BY DEF CapInv
<1> QED
  BY CapInit, CapStep, <1>1, PTL DEF Spec

-----------------------------------------------------------------------------
(* Nonces.                                                                 *)

\* A login that has found its nonce valid and not yet made its session.
Holding(c) == call[c].pc \in {"consume", "create"}

Handed ==
    /\ \A w \in Wallets : challenge[w] <= issued
    /\ \A c \in Calls : Holding(c) => call[c].nonce \in 1 .. issued
    /\ \A s \in 1 .. made : nonce[s] \in 1 .. issued

\* A nonce is in one key, that of the wallet it was asked for, and in none once
\* a login has deleted it.
OneKey ==
    \A v, w \in Wallets : challenge[v] = challenge[w] /\ challenge[v] # 0 => v = w
HeldKey ==
    \A c \in Calls, w \in Wallets :
        /\ call[c].pc = "consume" /\ challenge[w] = call[c].nonce => w = call[c].user
        /\ call[c].pc = "create" => challenge[w] # call[c].nonce
SpentKey ==
    \A s \in 1 .. made, w \in Wallets : challenge[w] # nonce[s]

\* Who holds a nonce that is not raced for is alone, and it is not yet spent.
OneHolder ==
    \A c, d \in Calls :
        Holding(c) /\ Holding(d) /\ call[c].nonce = call[d].nonce /\ c # d
            => call[c].nonce \in raced
HeldUnspent ==
    \A c \in Calls, s \in 1 .. made :
        Holding(c) /\ nonce[s] = call[c].nonce => nonce[s] \in raced

NonceInv ==
    /\ TypeOK /\ Handed /\ OneKey /\ HeldKey /\ SpentKey
    /\ OneHolder /\ HeldUnspent /\ NonceOnceUnlessRaced

LEMMA NonceInit == Init => NonceInv
  BY InitType, AuthAssumption
  DEF Init, NonceInv, Handed, OneKey, HeldKey, SpentKey, OneHolder, HeldUnspent,
      NonceOnceUnlessRaced, Holding, IdleCall

\* A step that hands out, finds, deletes and spends no nonce.
LEMMA NonceQuiet ==
    ASSUME NonceInv, TypeOK', UNCHANGED <<challenge, issued, made, nonce, raced>>,
           \A c \in Calls : Holding(c)' => call'[c] = call[c]
    PROVE  NonceInv'
<1>1. \A c \in Calls : Holding(c)' => Holding(c)
  BY DEF Holding
<1>2. Handed' /\ OneKey' /\ SpentKey' /\ NonceOnceUnlessRaced'
  BY <1>1 DEF NonceInv, Handed, OneKey, SpentKey, NonceOnceUnlessRaced
<1>3. HeldKey'
  BY DEF NonceInv, HeldKey, Holding
<1>4. OneHolder' /\ HeldUnspent'
  BY <1>1 DEF NonceInv, OneHolder, HeldUnspent
<1> QED
  BY <1>2, <1>3, <1>4 DEF NonceInv

LEMMA NonceStep == NonceInv /\ [Next]_vars => NonceInv'
<1> SUFFICES ASSUME NonceInv, [Next]_vars PROVE NonceInv'
  OBVIOUS
<1>0. TypeOK /\ TypeOK'
  BY StepType DEF NonceInv
<1>a. call \in [Calls -> CallType]
  BY <1>0, TypeCalls DEF CallsOK
<1>b. /\ issued \in Nat /\ made \in Nat
      /\ \A w \in Wallets : challenge[w] \in Nat
      /\ \A c \in Calls : Holding(c) => call[c].nonce \in Nat \ {0}
      /\ \A s \in 1 .. made : nonce[s] \in Nat \ {0}
  BY <1>0, AuthAssumption DEF NonceInv, Handed, TypeOK, Nonces
<1>1. ASSUME NEW w \in Wallets, RequestChallenge(w) PROVE NonceInv'
  <2>1. /\ issued' = issued + 1
        /\ challenge' = [challenge EXCEPT ![w] = issued + 1]
        /\ UNCHANGED <<made, nonce, call, raced>>
    BY <1>1 DEF RequestChallenge, rows, history
  <2>2. \A v \in Wallets : challenge'[v] = IF v = w THEN issued + 1 ELSE challenge[v]
    BY <1>0, <2>1 DEF TypeOK
  <2>3. Handed'
    BY <1>b, <2>1, <2>2 DEF NonceInv, Handed, Holding
  <2>4. OneKey' /\ HeldKey' /\ SpentKey'
    BY <1>b, <2>1, <2>2 DEF NonceInv, Handed, OneKey, HeldKey, SpentKey, Holding
  <2>5. OneHolder' /\ HeldUnspent' /\ NonceOnceUnlessRaced'
    BY <2>1 DEF NonceInv, OneHolder, HeldUnspent, NonceOnceUnlessRaced, Holding
  <2> QED
    BY <1>0, <2>3, <2>4, <2>5 DEF NonceInv
<1>2. ASSUME NEW w \in Wallets, ChallengeExpires(w) PROVE NonceInv'
  <2>1. /\ challenge' = [challenge EXCEPT ![w] = 0]
        /\ UNCHANGED <<issued, made, nonce, call, raced>>
    BY <1>2 DEF ChallengeExpires, rows, history
  <2>2. \A v \in Wallets : challenge'[v] = IF v = w THEN 0 ELSE challenge[v]
    BY <1>0, <2>1 DEF TypeOK
  <2>3. Handed' /\ OneKey' /\ HeldKey' /\ SpentKey'
    BY <1>b, <2>1, <2>2 DEF NonceInv, Handed, OneKey, HeldKey, SpentKey, Holding
  <2>4. OneHolder' /\ HeldUnspent' /\ NonceOnceUnlessRaced'
    BY <2>1 DEF NonceInv, OneHolder, HeldUnspent, NonceOnceUnlessRaced, Holding
  <2> QED
    BY <1>0, <2>3, <2>4 DEF NonceInv
<1>3. ASSUME NEW c \in Calls, NEW w \in Wallets, LoginRead(c, w) PROVE NonceInv'
  <2> DEFINE n == challenge[w]
  <2>1. /\ n # 0 /\ n \in 1 .. issued
        /\ UNCHANGED <<challenge, issued, made, nonce>>
        /\ raced \subseteq raced'
        /\ \A d \in Calls : call[d].pc = "consume" /\ call[d].nonce = n => n \in raced'
    BY <1>3, <1>b DEF LoginRead, rows, NonceInv, Handed
  <2>2. /\ call'[c].pc = "consume" /\ call'[c].user = w /\ call'[c].nonce = n
        /\ \A d \in Calls : d # c => call'[d] = call[d]
    BY <1>3, <1>a DEF LoginRead, IdleCall
  <2>3. Handed' /\ OneKey' /\ SpentKey' /\ NonceOnceUnlessRaced'
    BY <2>1, <2>2 DEF NonceInv, Handed, OneKey, SpentKey, NonceOnceUnlessRaced, Holding
  <2>4. HeldKey'
    BY <2>1, <2>2 DEF NonceInv, HeldKey, OneKey
  <2>5. \A d \in Calls : Holding(d) /\ call[d].nonce = n => n \in raced'
    BY <2>1 DEF NonceInv, HeldKey, Holding
  <2>6. OneHolder'
    BY <2>1, <2>2, <2>5 DEF NonceInv, OneHolder, Holding
  <2>7. HeldUnspent'
    BY <2>1, <2>2 DEF NonceInv, HeldUnspent, SpentKey, Holding
  <2> QED
    BY <1>0, <2>3, <2>4, <2>6, <2>7 DEF NonceInv
<1>4. ASSUME NEW c \in Calls, LoginConsume(c) PROVE NonceInv'
  <2>1. /\ call[c].pc = "consume"
        /\ challenge' = [challenge EXCEPT ![call[c].user] = 0]
        /\ UNCHANGED <<issued, made, nonce, raced>>
    BY <1>4 DEF LoginConsume, rows, history
  <2>2. /\ call'[c].pc = "create" /\ call'[c].user = call[c].user
        /\ call'[c].nonce = call[c].nonce
        /\ \A d \in Calls : d # c => call'[d] = call[d]
    BY <1>4, <1>a DEF LoginConsume, Go, CallType
  <2>3. \A v \in Wallets : challenge'[v] = IF v = call[c].user THEN 0 ELSE challenge[v]
    BY <1>0, <2>1 DEF TypeOK
  <2>4. \A d \in Calls : (Holding(d)' <=> Holding(d)) /\ call'[d].nonce = call[d].nonce
    BY <2>1, <2>2 DEF Holding
  <2>5. Handed' /\ OneKey' /\ SpentKey'
    BY <1>b, <2>1, <2>3, <2>4 DEF NonceInv, Handed, OneKey, SpentKey
  <2>6. HeldKey'
    BY <1>b, <2>1, <2>2, <2>3 DEF NonceInv, HeldKey, Holding
  <2>7. OneHolder' /\ HeldUnspent' /\ NonceOnceUnlessRaced'
    BY <2>1, <2>4 DEF NonceInv, OneHolder, HeldUnspent, NonceOnceUnlessRaced
  <2> QED
    BY <1>0, <2>5, <2>6, <2>7 DEF NonceInv
<1>5. ASSUME NEW c \in Calls, LoginCreate(c) PROVE NonceInv'
  <2> DEFINE n == call[c].nonce
  <2>1. /\ Holding(c) /\ call[c].pc = "create" /\ made' = made + 1
        /\ UNCHANGED <<challenge, issued, raced>>
    BY <1>5 DEF LoginCreate, Holding
  <2>2. nonce'[made + 1] = n /\ \A s \in 1 .. made : nonce'[s] = nonce[s]
    BY <1>0, <1>5 DEF LoginCreate, TypeOK, Sessions
  <2>3. ~Holding(c)' /\ \A d \in Calls : d # c => call'[d] = call[d]
    BY <1>5, <1>a DEF LoginCreate, CallType, Holding
  <2>4. \A s \in 1 .. made' : s = made + 1 \/ s \in 1 .. made
    BY <1>b, <2>1
  <2>5. \A d \in Calls : Holding(d)' => d # c /\ Holding(d) /\ call'[d] = call[d]
    BY <2>3 DEF Holding
  <2>6. Handed' /\ OneKey' /\ SpentKey'
    BY <2>1, <2>2, <2>4, <2>5 DEF NonceInv, Handed, OneKey, SpentKey, HeldKey
  <2>7. HeldKey'
    BY <2>1, <2>5 DEF NonceInv, HeldKey, Holding
  <2>8. OneHolder'
    BY <2>1, <2>5 DEF NonceInv, OneHolder
  <2>9. HeldUnspent'
    BY <2>1, <2>2, <2>4, <2>5 DEF NonceInv, HeldUnspent, OneHolder
  <2>10. NonceOnceUnlessRaced'
    BY <2>1, <2>2, <2>4 DEF NonceInv, NonceOnceUnlessRaced, HeldUnspent
  <2> QED
    BY <1>0, <2>6, <2>7, <2>8, <2>9, <2>10 DEF NonceInv
<1>6. ASSUME NEW c \in Calls, LoginCount(c) PROVE NonceInv'
  <2>1. \A d \in Calls : Holding(d)' => call'[d] = call[d]
    BY <1>6, <1>a DEF LoginCount, Go, End, IdleCall, CallType, Holding
  <2> QED
    BY <1>0, <1>6, <2>1, NonceQuiet DEF LoginCount, rows, history
<1>7. ASSUME NEW c \in Calls, LoginFind(c) PROVE NonceInv'
  <2>1. \A d \in Calls : Holding(d)' => call'[d] = call[d]
    BY <1>7, <1>a DEF LoginFind, End, IdleCall, CallType, Holding
  <2> QED
    BY <1>0, <1>7, <2>1, NonceQuiet DEF LoginFind, rows, history
<1>8. ASSUME NEW c \in Calls, LoginRevoke(c) PROVE NonceInv'
  <2>1. \A d \in Calls : Holding(d)' => call'[d] = call[d]
    BY <1>8, <1>a DEF LoginRevoke, End, IdleCall, Holding
  <2> QED
    BY <1>0, <1>8, <2>1, NonceQuiet DEF LoginRevoke, history
<1>9. ASSUME NEW c \in Calls, Fault(c) PROVE NonceInv'
  <2>1. \A d \in Calls : Holding(d)' => call'[d] = call[d]
    BY <1>9, <1>a DEF Fault, End, IdleCall, Holding
  <2> QED
    BY <1>0, <1>9, <2>1, NonceQuiet DEF Fault, rows
<1>10. ASSUME NEW s \in Sessions, Logout(s) PROVE NonceInv'
  BY <1>0, <1>10, NonceQuiet DEF Logout, Holding
<1>11. CASE UNCHANGED vars
  BY <1>0, <1>11, NonceQuiet DEF vars, rows, history, Holding
<1> QED
  BY <1>1, <1>2, <1>3, <1>4, <1>5, <1>6, <1>7, <1>8, <1>9, <1>10, <1>11, NextCases

\* A nonce gives one session, unless two logins had both found it valid.
THEOREM NonceOnce == Spec => []NonceOnceUnlessRaced
<1>1. NonceInv => NonceOnceUnlessRaced
  BY DEF NonceInv
<1> QED
  BY NonceInit, NonceStep, <1>1, PTL DEF Spec

-----------------------------------------------------------------------------
(* The cap holds, and spares the session of the login that enforces it.    *)

Alone(w) == \A c, d \in CappingOf(w) : c = d

WithinCap(w) == Cardinality(Active(w)) <= MaxSessionsPerUser

\* Of a user whose logins do not overlap: who is over the cap has a login at work,
\* and is one over; what that login found is open, unless a logout did its work.
CapOK(w) ==
    /\ Alone(w)
    /\ CappingOf(w) = {} => WithinCap(w)
    /\ Cardinality(Active(w)) <= MaxSessionsPerUser + 1
    /\ \A c \in CappingOf(w) :
        call[c].pc = "revoke" => WithinCap(w) \/ ended[call[c].oldest] = "open"

\* That login's own session is the newest, and not the oldest of more than one.
OwnOK(w) ==
    \A c \in CappingOf(w) :
        /\ \A s \in SessionsOf(w) : s <= call[c].own
        /\ w \notin left => /\ call[c].pc = "find" => ~ WithinCap(w)
                            /\ call[c].pc = "revoke" => call[c].oldest # call[c].own

\* A login only finds sessions of its user.
FoundOwn == \A c \in Calls : call[c].pc = "revoke" => user[call[c].oldest] = call[c].user

SessionInv ==
    /\ CapInv /\ FoundOwn
    /\ \A w \in Wallets \ crossed : CapOK(w) /\ OwnOK(w)

LEMMA ActiveFinite ==
    ASSUME TypeOK, NEW w
    PROVE  /\ SessionsOf(w) \in SUBSET (1 .. made) /\ Active(w) \in SUBSET SessionsOf(w)
           /\ IsFiniteSet(Active(w)) /\ Cardinality(Active(w)) \in Nat
<1>1. SessionsOf(w) \in SUBSET (1 .. made) /\ Active(w) \in SUBSET SessionsOf(w)
  BY DEF SessionsOf, Active
<1>2. IsFiniteSet(1 .. made)
  BY AuthAssumption, FS_Interval DEF TypeOK
<1>3. Active(w) \in SUBSET (1 .. made)
  BY <1>1
<1> QED
  BY <1>1, <1>2, <1>3, FS_Subset, FS_CardinalityType

LEMMA SessionProps == SessionInv => CapUnlessCrossed /\ OwnSessionKept
<1> SUFFICES ASSUME SessionInv PROVE CapUnlessCrossed /\ OwnSessionKept
  OBVIOUS
<1>0. TypeOK
  BY DEF SessionInv, CapInv
<1>1. ASSUME NEW w \in Wallets \ crossed
      PROVE  Cardinality(Active(w)) <= MaxSessionsPerUser + Cardinality(CappingOf(w))
  <2>1. CapOK(w)
    BY DEF SessionInv
  <2>2. Cardinality(Active(w)) \in Nat
    BY <1>0, ActiveFinite
  <2>3. CASE CappingOf(w) = {}
    BY <2>1, <2>2, <2>3, FS_EmptySet, AuthAssumption DEF CapOK, WithinCap
  <2>4. CASE CappingOf(w) # {}
    <3>1. PICK c : CappingOf(w) = {c}
      BY <2>1, <2>4 DEF CapOK, Alone
    <3>2. Cardinality(CappingOf(w)) = 1
      BY <3>1, FS_Singleton
    <3> QED
      BY <2>1, <2>2, <3>2, AuthAssumption DEF CapOK
  <2> QED
    BY <2>3, <2>4
<1>2. ASSUME NEW c \in Calls, call[c].pc = "revoke", call[c].user \notin crossed \cup left
      PROVE  call[c].oldest # call[c].own
  <2>1. call[c].user \in Wallets \ crossed /\ c \in CappingOf(call[c].user)
    BY <1>0, <1>2 DEF TypeOK, CappingOf, Capping
  <2> QED
    BY <1>2, <2>1 DEF SessionInv, OwnOK
<1> QED
  BY <1>1, <1>2 DEF CapUnlessCrossed, OwnSessionKept

\* A step that changes nothing a user's logins and sessions depend on.
LEMMA UserQuiet ==
    ASSUME SessionInv, NEW w \in Wallets \ crossed, w \notin crossed', left \subseteq left',
           CappingOf(w)' = CappingOf(w), \A c \in CappingOf(w) : call'[c] = call[c],
           SessionsOf(w)' = SessionsOf(w), \A s \in SessionsOf(w) : ended'[s] = ended[s]
    PROVE  CapOK(w)' /\ OwnOK(w)'
<1>0. CapOK(w) /\ OwnOK(w) /\ TypeOK
  BY DEF SessionInv, CapInv
<1>1. Active(w)' = Active(w)
  BY DEF Active
<1>2. WithinCap(w)' = WithinCap(w)
  BY <1>1 DEF WithinCap
<1>3. \A c \in CappingOf(w) : call[c].pc = "revoke" => ended'[call[c].oldest] = ended[call[c].oldest]
  <2> SUFFICES ASSUME NEW c \in CappingOf(w), call[c].pc = "revoke"
               PROVE  call[c].oldest \in SessionsOf(w)
    OBVIOUS
  <2> QED
    BY <1>0 DEF SessionInv, FoundOwn, CappingOf, SessionsOf, TypeOK
<1>4. CapOK(w)'
  BY <1>0, <1>1, <1>2, <1>3 DEF CapOK, Alone
<1>5. OwnOK(w)'
  BY <1>0, <1>2 DEF OwnOK
<1> QED
  BY <1>4, <1>5

\* A step that leaves all sessions and all logins past their insert as they are.
LEMMA SessionQuiet ==
    ASSUME SessionInv, CapInv', UNCHANGED rows, crossed \subseteq crossed', left \subseteq left',
           \A c \in Calls : call[c].pc \in Capping \/ call'[c].pc \in Capping => call'[c] = call[c]
    PROVE  SessionInv'
<1>1. ASSUME NEW w \in Wallets \ crossed' PROVE CapOK(w)' /\ OwnOK(w)'
  <2>1. CappingOf(w)' = CappingOf(w) /\ \A c \in CappingOf(w) : call'[c] = call[c]
    BY DEF CappingOf
  <2>2. SessionsOf(w)' = SessionsOf(w) /\ \A s \in SessionsOf(w) : ended'[s] = ended[s]
    BY DEF SessionsOf, rows
  <2> QED
    BY <2>1, <2>2, UserQuiet
<1>2. FoundOwn'
  BY DEF SessionInv, FoundOwn, rows, Capping
<1> QED
  BY <1>1, <1>2 DEF SessionInv

\* Inserting: unless another login of the user is past its own insert, the user is
\* within the cap before and one over at most after, and the new session is the newest.
LEMMA SessionCreate ==
    ASSUME SessionInv, NEW c \in Calls, LoginCreate(c)
    PROVE  SessionInv'
<1>0. TypeOK /\ CapInv /\ CapInv'
  BY CapStep DEF SessionInv, CapInv, Next, LoginStep
<1>a. call \in [Calls -> CallType]
  BY <1>0, TypeCalls DEF CallsOK
<1>1. PICK u : u = call[c].user
  OBVIOUS
<1>2. /\ made' = made + 1 /\ made \in Nat /\ made + 1 \in Sessions /\ u \in Wallets
      /\ user'[made + 1] = u /\ \A s \in 1 .. made : user'[s] = user[s]
      /\ ended' = ended /\ left' = left
  BY <1>0, <1>1 DEF LoginCreate, TypeOK, Sessions
<1>3. /\ call'[c].pc = "count" /\ call'[c].user = u /\ call'[c].own = made + 1
      /\ call[c].pc = "create" /\ \A d \in Calls : d # c => call'[d] = call[d]
  BY <1>1, <1>a DEF LoginCreate, CallType
<1>4. crossed \subseteq crossed' /\ (CappingOf(u) # {} => u \in crossed')
  BY <1>1 DEF LoginCreate
<1>5. \A w : SessionsOf(w)' = SessionsOf(w) \cup (IF w = u THEN {made + 1} ELSE {})
  <2> SUFFICES ASSUME NEW w
               PROVE  SessionsOf(w)' = SessionsOf(w) \cup (IF w = u THEN {made + 1} ELSE {})
    OBVIOUS
  <2>1. 1 .. made' = (1 .. made) \cup {made + 1}
    BY <1>2
  <2> QED
    BY <1>2, <2>1 DEF SessionsOf
<1>6. \A w : CappingOf(w)' = CappingOf(w) \cup (IF w = u THEN {c} ELSE {})
  BY <1>3 DEF CappingOf, Capping
<1>7. c \notin CappingOf(u)
  BY <1>3 DEF CappingOf, Capping
<1>8. ASSUME NEW w \in Wallets \ crossed', w # u PROVE CapOK(w)' /\ OwnOK(w)'
  <2>1. CappingOf(w)' = CappingOf(w) /\ SessionsOf(w)' = SessionsOf(w)
    BY <1>5, <1>6, <1>8
  <2>2. \A d \in CappingOf(w) : call'[d] = call[d]
    BY <1>3 DEF CappingOf, Capping
  <2> QED
    BY <1>2, <1>4, <2>1, <2>2, UserQuiet
<1>9. ASSUME u \notin crossed' PROVE CapOK(u)' /\ OwnOK(u)'
  <2>1. CappingOf(u) = {} /\ CappingOf(u)' = {c}
    BY <1>4, <1>6, <1>9
  <2>2. WithinCap(u) /\ IsFiniteSet(Active(u)) /\ Cardinality(Active(u)) \in Nat
    BY <1>0, <1>2, <1>4, <1>9, <2>1, ActiveFinite DEF SessionInv, CapOK
  <2>3. Active(u)' = Active(u) \cup {made + 1}
    <3>1. ended[made + 1] = "open"
      BY <1>0, <1>2 DEF CapInv, UnmadeOpen
    <3> QED
      BY <1>2, <1>5, <3>1 DEF Active
  <2>4. Cardinality(Active(u)') <= MaxSessionsPerUser + 1
    <3>1. Cardinality(Active(u) \cup {made + 1}) <= Cardinality(Active(u)) + 1
      BY <2>2, FS_AddElement
    <3>2. Cardinality(Active(u) \cup {made + 1}) \in Nat
      BY <2>2, FS_AddElement, FS_CardinalityType
    <3> QED
      BY <2>2, <2>3, <3>1, <3>2, AuthAssumption DEF WithinCap
  <2>5. CapOK(u)'
    BY <1>3, <2>1, <2>4 DEF CapOK, Alone
  <2>6. \A s \in SessionsOf(u)' : s <= made + 1
    BY <1>2, <1>5 DEF SessionsOf
  <2>7. OwnOK(u)'
    BY <1>3, <2>1, <2>6 DEF OwnOK
  <2> QED
    BY <2>5, <2>7
<1>10. FoundOwn'
  <2> SUFFICES ASSUME NEW d \in Calls, call'[d].pc = "revoke"
               PROVE  user'[call'[d].oldest] = call'[d].user
    BY DEF FoundOwn
  <2>1. call'[d] = call[d] /\ call[d].oldest \in 1 .. made
    BY <1>0, <1>3 DEF TypeOK
  <2> QED
    BY <1>2, <2>1 DEF SessionInv, FoundOwn
<1> QED
  BY <1>0, <1>8, <1>9, <1>10 DEF SessionInv

\* Finding: among more than one active session the newest is not the oldest.
LEMMA SessionFind ==
    ASSUME SessionInv, NEW c \in Calls, LoginCount(c) \/ LoginFind(c)
    PROVE  SessionInv'
<1>0. TypeOK /\ CapInv /\ CapInv'
  BY CapStep DEF SessionInv, CapInv, Next, LoginStep
<1>a. call \in [Calls -> CallType]
  BY <1>0, TypeCalls DEF CallsOK
<1>1. PICK u : u = call[c].user
  OBVIOUS
<1>2. UNCHANGED <<made, user, ended, crossed, left>>
  BY DEF LoginCount, LoginFind, rows, history
<1>3. /\ call[c].pc \in {"count", "find"} /\ u \in Wallets /\ c \in CappingOf(u)
  BY <1>0, <1>1 DEF LoginCount, LoginFind, TypeOK, Capping, CappingOf
<1>4. \A d \in Calls : d # c => call'[d] = call[d]
  BY <1>a DEF LoginCount, LoginFind, Go, End
<1>5. \/ call'[c].pc = "idle" /\ WithinCap(u)
      \/ /\ call'[c].pc = "find" /\ ~ WithinCap(u)
         /\ call'[c].user = u /\ call'[c].own = call[c].own
      \/ /\ call[c].pc = "find" /\ call'[c].pc = "revoke"
         /\ call'[c].user = u /\ call'[c].own = call[c].own
         /\ call'[c].oldest \in Active(u) /\ \A t \in Active(u) : call'[c].oldest <= t
  <2>1. CASE LoginCount(c)
    <3>1. Cardinality(Active(u)) \in Nat
      BY <1>0, ActiveFinite
    <3> QED
      BY <2>1, <3>1, <1>1, <1>a, AuthAssumption DEF LoginCount, Go, End, IdleCall, CallType, WithinCap
  <2>2. CASE LoginFind(c) /\ Active(u) = {}
    <3>1. WithinCap(u)
      BY <2>2, FS_EmptySet, AuthAssumption DEF WithinCap
    <3>2. call' = [call EXCEPT ![c] = IdleCall]
      BY <2>2, <1>1 DEF LoginFind, End
    <3> QED
      BY <3>1, <3>2, <1>a DEF IdleCall
  <2>3. CASE LoginFind(c) /\ Active(u) # {}
    <3>1. PICK s \in Active(u) : /\ \A t \in Active(u) : s <= t
                                /\ call' = [call EXCEPT ![c].pc = "revoke", ![c].oldest = s]
      BY <2>3, <1>1 DEF LoginFind
    <3>2. /\ call'[c].pc = "revoke" /\ call'[c].oldest = s
          /\ call'[c].user = call[c].user /\ call'[c].own = call[c].own
      BY <3>1, <1>a DEF CallType
    <3>3. call[c].pc = "find"
      BY <2>3 DEF LoginFind
    <3> QED
      BY <3>1, <3>2, <3>3, <1>1
  <2> QED
    BY <2>1, <2>2, <2>3
<1>6. \A w : SessionsOf(w)' = SessionsOf(w) /\ Active(w)' = Active(w)
  BY <1>2 DEF SessionsOf, Active
<1>7. \A w : w # u => CappingOf(w)' = CappingOf(w)
  BY <1>1, <1>4, <1>5 DEF CappingOf, Capping
<1>8. ASSUME NEW w \in Wallets \ crossed', w # u PROVE CapOK(w)' /\ OwnOK(w)'
  <2>1. \A d \in CappingOf(w) : call'[d] = call[d]
    BY <1>1, <1>4, <1>8 DEF CappingOf
  <2> QED
    BY <1>2, <1>6, <1>7, <1>8, <2>1, UserQuiet
<1>9. ASSUME u \notin crossed' PROVE CapOK(u)' /\ OwnOK(u)'
  <2>1. CapOK(u) /\ OwnOK(u) /\ CappingOf(u) = {c}
    <3>1. CapOK(u) /\ OwnOK(u)
      BY <1>2, <1>3, <1>9 DEF SessionInv
    <3> QED
      BY <3>1, <1>3 DEF CapOK, Alone
  <2>2. CappingOf(u)' \subseteq {c} /\ (WithinCap(u)' <=> WithinCap(u))
    BY <2>1, <1>4, <1>6 DEF CappingOf, WithinCap
  <2>3. CASE call'[c].pc = "idle" /\ WithinCap(u)
    <3>1. CappingOf(u)' = {}
      BY <2>2, <2>3 DEF CappingOf, Capping
    <3> QED
      BY <3>1, <2>1, <2>2, <2>3, <1>6 DEF CapOK, OwnOK, Alone
  <2>4. CASE call'[c].pc = "find" /\ ~ WithinCap(u) /\ call'[c].user = u /\ call'[c].own = call[c].own
    <3>1. CappingOf(u)' = {c}
      BY <2>2, <2>4 DEF CappingOf, Capping
    <3>2. CapOK(u)'
      BY <3>1, <2>1, <2>4, <1>6 DEF CapOK, Alone
    <3>3. OwnOK(u)'
      BY <3>1, <2>1, <2>2, <2>4, <1>6 DEF OwnOK
    <3> QED
      BY <3>2, <3>3
  <2>5. CASE /\ call[c].pc = "find" /\ call'[c].pc = "revoke"
             /\ call'[c].user = u /\ call'[c].own = call[c].own
             /\ call'[c].oldest \in Active(u) /\ \A t \in Active(u) : call'[c].oldest <= t
    <3>1. CappingOf(u)' = {c}
      BY <2>2, <2>5 DEF CappingOf, Capping
    <3>2. ended'[call'[c].oldest] = "open"
      BY <1>2, <2>5 DEF Active
    <3>3. CapOK(u)'
      BY <3>1, <3>2, <2>1, <1>6 DEF CapOK, Alone
    <3>4. ASSUME u \notin left PROVE call'[c].oldest # call[c].own
      <4> SUFFICES ASSUME call'[c].oldest = call[c].own PROVE FALSE
        OBVIOUS
      <4>1. ~ WithinCap(u) /\ \A s \in SessionsOf(u) : s <= call[c].own
        BY <2>1, <2>5, <3>4 DEF OwnOK
      <4>2. \A t \in Active(u) : t = call[c].own
        <5> SUFFICES ASSUME NEW t \in Active(u) PROVE t = call[c].own
          OBVIOUS
        <5>1. t <= call[c].own /\ call[c].own <= t
          BY <4>1, <2>5 DEF Active
        <5>2. t \in Nat /\ call[c].own \in Nat
          BY <1>0, <1>a, <1>3 DEF Active, SessionsOf, TypeOK, CallType, Sessions
        <5> QED
          BY <5>1, <5>2
      <4>3. Active(u) = {call[c].own}
        BY <4>2, <2>5
      <4>4. Cardinality(Active(u)) = 1
        BY <4>3, FS_Singleton
      <4> QED
        BY <4>1, <4>4, AuthAssumption DEF WithinCap
    <3>5. OwnOK(u)'
      BY <3>1, <3>4, <2>1, <2>5, <1>2, <1>6 DEF OwnOK
    <3> QED
      BY <3>3, <3>5
  <2> QED
    BY <1>5, <2>3, <2>4, <2>5
<1>10. FoundOwn'
  <2> SUFFICES ASSUME NEW d \in Calls, call'[d].pc = "revoke"
               PROVE  user'[call'[d].oldest] = call'[d].user
    BY DEF FoundOwn
  <2>1. CASE d = c
    BY <1>2, <1>5, <2>1 DEF Active, SessionsOf
  <2>2. CASE d # c
    BY <1>2, <1>4, <2>2 DEF SessionInv, FoundOwn
  <2> QED
    BY <2>1, <2>2
<1> QED
  BY <1>0, <1>8, <1>9, <1>10 DEF SessionInv

\* Closing: an open session fewer brings a user who is one over within the cap, and
\* one already closed was closed by a logout, which did.
LEMMA SessionClose ==
    ASSUME SessionInv, (\E c \in Calls : LoginRevoke(c)) \/ (\E s \in Sessions : Logout(s))
    PROVE  SessionInv'
<1>0. TypeOK /\ CapInv /\ CapInv'
  BY CapStep DEF SessionInv, CapInv, Next, LoginStep
<1>a. call \in [Calls -> CallType]
  BY <1>0, TypeCalls DEF CallsOK
\* The session u of whom is closed, by the call c of u or by u.
<1>b. ASSUME NEW s \in 1 .. made, NEW u \in Wallets \ crossed, u = user[s],
             UNCHANGED <<made, user, crossed>>, left \subseteq left',
             \A t \in Sessions : t # s => ended'[t] = ended[t],
             ended'[s] # "open",
             CappingOf(u)' \subseteq CappingOf(u),
             \A c \in CappingOf(u)' : call'[c] = call[c],
             CappingOf(u) # {} /\ u \notin left' => CappingOf(u)' = {},
             CappingOf(u)' # CappingOf(u) => ended[s] = "open" \/ WithinCap(u)
      PROVE  CapOK(u)' /\ OwnOK(u)'
  <2>1. CapOK(u) /\ OwnOK(u)
    BY DEF SessionInv
  <2>2. made \in Nat /\ \A t \in 1 .. made : t \in Sessions
    BY <1>0, AuthAssumption DEF TypeOK, Sessions
  <2>3. SessionsOf(u)' = SessionsOf(u) /\ Active(u)' = Active(u) \ {s}
    BY <1>b, <2>2 DEF SessionsOf, Active
  <2>4. s \in Active(u) <=> ended[s] = "open"
    BY <1>b DEF Active, SessionsOf
  <2>5. IsFiniteSet(Active(u)) /\ Cardinality(Active(u)) \in Nat
    BY <1>0, ActiveFinite
  <2>6. /\ Cardinality(Active(u)') = IF ended[s] = "open" THEN Cardinality(Active(u)) - 1
                                     ELSE Cardinality(Active(u))
        /\ Cardinality(Active(u)') \in Nat
    BY <2>3, <2>4, <2>5, FS_RemoveElement, FS_CardinalityType
  <2>7. WithinCap(u) => WithinCap(u)'
    BY <2>5, <2>6, AuthAssumption DEF WithinCap
  <2>8. ended[s] = "open" => WithinCap(u)'
    BY <2>1, <2>5, <2>6, AuthAssumption DEF CapOK, WithinCap
  <2>9. Cardinality(Active(u)') <= MaxSessionsPerUser + 1
    BY <2>1, <2>5, <2>6, AuthAssumption DEF CapOK
  <2>10. CappingOf(u)' = {} => WithinCap(u)'
    BY <1>b, <2>1, <2>7, <2>8 DEF CapOK
  <2>11. \A c \in CappingOf(u)' : call'[c].pc = "revoke" =>
            WithinCap(u)' \/ ended'[call'[c].oldest] = "open"
    <3> SUFFICES ASSUME NEW c \in CappingOf(u)', call'[c].pc = "revoke"
                 PROVE  WithinCap(u)' \/ ended'[call'[c].oldest] = "open"
      OBVIOUS
    <3>1. c \in CappingOf(u) /\ call'[c] = call[c] /\ call[c].oldest \in Sessions
      BY <1>0, <1>b, <2>2 DEF CappingOf, TypeOK
    <3>2. WithinCap(u) \/ ended[call[c].oldest] = "open"
      BY <2>1, <3>1 DEF CapOK
    <3> QED
      BY <1>b, <2>7, <2>8, <3>1, <3>2
  <2>12. CapOK(u)'
    BY <1>b, <2>1, <2>9, <2>10, <2>11 DEF CapOK, Alone
  <2>13. OwnOK(u)'
    BY <1>b, <2>1, <2>3 DEF OwnOK
  <2> QED
    BY <2>12, <2>13
<1>1. ASSUME NEW c \in Calls, LoginRevoke(c) PROVE SessionInv'
  <2>1. PICK s, u : s = call[c].oldest /\ u = call[c].user
    OBVIOUS
  <2>2. /\ s \in 1 .. made /\ s \in Sessions /\ u \in Wallets /\ user[s] = u
        /\ call[c].pc = "revoke" /\ c \in CappingOf(u)
    BY <1>0, <1>1, <2>1 DEF LoginRevoke, TypeOK, Sessions, Capping, CappingOf, SessionInv, FoundOwn
  <2>3. /\ UNCHANGED <<made, user, crossed, left>>
        /\ \A t \in Sessions : t # s => ended'[t] = ended[t]
        /\ ended'[s] # "open"
    BY <1>0, <1>1, <2>1, <2>2 DEF LoginRevoke, history, TypeOK
  <2>4. call'[c] = IdleCall /\ \A d \in Calls : d # c => call'[d] = call[d]
    BY <1>1, <1>a DEF LoginRevoke, End
  <2>5. \A w : CappingOf(w)' = CappingOf(w) \ {c}
    BY <2>4 DEF CappingOf, IdleCall, Capping
  <2>6. \A w : w # u => c \notin CappingOf(w)
    BY <2>1 DEF CappingOf
  <2>7. \A t \in 1 .. made : t \in Sessions
    BY <1>0, AuthAssumption DEF TypeOK, Sessions
  <2>8. ASSUME NEW w \in Wallets \ crossed', w # u PROVE CapOK(w)' /\ OwnOK(w)'
    <3>1. CappingOf(w)' = CappingOf(w) /\ \A d \in CappingOf(w) : call'[d] = call[d]
      BY <2>4, <2>5, <2>6, <2>8 DEF CappingOf
    <3>2. SessionsOf(w)' = SessionsOf(w) /\ \A t \in SessionsOf(w) : ended'[t] = ended[t]
      BY <2>2, <2>3, <2>7, <2>8 DEF SessionsOf
    <3> QED
      BY <2>3, <3>1, <3>2, UserQuiet
  <2>9. ASSUME u \notin crossed' PROVE CapOK(u)' /\ OwnOK(u)'
    <3>1. CapOK(u)
      BY <2>2, <2>3, <2>9 DEF SessionInv
    <3>2. CappingOf(u)' = {} /\ (ended[s] = "open" \/ WithinCap(u))
      BY <2>1, <2>2, <2>5, <3>1 DEF CapOK, Alone
    <3> QED
      BY <2>2, <2>3, <2>9, <3>2, <1>b
  <2>10. FoundOwn'
    BY <2>3, <2>4 DEF SessionInv, FoundOwn, IdleCall
  <2> QED
    BY <1>0, <2>8, <2>9, <2>10 DEF SessionInv
<1>2. ASSUME NEW s \in Sessions, Logout(s) PROVE SessionInv'
  <2>1. PICK u : u = user[s]
    OBVIOUS
  <2>2. /\ s \in 1 .. made /\ ended[s] = "open"
        /\ UNCHANGED <<made, user, crossed, call>> /\ left \subseteq left'
        /\ \A t \in Sessions : t # s => ended'[t] = ended[t]
        /\ ended'[s] # "open" /\ (CappingOf(u) # {} => u \in left')
    BY <1>0, <1>2, <2>1 DEF Logout, TypeOK
  <2>3. \A w : CappingOf(w)' = CappingOf(w) /\ \A c \in CappingOf(w) : call'[c] = call[c]
    BY <2>2 DEF CappingOf
  <2>4. \A t \in 1 .. made : t \in Sessions
    BY <1>0, AuthAssumption DEF TypeOK, Sessions
  <2>5. ASSUME NEW w \in Wallets \ crossed', w # u PROVE CapOK(w)' /\ OwnOK(w)'
    <3>1. SessionsOf(w)' = SessionsOf(w) /\ \A t \in SessionsOf(w) : ended'[t] = ended[t]
      BY <2>1, <2>2, <2>4, <2>5 DEF SessionsOf
    <3> QED
      BY <2>2, <2>3, <3>1, UserQuiet
  <2>6. ASSUME u \in Wallets \ crossed' PROVE CapOK(u)' /\ OwnOK(u)'
    BY <2>1, <2>2, <2>3, <2>6, <1>b
  <2>7. FoundOwn'
    BY <2>2 DEF SessionInv, FoundOwn
  <2> QED
    BY <1>0, <2>5, <2>6, <2>7 DEF SessionInv
<1> QED
  BY <1>1, <1>2

LEMMA SessionStep == SessionInv /\ [Next]_vars => SessionInv'
<1> SUFFICES ASSUME SessionInv, [Next]_vars PROVE SessionInv'
  OBVIOUS
<1>0. CapInv' /\ TypeOK
  BY CapStep DEF SessionInv, CapInv
<1>a. call \in [Calls -> CallType]
  BY <1>0, TypeCalls DEF CallsOK
<1>1. ASSUME NEW w \in Wallets, RequestChallenge(w) \/ ChallengeExpires(w) PROVE SessionInv'
  BY <1>0, <1>1, SessionQuiet DEF RequestChallenge, ChallengeExpires, history
<1>2. ASSUME NEW c \in Calls, NEW w \in Wallets, LoginRead(c, w) PROVE SessionInv'
  <2>1. \A d \in Calls : call[d].pc \in Capping \/ call'[d].pc \in Capping => call'[d] = call[d]
    BY <1>2, <1>a DEF LoginRead, IdleCall, Capping
  <2> QED
    BY <1>0, <1>2, <2>1, SessionQuiet DEF LoginRead
<1>3. ASSUME NEW c \in Calls, LoginConsume(c) PROVE SessionInv'
  <2>1. \A d \in Calls : call[d].pc \in Capping \/ call'[d].pc \in Capping => call'[d] = call[d]
    BY <1>3, <1>a DEF LoginConsume, Go, CallType, Capping
  <2> QED
    BY <1>0, <1>3, <2>1, SessionQuiet DEF LoginConsume, history
<1>4. ASSUME NEW c \in Calls, Fault(c) PROVE SessionInv'
  <2>1. call'[c] = IdleCall /\ \A d \in Calls : d # c => call'[d] = call[d]
    BY <1>4, <1>a DEF Fault, End
  <2>2. UNCHANGED rows /\ left' = left /\ crossed \subseteq crossed'
    BY <1>4 DEF Fault
  <2>3. ASSUME NEW w \in Wallets \ crossed' PROVE CapOK(w)' /\ OwnOK(w)'
    <3>1. c \notin CappingOf(w)
      BY <1>4, <2>3 DEF Fault, CappingOf
    <3>2. CappingOf(w)' = CappingOf(w) /\ \A d \in CappingOf(w) : call'[d] = call[d]
      BY <2>1, <3>1 DEF CappingOf, IdleCall, Capping
    <3>3. SessionsOf(w)' = SessionsOf(w) /\ \A t \in SessionsOf(w) : ended'[t] = ended[t]
      BY <2>2 DEF SessionsOf, rows
    <3> QED
      BY <2>2, <2>3, <3>2, <3>3, UserQuiet
  <2>4. FoundOwn'
    BY <2>1, <2>2 DEF SessionInv, FoundOwn, IdleCall, rows
  <2> QED
    BY <1>0, <2>3, <2>4 DEF SessionInv
<1>5. CASE UNCHANGED vars
  BY <1>0, <1>5, SessionQuiet DEF vars, history
<1> QED
  BY <1>1, <1>2, <1>3, <1>4, <1>5, SessionCreate, SessionFind, SessionClose, NextCases

LEMMA SessionInit == Init => SessionInv
<1> SUFFICES ASSUME Init PROVE SessionInv
  OBVIOUS
<1>1. \A c \in Calls : call[c].pc = "idle"
  BY DEF Init, IdleCall
<1>2. \A w : CappingOf(w) = {} /\ Active(w) = {}
  BY <1>1 DEF Init, CappingOf, Capping, Active, SessionsOf
<1>3. \A w : WithinCap(w) /\ Cardinality(Active(w)) <= MaxSessionsPerUser + 1
  BY <1>2, FS_EmptySet, AuthAssumption DEF WithinCap
<1>4. \A w : CapOK(w) /\ OwnOK(w)
  BY <1>2, <1>3 DEF CapOK, OwnOK, Alone
<1>5. FoundOwn
  BY <1>1 DEF FoundOwn
<1> QED
  BY <1>4, <1>5, CapInit DEF SessionInv

\* A user whose logins do not overlap past their inserts, and do not fail there, has
\* no more active sessions than the cap, but for the login that is to enforce it.
THEOREM CapHolds == Spec => []CapUnlessCrossed
  BY SessionInit, SessionStep, SessionProps, PTL DEF Spec

\* A login does not revoke the session it answers with, unless the user logs out or
\* in again under it.
THEOREM OwnSession == Spec => []OwnSessionKept
  BY SessionInit, SessionStep, SessionProps, PTL DEF Spec
=============================================================================
