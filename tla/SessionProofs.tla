---------------------------- MODULE SessionProofs ----------------------------
(***************************************************************************)
(* The SDK's two halves: calls with an account, and live events.           *)
(*                                                                         *)
(* What the SDK's account promises, for every set of wallets and calls,    *)
(* every number of retries and every mix of faults (ApiSession).           *)
(* Every step moves each call in one of six ways (CallMoves), issues one   *)
(* pair of tokens or none (MintSteps), and keeps, ends or replaces the     *)
(* session (SessionSteps).  EffectInv: what has taken effect and may not   *)
(* be repeated is at its end.  MintInv, RetryInv: a pair on its way to the *)
(* client is in no session and no request, so what follows a refresh is    *)
(* never the token that was refused.  OwnedInv: unless a race was noted,   *)
(* session, refreshes and sign-in agree on the user, and a wallet that has *)
(* a user keeps it.                                                        *)
(*                                                                         *)
(* What the realtime client promises its handlers, for every set of them,  *)
(* of addresses, of sockets and of faults (RealtimeClient).  RealtimeInv:  *)
(* unless a close() has overtaken a subscribe(), the open socket is the    *)
(* client's, one that is loading is waited for, and an event is on its way *)
(* only to the open one, and only until somebody has heard it.             *)
(***************************************************************************)
EXTENDS ApiSession, RealtimeClient, FiniteSetTheorems, TLAPS

\* What the argument needs to know of the variables' types.
Request == [kind : Kinds \cup {"verify"}, token : Nat, refused : Nat,
            stage : {"idle", "sent", "answered", "refreshing", "sleeping", "ok", "failed"},
            attempt : Nat, refreshed : BOOLEAN, executed : Nat,
            answer : {"none", "ok", "unauthorized", "limited", "lost"}]

Refresh == [stage : {"idle", "sent", "answered", "done"}, token : Nat, minted : Nat,
            answer : {"none", "ok", "refused", "lost"}]

Login == [wallet : Wallets \cup {"none"}, user : Nat, minted : Nat,
          step : {"idle", "asked", "checked", "refused", "found", "done"}]

CallsOK == calls \in [Requests -> Request]

SessionOK == session \in [user : Nat, wallet : Wallets \cup {"none"}, token : Nat]

RefreshesOK == refreshes \in [{"shared", "forced"} -> Refresh]

TokensOK == tokens \in Seq([user : Nat, access : BOOLEAN, refresh : BOOLEAN])

LoginsOK ==
    /\ logins \in [Devices -> Login]
    /\ \A d \in Devices : logins[d].step # "idle" => logins[d].wallet \in Wallets

OwnerOK == owner \in [Wallets -> Nat]

TypeInv == CallsOK /\ SessionOK /\ RefreshesOK /\ TokensOK /\ LoginsOK /\ OwnerOK

\* There is always a user who has neither a wallet nor a token yet.
LEMMA NewUserIsNew ==
    ASSUME TokensOK, OwnerOK
    PROVE  NewUser \in Nat \ {NoUser}
<1> DEFINE owners == {owner[w] : w \in Wallets}
           bearers == {tokens[n].user : n \in DOMAIN tokens}
           bearer == [n \in DOMAIN tokens |-> tokens[n].user]
           n == Cardinality(Users)
<1>1. IsFiniteSet(owners)
  <2>1. owner \in Surjection(Wallets, owners)
    BY DEF OwnerOK, Surjection
  <2> QED
    BY <2>1, FS_Surjection, SessionAssumption
<1>2. IsFiniteSet(bearers)
  <2>1. bearer \in Surjection(DOMAIN tokens, bearers)
    BY DEF Surjection
  <2>2. DOMAIN tokens = 1..Len(tokens) /\ Len(tokens) \in Nat
    BY DEF TokensOK
  <2>3. IsFiniteSet(DOMAIN tokens)
    BY <2>2, FS_Interval
  <2> QED
    BY <2>1, <2>3, FS_Surjection
<1>3. IsFiniteSet(Users)
  BY <1>1, <1>2, FS_Union DEF Users
<1>4. n \in Nat
  BY <1>3, FS_CardinalityType
<1>5. \E u \in 1..(n + 1) : u \notin Users
  <2> SUFFICES ASSUME 1..(n + 1) \subseteq Users
               PROVE FALSE
    OBVIOUS
  <2> HIDE DEF n
  <2>1. Cardinality(1..(n + 1)) = n + 1
    BY <1>4, FS_Interval
  <2>2. Cardinality(1..(n + 1)) <= Cardinality(Users)
    BY <1>3, FS_Subset
  <2> QED
    BY <2>1, <2>2, <1>4 DEF n
<1>6. NewUser \in 1..(n + 1)
  BY <1>5 DEF NewUser
<1> QED
  BY <1>4, <1>6 DEF NoUser

\* The first states have the types.
LEMMA InitTypeInv == Init => TypeInv
<1> SUFFICES ASSUME Init PROVE TypeInv
  OBVIOUS
<1>1. CallsOK
  <2>1. PICK kind \in [Calls -> Kinds] :
           calls = [c \in Requests |-> NotCalled(IF c = "verify" THEN c ELSE kind[c])]
    BY DEF Init
  <2>2. \A c \in Requests : (IF c = "verify" THEN c ELSE kind[c]) \in Kinds \cup {"verify"}
    BY <2>1 DEF Requests
  <2>3. \A k \in Kinds \cup {"verify"} : NotCalled(k) \in Request
    BY DEF NotCalled, Request, NoToken
  <2> QED
    BY <2>1, <2>2, <2>3 DEF CallsOK
<1>2. SessionOK /\ TokensOK /\ OwnerOK
  <2>1. CASE session = NoSession
    <3>1. session.token # 1
      BY <2>1 DEF NoSession, NoToken
    <3>2. tokens = << >> /\ owner = [w \in Wallets |-> NoUser]
      BY <3>1 DEF Init
    <3> QED
      BY <2>1, <3>2 DEF SessionOK, TokensOK, OwnerOK, NoSession, NoUser, NoToken
  <2>2. CASE session # NoSession
    <3>1. PICK w \in Wallets, access \in BOOLEAN, refresh \in BOOLEAN :
             /\ tokens = << [user |-> 1, access |-> access, refresh |-> refresh] >>
             /\ owner = [v \in Wallets |-> IF v = w THEN 1 ELSE NoUser]
             /\ session = [user |-> 1, wallet |-> w, token |-> 1]
      BY <2>2 DEF Init
    <3>2. SessionOK /\ OwnerOK
      BY <3>1 DEF SessionOK, OwnerOK, NoUser
    <3>3. TokensOK
      BY <3>1 DEF TokensOK
    <3> QED
      BY <3>2, <3>3
  <2> QED
    BY <2>1, <2>2
<1>3. RefreshesOK /\ LoginsOK
  BY DEF Init, RefreshesOK, LoginsOK, NoRefresh, NoLogin, Refresh, Login, NoToken, NoUser, Devices
<1> QED
  BY <1>1, <1>2, <1>3 DEF TypeInv

-----------------------------------------------------------------------------
(* What a step may do to one call: r becomes q, where `now` is the token   *)
(* of the session after the step.                                          *)

\* The session that a shared refresh leaves to those who waited for it.
Renewed(now) ==
    \/ now = NoToken
    \/ refreshes["shared"].stage = "answered" /\ refreshes["shared"].answer = "ok"
          /\ now = refreshes["shared"].minted

Sends(r, q, now) ==
    /\ r.stage \in {"idle", "sleeping"} \/ (r.stage = "refreshing" /\ Renewed(now))
    /\ \E n \in Nat : q = [Attempt(r, [token |-> now]) EXCEPT !.attempt = n]

Hears(r, q) ==
    \E a \in {"ok", "unauthorized", "limited", "lost"}, n \in {r.executed, r.executed + 1} :
       /\ q = [r EXCEPT !.stage = "answered", !.answer = a, !.executed = n]
       /\ n # r.executed => a \in {"ok", "lost"}

AwaitsRefresh(r, q) ==
    /\ r.stage = "answered" /\ r.answer = "unauthorized"
    /\ q = [r EXCEPT !.stage = "refreshing", !.refreshed = TRUE, !.refused = r.token]

Sleeps(r, q) ==
    /\ r.stage = "answered"
    /\ r.answer = "limited" \/ (r.answer = "lost" /\ r.kind \in Idempotent)
    /\ q = [r EXCEPT !.stage = "sleeping"]

Ends(r, q, now) ==
    \E stage \in {"ok", "failed"} :
       /\ q = Settled(r, stage)
       /\ stage = "failed" /\ r.answer = "unauthorized"
             => now = NoToken \/ (r.stage = "answered" /\ r.refreshed)

Moves(c, r, q, now) ==
    \/ q = r
    \/ Sends(r, q, now)
    \/ Hears(r, q) /\ (c \in Calls => r.stage = "sent")
    \/ AwaitsRefresh(r, q)
    \/ Sleeps(r, q)
    \/ Ends(r, q, now)

\* One call moves, the others stay.
OneMoves(c) ==
    /\ c \in Requests
    /\ \E q \in Request : calls' = [calls EXCEPT ![c] = q] /\ Moves(c, calls[c], q, session'.token)

\* An attempt, field by field.
LEMMA AttemptCall ==
    ASSUME NEW r \in Request, NEW now, now.token \in Nat
    PROVE  /\ Attempt(r, now) \in Request
           /\ Attempt(r, now) = Attempt(r, [token |-> now.token])
           /\ \A n \in Nat : [Attempt(r, now) EXCEPT !.attempt = n] \in Request
<1>1. Attempt(r, now) \in Request
  BY DEF Attempt, Request
<1>2. PICK q : q = Attempt(r, now)
  OBVIOUS
<1>3. \A n \in Nat : [q EXCEPT !.attempt = n] \in Request
  BY <1>1, <1>2 DEF Request
<1>4. Attempt(r, now) = Attempt(r, [token |-> now.token])
  BY DEF Attempt
<1> QED
  BY <1>1, <1>2, <1>3, <1>4

\* What is left of a call, field by field.
LEMMA SettledCall ==
    ASSUME NEW r \in Request, NEW stage \in {"ok", "failed"}, NEW q, q = Settled(r, stage)
    PROVE  /\ q \in Request
           /\ q.kind = r.kind /\ q.stage = stage /\ q.executed = r.executed /\ ~q.refreshed
           /\ q.token = NoToken /\ q.refused = NoToken /\ q.answer = "none"
<1>1. PICK n : n = NotCalled(r.kind)
  OBVIOUS
<1>2. /\ n \in Request /\ n.kind = r.kind /\ ~n.refreshed
      /\ n.token = NoToken /\ n.refused = NoToken /\ n.answer = "none"
  BY <1>1 DEF NotCalled, Request, NoToken
<1>3. q = [n EXCEPT !.stage = stage, !.executed = r.executed]
  BY <1>1 DEF Settled
<1>4. r.executed \in Nat
  BY DEF Request
<1> QED
  BY <1>2, <1>3, <1>4 DEF Request

\* The calls that await the shared refresh go on together.
LEMMA ResumedCalls ==
    ASSUME TypeInv, ReceiveSharedRefresh
    PROVE  /\ calls' \in [Requests -> Request]
           /\ \A c \in Requests : Moves(c, calls[c], calls'[c], session'.token)
<1>1. calls \in [Requests -> Request]
  BY DEF TypeInv, CallsOK
<1>2. PICK goesOn \in BOOLEAN : /\ calls' = Resumed(goesOn, session')
                                /\ ~goesOn => session'.token = NoToken
                                /\ Renewed(session'.token)
  BY DEF ReceiveSharedRefresh, NoSession, Renewed, TypeInv, SessionOK
<1>3. session'.token \in Nat
  BY DEF ReceiveSharedRefresh, TypeInv, SessionOK, RefreshesOK, Refresh, NoSession, NoToken
<1> SUFFICES ASSUME NEW c \in Requests
             PROVE  calls'[c] \in Request /\ Moves(c, calls[c], calls'[c], session'.token)
  BY <1>2 DEF Resumed
<1>4. calls[c] \in Request
  BY <1>1
<1>5. CASE calls[c].stage # "refreshing"
  BY <1>2, <1>4, <1>5 DEF Resumed, Moves
<1>6. CASE calls[c].stage = "refreshing" /\ goesOn
  <2>0. calls[c].attempt + 1 \in Nat
    BY <1>4 DEF Request
  <2>1. calls'[c] = [Attempt(calls[c], session') EXCEPT !.attempt = calls[c].attempt + 1]
    BY <1>2, <1>4, <1>6 DEF Resumed, Attempt
  <2>2. calls'[c] \in Request
    BY <2>1, <1>3, <1>4, <2>0, AttemptCall
  <2>3. Sends(calls[c], calls'[c], session'.token)
    <3>2. Attempt(calls[c], session') = Attempt(calls[c], [token |-> session'.token])
      BY DEF Attempt
    <3> QED
      BY <2>0, <2>1, <1>2, <1>6, <3>2 DEF Sends
  <2> QED
    BY <2>2, <2>3 DEF Moves
<1>7. CASE calls[c].stage = "refreshing" /\ ~goesOn
  <2>1. calls'[c] = Settled(calls[c], "failed")
    BY <1>2, <1>4, <1>7 DEF Resumed
  <2>2. calls'[c] \in Request
    BY <2>1, <1>4, SettledCall
  <2>3. Ends(calls[c], calls'[c], session'.token)
    BY <2>1, <1>2, <1>7 DEF Ends
  <2> QED
    BY <2>2, <2>3 DEF Moves
<1> QED
  BY <1>5, <1>6, <1>7

\* Sending a request.
LEMMA SendingCalls ==
    ASSUME TypeInv, NEW c \in Requests,
           \/ StartCall(c)
           \/ c = "verify" /\ \E w \in Wallets : SignIn(w)
           \/ WakeUp(c)
    PROVE  OneMoves(c)
<1>1. calls[c] \in Request /\ session.token \in Nat /\ session' = session
  BY DEF TypeInv, CallsOK, SessionOK, StartCall, SignIn, WakeUp
<1>2. PICK n \in Nat : calls' = [calls EXCEPT ![c] = [Attempt(@, session) EXCEPT !.attempt = n]]
  <2>1. CASE WakeUp(c)
    <3>1. Attempt(calls[c], session) \in Request
      BY <1>1, AttemptCall
    <3>2. Attempt(calls[c], session).attempt + 1 \in Nat
      BY <3>1 DEF Request
    <3> QED
      BY <2>1, <3>2 DEF WakeUp
  <2>2. CASE ~WakeUp(c)
    <3>1. calls' = [calls EXCEPT ![c] = Attempt(@, session)]
      BY <2>2 DEF StartCall, SignIn
    <3>2. Attempt(calls[c], session) = [Attempt(calls[c], session) EXCEPT !.attempt = calls[c].attempt]
      BY <1>1 DEF Attempt, Request
    <3> QED
      BY <3>1, <3>2, <1>1 DEF Request
  <2> QED
    BY <2>1, <2>2
<1>3. calls[c].stage \in {"idle", "sleeping"}
  BY DEF StartCall, SignIn, WakeUp
<1> DEFINE q == [Attempt(calls[c], session) EXCEPT !.attempt = n]
<1>4. q \in Request
  BY <1>1, AttemptCall
<1>5. Sends(calls[c], q, session.token)
  BY <1>1, <1>3, AttemptCall DEF Sends
<1> HIDE DEF q
<1> QED
  BY <1>1, <1>2, <1>4, <1>5 DEF OneMoves, Moves, q

\* Receiving an answer.
LEMMA ReceivingCalls ==
    ASSUME TypeInv, NEW c \in Requests, ReceiveAnswer(c)
    PROVE  OneMoves(c)
<1>1. calls[c] \in Request /\ calls[c].stage = "answered"
  BY DEF TypeInv, CallsOK, ReceiveAnswer
<1>2. \A stage \in {"ok", "failed"} : Settled(calls[c], stage) \in Request
  BY <1>1, SettledCall
<1>3. CASE CallSucceeds(c)
  <2>1. Ends(calls[c], Settled(calls[c], "ok"), session'.token)
    BY DEF Ends
  <2> QED
    BY <1>2, <1>3, <2>1 DEF CallSucceeds, OneMoves, Moves
<1>4. CASE CallUnauthorized(c)
  <2> DEFINE q == [calls[c] EXCEPT !.stage = "refreshing", !.refreshed = TRUE, !.refused = calls[c].token]
  <2>1. calls' = [calls EXCEPT ![c] = q]
    BY <1>1, <1>4 DEF CallUnauthorized, TypeInv, CallsOK
  <2>2. q \in Request /\ AwaitsRefresh(calls[c], q)
    BY <1>1, <1>4 DEF CallUnauthorized, AwaitsRefresh, Request
  <2> HIDE DEF q
  <2> QED
    BY <2>1, <2>2 DEF OneMoves, Moves
<1>5. CASE CallFails(c)
  <2>1. session' = session
    BY <1>5 DEF CallFails
  <2>2. CASE MayRetry(c, calls[c].answer) /\ calls[c].attempt < MaxRetries
    <3> DEFINE q == [calls[c] EXCEPT !.stage = "sleeping"]
    <3>1. calls' = [calls EXCEPT ![c] = q]
      BY <1>5, <2>2 DEF CallFails
    <3>2. q \in Request /\ Sleeps(calls[c], q)
      BY <1>1, <2>2 DEF MayRetry, Sleeps, Request
    <3> HIDE DEF q
    <3> QED
      BY <3>1, <3>2 DEF OneMoves, Moves
  <2>3. CASE ~(MayRetry(c, calls[c].answer) /\ calls[c].attempt < MaxRetries)
    <3>1. calls' = [calls EXCEPT ![c] = Settled(calls[c], "failed")]
      BY <1>5, <2>3 DEF CallFails
    <3>2. Ends(calls[c], Settled(calls[c], "failed"), session'.token)
      BY <1>1, <1>5, <2>1 DEF CallFails, Ends
    <3> QED
      BY <1>2, <3>1, <3>2 DEF OneMoves, Moves
  <2> QED
    BY <2>2, <2>3
<1> QED
  BY <1>3, <1>4, <1>5 DEF ReceiveAnswer

\* Answering a request, on the API or by losing it.
LEMMA ServedCalls ==
    ASSUME TypeInv, NEW c \in Requests,
           \/ c \in Calls /\ Serve(c)
           \/ c = "verify" /\ (CheckChallenge("client") \/ LinkWallet("client"))
    PROVE  calls' = calls \/ OneMoves(c)
<1>1. calls[c] \in Request /\ calls \in [Requests -> Request]
  BY DEF TypeInv, CallsOK
<1>2. c \in Calls => calls[c].stage = "sent"
  BY SessionAssumption DEF Serve
<1> SUFFICES ASSUME calls' # calls PROVE OneMoves(c)
  OBVIOUS
<1>3. PICK a \in {"ok", "unauthorized", "limited", "lost"}, n \in {calls[c].executed, calls[c].executed + 1} :
         /\ n # calls[c].executed => a \in {"ok", "lost"}
         /\ calls' = [calls EXCEPT ![c] = [@ EXCEPT !.stage = "answered", !.answer = a, !.executed = n]]
  <2>1. \A a : Answer(c, a) = [calls EXCEPT ![c] = [@ EXCEPT !.stage = "answered", !.answer = a,
                                                             !.executed = calls[c].executed]]
    BY <1>1 DEF Answer, Request
  <2>2. \A a : [Answer(c, a) EXCEPT ![c].executed = @ + 1]
                  = [calls EXCEPT ![c] = [@ EXCEPT !.stage = "answered", !.answer = a,
                                                    !.executed = calls[c].executed + 1]]
    BY <1>1 DEF Answer, Request
  <2>3. \/ \E a \in {"ok", "unauthorized", "limited", "lost"} : calls' = Answer(c, a)
        \/ \E a \in {"ok", "lost"} : calls' = [Answer(c, a) EXCEPT ![c].executed = @ + 1]
    <3>1. CASE c \in Calls /\ Serve(c)
      BY <3>1 DEF Serve, Refuse, RefuseOverLimit, Execute, ExecuteUncounted, LoseRequest
    <3>2. CASE c = "verify" /\ (CheckChallenge("client") \/ LinkWallet("client"))
      BY <3>2 DEF CheckChallenge, LinkWallet, Told
    <3> QED
      BY <3>1, <3>2
  <2> QED
    BY <2>1, <2>2, <2>3
<1> DEFINE q == [calls[c] EXCEPT !.stage = "answered", !.answer = a, !.executed = n]
<1>4. n \in Nat
  BY <1>1 DEF Request
<1>5. q \in Request
  BY <1>1, <1>4 DEF Request
<1>6. Hears(calls[c], q)
  BY <1>3 DEF Hears
<1>7. calls' = [calls EXCEPT ![c] = q]
  BY <1>3
<1> HIDE DEF q
<1> QED
  BY <1>2, <1>5, <1>6, <1>7 DEF OneMoves, Moves

\* Every call keeps still or moves in one of these ways.
LEMMA CallMoves ==
    ASSUME TypeInv, Next
    PROVE  /\ CallsOK'
           /\ \A c \in Requests : Moves(c, calls[c], calls'[c], session'.token)
<1> USE DEF Requests
<1>1. calls \in [Requests -> Request]
  BY DEF TypeInv, CallsOK
<1>2. ASSUME calls' = calls
      PROVE  CallsOK' /\ \A c \in Requests : Moves(c, calls[c], calls'[c], session'.token)
  BY <1>1, <1>2 DEF CallsOK, Moves
<1>3. ASSUME NEW d \in Requests, OneMoves(d)
      PROVE  CallsOK' /\ \A c \in Requests : Moves(c, calls[c], calls'[c], session'.token)
  BY <1>1, <1>3 DEF CallsOK, OneMoves, Moves
<1>4. CASE \E c \in Calls : StartCall(c) \/ Serve(c)
  BY <1>4, <1>2, <1>3, SendingCalls, ServedCalls
<1>5. CASE \E c \in Requests : ClientStep(c)
  BY <1>5, <1>3, SendingCalls, ReceivingCalls DEF ClientStep
<1>6. CASE \E w \in Wallets : SignIn(w) \/ OtherSignsIn(w)
  BY <1>6, <1>2, <1>3, SendingCalls DEF OtherSignsIn, client
<1>7. CASE \E d \in Devices : LoginStep(d)
  <2>1. CASE LoginStep("client")
    BY <2>1, <1>2, <1>3, ServedCalls DEF LoginStep, ConsumeChallenge, client
  <2>2. CASE LoginStep("other")
    BY <2>2, <1>2 DEF LoginStep, CheckChallenge, ConsumeChallenge, LinkWallet, Told, client
  <2> QED
    BY <1>7, <2>1, <2>2 DEF Devices
<1>8. CASE ReceiveSharedRefresh
  BY <1>8, ResumedCalls DEF CallsOK
<1>9. CASE \/ ForceRefresh \/ ReceiveForcedRefresh \/ SignOut \/ NextWindow
           \/ \E k \in DOMAIN refreshes : ServeRefresh(k) \/ LoseRefresh(k)
           \/ \E n \in DOMAIN tokens : AccessExpires(n)
  BY <1>9, <1>2 DEF ForceRefresh, ReceiveForcedRefresh, SignOut, NextWindow, ServeRefresh, LoseRefresh,
                    AccessExpires, client
<1> QED
  BY <1>4, <1>5, <1>6, <1>7, <1>8, <1>9 DEF Next

-----------------------------------------------------------------------------
(* Effects.                                                                *)

\* A call that has taken effect and may not be repeated is over, or has been answered in a
\* way that ends it.
EffectOf(r) ==
    r.kind \notin Idempotent =>
        \/ r.executed = 0
        \/ /\ r.executed = 1
           /\ r.stage \in {"ok", "failed"} \/ (r.stage = "answered" /\ r.answer \in {"ok", "lost"})

EffectInv == \A c \in Calls : EffectOf(calls[c])

\* No move of a call takes it out of EffectInv.
LEMMA MoveKeepsEffect ==
    ASSUME NEW c \in Calls, NEW r \in Request, NEW q \in Request, NEW now,
           Moves(c, r, q, now), EffectOf(r)
    PROVE  EffectOf(q)
<1>1. CASE Sends(r, q, now)
  <2>1. PICK p \in Request, n \in Nat : /\ p.kind = r.kind /\ p.executed = r.executed
                                        /\ q = [p EXCEPT !.attempt = n]
    <3>1. PICK n \in Nat : q = [Attempt(r, [token |-> now]) EXCEPT !.attempt = n]
      BY <1>1 DEF Sends
    <3>2. PICK p : p = Attempt(r, [token |-> now])
      OBVIOUS
    <3>3. p.kind = r.kind /\ p.executed = r.executed
      BY <3>2 DEF Attempt, Request
    <3>4. DOMAIN p = DOMAIN r
      BY <3>2 DEF Attempt
    <3> QED
      BY <3>1, <3>2, <3>3 DEF Attempt, Request
  <2> QED
    BY <1>1, <2>1 DEF Sends, EffectOf, Request
<1>2. CASE Hears(r, q) /\ (c \in Calls => r.stage = "sent")
  <2>1. PICK a \in {"ok", "unauthorized", "limited", "lost"}, n \in {r.executed, r.executed + 1} :
           /\ q = [r EXCEPT !.stage = "answered", !.answer = a, !.executed = n]
           /\ n # r.executed => a \in {"ok", "lost"}
    BY <1>2 DEF Hears
  <2>2. q.kind = r.kind /\ q.stage = "answered" /\ q.answer = a /\ q.executed = n /\ r.executed \in Nat
    BY <2>1 DEF Request
  <2> QED
    BY <1>2, <2>1, <2>2 DEF EffectOf
<1>3. CASE AwaitsRefresh(r, q)
  BY <1>3 DEF AwaitsRefresh, EffectOf, Request
<1>4. CASE Sleeps(r, q)
  BY <1>4 DEF Sleeps, EffectOf, Request
<1>5. CASE Ends(r, q, now)
  <2>1. PICK stage \in {"ok", "failed"} : q = Settled(r, stage)
    BY <1>5 DEF Ends
  <2>2. q.kind = r.kind /\ q.stage = stage /\ q.executed = r.executed
    BY <2>1, SettledCall
  <2> QED
    BY <2>2 DEF EffectOf
<1> QED
  BY <1>1, <1>2, <1>3, <1>4, <1>5 DEF Moves

-----------------------------------------------------------------------------
(* What a step may do to the session and to the pairs of tokens.           *)

\* Who brings a pair of tokens to the client: the two refreshes and the sign-in.
Mints == {"shared", "forced", "login"}

\* The pair has been issued, and its answer not yet received.
Pending(k) ==
    IF k = "login" THEN calls["verify"].stage = "answered" /\ calls["verify"].answer = "ok"
    ELSE refreshes[k].stage = "answered" /\ refreshes[k].answer = "ok"

Serial(k) == IF k = "login" THEN logins["client"].minted ELSE refreshes[k].minted

\* A step issues a pair for k, and changes neither the session nor a token of a call.
Issues(k) ==
    /\ Len(tokens') = Len(tokens) + 1
    /\ Serial(k)' = Len(tokens) + 1
    /\ session' = session
    /\ \A m \in Mints \ {k} : (Pending(m)' => Pending(m)) /\ Serial(m)' = Serial(m)
    /\ \A c \in Requests : calls'[c].token = calls[c].token /\ calls'[c].refused = calls[c].refused

\* A step issues none.  The session keeps its token, loses it, or receives a pending one.
Receives ==
    /\ Len(tokens') = Len(tokens)
    /\ \A m \in Mints : Pending(m)' => Pending(m) /\ Serial(m)' = Serial(m)
    /\ \/ session'.token \in {session.token, NoToken}
       \/ \E m \in Mints : Pending(m) /\ ~Pending(m)' /\ session'.token = Serial(m)

\* Every step is of one of these two kinds.
LEMMA MintSteps ==
    ASSUME TypeInv, Next
    PROVE  \/ Receives
           \/ \E k \in Mints : Issues(k) /\ (k = "login" => LinkWallet("client"))
<1> USE DEF Mints
<1>t. /\ calls \in [Requests -> Request] /\ refreshes \in [{"shared", "forced"} -> Refresh]
      /\ logins \in [Devices -> Login] /\ "verify" \in Requests /\ "client" \in Devices
      /\ session \in [user : Nat, wallet : Wallets \cup {"none"}, token : Nat]
      /\ "verify" \notin Calls
  BY SessionAssumption DEF TypeInv, CallsOK, RefreshesOK, LoginsOK, SessionOK, Requests, Devices
<1>1. ASSUME NEW c \in Calls, StartCall(c) \/ Serve(c) PROVE Receives
  <2>1. calls'["verify"] = calls["verify"] /\ UNCHANGED << session, refreshes, tokens, logins >>
    <3>1. CASE StartCall(c)
      BY <1>t, <3>1 DEF StartCall, api
    <3>2. CASE Serve(c)
      BY <1>t, <3>2 DEF Serve, Refuse, RefuseOverLimit, Execute, ExecuteUncounted, LoseRequest, Answer
    <3> QED
      BY <1>1, <3>1, <3>2
  <2> QED
    BY <2>1 DEF Receives, Pending, Serial
<1>2. ASSUME NEW c \in Requests, WakeUp(c) PROVE Receives
  <2>1. /\ calls'["verify"].stage # "answered" \/ calls'["verify"] = calls["verify"]
        /\ UNCHANGED << session, refreshes, tokens, logins >>
    BY <1>t, <1>2 DEF WakeUp, Attempt, api, Request
  <2> QED
    BY <2>1 DEF Receives, Pending, Serial
<1>3. ASSUME NEW c \in Requests, ReceiveAnswer(c) PROVE Receives
  <2>1. /\ calls'["verify"].stage # "answered" \/ calls'["verify"] = calls["verify"]
        /\ c = "verify" => calls'["verify"].stage # "answered"
        /\ UNCHANGED << tokens, logins >>
    <3>1. PICK q \in Request : calls' = [calls EXCEPT ![c] = q] /\ q.stage # "answered"
      <4>1. CASE \E stage \in {"ok", "failed"} : calls' = [calls EXCEPT ![c] = Settled(@, stage)]
        <5>1. PICK stage \in {"ok", "failed"} : calls' = [calls EXCEPT ![c] = Settled(calls[c], stage)]
          BY <4>1
        <5>2. PICK q : q = Settled(calls[c], stage)
          OBVIOUS
        <5>3. q \in Request /\ q.stage = stage
          BY <1>t, <5>2, SettledCall
        <5> QED
          BY <5>1, <5>2, <5>3
      <4>2. CASE \E stage \in {"refreshing", "sleeping"} :
                    \/ calls' = [calls EXCEPT ![c] = [@ EXCEPT !.stage = stage]]
                    \/ calls' = [calls EXCEPT ![c].stage = stage, ![c].refreshed = TRUE,
                                              ![c].refused = calls[c].token]
        <5>1. PICK stage \in {"refreshing", "sleeping"} :
                    \/ calls' = [calls EXCEPT ![c] = [@ EXCEPT !.stage = stage]]
                    \/ calls' = [calls EXCEPT ![c].stage = stage, ![c].refreshed = TRUE,
                                              ![c].refused = calls[c].token]
          BY <4>2
        <5>2. PICK q : /\ \/ q = [calls[c] EXCEPT !.stage = stage]
                          \/ q = [calls[c] EXCEPT !.stage = stage, !.refreshed = TRUE, !.refused = calls[c].token]
                       /\ calls' = [calls EXCEPT ![c] = q]
          BY <1>t, <5>1
        <5>3. calls[c] \in Request
          BY <1>t
        <5>4. q \in Request /\ q.stage = stage
          BY <5>2, <5>3 DEF Request
        <5> QED
          BY <5>2, <5>4
      <4> QED
        BY <1>3, <4>1, <4>2 DEF ReceiveAnswer, CallSucceeds, CallUnauthorized, CallFails
    <3>2. UNCHANGED << tokens, logins >>
      BY <1>3 DEF ReceiveAnswer, api
    <3> QED
      BY <1>t, <3>1, <3>2
  <2>2. refreshes'["forced"] = refreshes["forced"]
        /\ (refreshes'["shared"] = refreshes["shared"] \/ refreshes'["shared"].stage = "sent")
    <3>1. \/ refreshes' = refreshes
          \/ refreshes' = [refreshes EXCEPT !["shared"] =
                              [NoRefresh EXCEPT !.stage = "sent", !.token = session.token]]
      BY <1>3 DEF ReceiveAnswer, CallSucceeds, CallUnauthorized, CallFails
    <3>2. [NoRefresh EXCEPT !.stage = "sent", !.token = session.token].stage = "sent"
      BY DEF NoRefresh
    <3> QED
      BY <1>t, <3>1, <3>2
  <2>3. \/ session' = session
        \/ c = "verify" /\ calls[c].answer = "ok" /\ session'.token = logins["client"].minted
    BY <1>t, <1>3 DEF ReceiveAnswer, CallSucceeds, CallUnauthorized, CallFails
  <2>4. calls[c].stage = "answered"
    BY <1>3 DEF ReceiveAnswer
  <2> QED
    BY <2>1, <2>2, <2>3, <2>4 DEF Receives, Pending, Serial
<1>4. ASSUME NEW w \in Wallets, SignIn(w) \/ OtherSignsIn(w) PROVE Receives
  <2>1. /\ calls'["verify"].stage # "answered" \/ calls'["verify"] = calls["verify"]
        /\ logins'["client"] = logins["client"] \/ calls'["verify"].stage # "answered"
        /\ UNCHANGED << session, refreshes, tokens >>
    <3>1. CASE SignIn(w)
      <4>1. calls'["verify"] = Attempt(calls["verify"], session) /\ UNCHANGED << session, refreshes, tokens >>
        BY <1>t, <3>1 DEF SignIn
      <4>2. calls'["verify"].stage = "sent"
        BY <1>t, <4>1 DEF Attempt, Request
      <4> QED
        BY <4>1, <4>2
    <3>2. CASE OtherSignsIn(w)
      BY <1>t, <3>2 DEF OtherSignsIn, client
    <3> QED
      BY <1>4, <3>1, <3>2
  <2> QED
    BY <2>1 DEF Receives, Pending, Serial
<1>5. ASSUME ForceRefresh PROVE Receives
  <2>1. /\ UNCHANGED << session, calls, tokens, logins >>
        /\ refreshes'["shared"] = refreshes["shared"] /\ refreshes'["forced"].stage = "sent"
    BY <1>t, <1>5 DEF ForceRefresh, api, NoRefresh
  <2> QED
    BY <2>1 DEF Receives, Pending, Serial
<1>6. ASSUME ReceiveSharedRefresh PROVE Receives
  <2>1. /\ UNCHANGED tokens /\ refreshes'["forced"] = refreshes["forced"]
        /\ refreshes["shared"].stage = "answered" /\ refreshes'["shared"].stage = "idle"
    BY <1>t, <1>6 DEF ReceiveSharedRefresh, NoRefresh
  <2>2. session'.token = NoToken \/ (refreshes["shared"].answer = "ok" /\ session'.token = refreshes["shared"].minted)
    BY <1>t, <1>6 DEF ReceiveSharedRefresh, NoSession
  <2>3. calls'["verify"].stage # "answered" \/ calls'["verify"] = calls["verify"]
    <3>1. PICK goesOn \in BOOLEAN : calls' = Resumed(goesOn, session')
      BY <1>6 DEF ReceiveSharedRefresh
    <3>2. CASE calls["verify"].stage # "refreshing"
      BY <1>t, <3>1, <3>2 DEF Resumed
    <3>3. CASE calls["verify"].stage = "refreshing" /\ ~goesOn
      <4>1. calls'["verify"] = Settled(calls["verify"], "failed")
        BY <1>t, <3>1, <3>3 DEF Resumed
      <4> QED
        BY <4>1, <1>t, SettledCall
    <3>4. CASE calls["verify"].stage = "refreshing" /\ goesOn
      <4>1. PICK p : p = Attempt(calls["verify"], session')
        OBVIOUS
      <4>2. calls'["verify"] = [p EXCEPT !.attempt = p.attempt + 1]
        BY <1>t, <3>1, <3>4, <4>1 DEF Resumed
      <4>3. p.stage = "sent" /\ "stage" \in DOMAIN p
        BY <4>1, <1>t DEF Attempt, Request
      <4> QED
        BY <4>2, <4>3
    <3> QED
      BY <3>2, <3>3, <3>4
  <2>4. logins'["client"].minted = logins["client"].minted
    BY <1>t, <1>6 DEF ReceiveSharedRefresh, LoginsResumed, Login
  <2> QED
    BY <2>1, <2>2, <2>3, <2>4 DEF Receives, Pending, Serial
<1>7. ASSUME ReceiveForcedRefresh PROVE Receives
  <2>1. /\ UNCHANGED << calls, tokens, logins >> /\ refreshes'["shared"] = refreshes["shared"]
        /\ refreshes["forced"].stage = "answered" /\ refreshes'["forced"].stage = "done"
    BY <1>t, <1>7 DEF ReceiveForcedRefresh, NoRefresh, api
  <2>2. session'.token = session.token
           \/ (refreshes["forced"].answer = "ok" /\ session'.token = refreshes["forced"].minted)
    BY <1>t, <1>7 DEF ReceiveForcedRefresh
  <2> QED
    BY <2>1, <2>2 DEF Receives, Pending, Serial
<1>8. ASSUME SignOut \/ NextWindow PROVE Receives
  <2>1. UNCHANGED << calls, refreshes, tokens, logins >> /\ session'.token \in {session.token, NoToken}
    BY <1>8 DEF SignOut, NextWindow, NoSession, api, client
  <2> QED
    BY <2>1 DEF Receives, Pending, Serial
<1>9. ASSUME NEW k \in {"shared", "forced"}, ServeRefresh(k) PROVE Receives \/ Issues(k)
  <2>0. tokens \in Seq([user : Nat, access : BOOLEAN, refresh : BOOLEAN])
    BY DEF TypeInv, TokensOK
  <2>1. UNCHANGED << session, calls, logins >>
    BY <1>9 DEF ServeRefresh
  <2>2. CASE tokens' = tokens
    <3>1. \A m \in {"shared", "forced"} : refreshes'[m] = refreshes[m] \/ (m = k /\ refreshes'[m].answer = "refused")
      <4>1. refreshes' = [refreshes EXCEPT ![k] = Settlement("refused", NoToken)]
        <5>1. tokens' # Append(tokens, Pair(tokens[refreshes[k].token].user))
          BY <2>0, <2>2
        <5> QED
          BY <5>1, <1>9 DEF ServeRefresh
      <4> QED
        BY <1>t, <4>1 DEF Settlement, NoRefresh
    <3> QED
      BY <2>1, <2>2, <3>1 DEF Receives, Pending, Serial
  <2>3. CASE tokens' # tokens
    <3>1. /\ tokens' = Append(tokens, Pair(tokens[refreshes[k].token].user))
          /\ refreshes' = [refreshes EXCEPT ![k] = Settlement("ok", Len(tokens) + 1)]
      BY <1>9, <2>3 DEF ServeRefresh
    <3>2. Len(tokens') = Len(tokens) + 1
      BY <2>0, <3>1
    <3>3. /\ refreshes'[k].minted = Len(tokens) + 1
          /\ \A m \in {"shared", "forced"} \ {k} : refreshes'[m] = refreshes[m]
      BY <1>t, <3>1 DEF Settlement, NoRefresh
    <3> QED
      BY <2>1, <3>2, <3>3 DEF Issues, Pending, Serial
  <2> QED
    BY <2>2, <2>3
<1>10. ASSUME NEW k \in {"shared", "forced"}, LoseRefresh(k) PROVE Receives
  <2>1. /\ UNCHANGED << session, calls, tokens, logins >>
        /\ \A m \in {"shared", "forced"} : refreshes'[m] = refreshes[m] \/ refreshes'[m].answer = "lost"
    BY <1>t, <1>10 DEF LoseRefresh, Settlement, NoRefresh, api
  <2> QED
    BY <2>1 DEF Receives, Pending, Serial
<1>11. ASSUME NEW n \in DOMAIN tokens, AccessExpires(n) PROVE Receives
  <2>1. UNCHANGED << session, calls, refreshes, logins >> /\ tokens' = [tokens EXCEPT ![n].access = FALSE]
    BY <1>11 DEF AccessExpires, client
  <2>2. Len(tokens') = Len(tokens)
    BY <2>1 DEF TypeInv, TokensOK
  <2> QED
    BY <2>1, <2>2 DEF Receives, Pending, Serial
<1>12. ASSUME NEW d \in Devices, CheckChallenge(d) \/ ConsumeChallenge(d) PROVE Receives
  <2>1. /\ UNCHANGED << session, refreshes, tokens >>
        /\ logins'["client"].minted = logins["client"].minted
        /\ calls'["verify"] = calls["verify"] \/ calls'["verify"].answer = "unauthorized"
    BY <1>t, <1>12 DEF CheckChallenge, ConsumeChallenge, client, Told, Answer, Login, Request
  <2> QED
    BY <2>1 DEF Receives, Pending, Serial
<1>13. ASSUME LinkWallet("other") PROVE Receives
  <2>1. UNCHANGED << session, refreshes, tokens, calls >> /\ logins'["client"] = logins["client"]
    BY <1>t, <1>13 DEF LinkWallet, Told
  <2> QED
    BY <2>1 DEF Receives, Pending, Serial
<1>14. ASSUME LinkWallet("client") PROVE Issues("login") /\ LinkWallet("client")
  <2>1. UNCHANGED << session, refreshes >> /\ tokens' = Append(tokens, Pair(UserOf("client")))
    BY <1>14 DEF LinkWallet
  <2>2. Len(tokens') = Len(tokens) + 1
    BY <2>1 DEF TypeInv, TokensOK
  <2>3. logins'["client"].minted = Len(tokens')
    BY <1>t, <1>14 DEF LinkWallet, Login
  <2>4. \A c \in Requests : calls'[c].token = calls[c].token /\ calls'[c].refused = calls[c].refused
    <3>1. PICK a : calls' = Answer("verify", a)
      BY <1>14 DEF LinkWallet, Told
    <3>2. \A c \in Requests \ {"verify"} : calls'[c] = calls[c]
      BY <1>t, <3>1 DEF Answer
    <3>3. calls'["verify"] = [calls["verify"] EXCEPT !.stage = "answered", !.answer = a]
      BY <1>t, <3>1 DEF Answer
    <3>4. calls'["verify"].token = calls["verify"].token /\ calls'["verify"].refused = calls["verify"].refused
      BY <1>t, <3>3 DEF Request
    <3> QED
      BY <3>2, <3>4
  <2> QED
    BY <1>14, <2>1, <2>2, <2>3, <2>4 DEF Issues, Pending, Serial
<1> QED
  BY <1>t, <1>1, <1>2, <1>3, <1>4, <1>5, <1>6, <1>7, <1>8, <1>9, <1>10, <1>11, <1>12, <1>13, <1>14
     DEF Next, ClientStep, LoginStep, Devices

\* The tokens in circulation: none is above the last that was issued, and a pair that the
\* client has yet to receive is in no session and no request.
Unseen(n) ==
    /\ n \in 1..Len(tokens) /\ n # session.token
    /\ \A c \in Requests : n # calls[c].token /\ n # calls[c].refused

MintInv ==
    /\ session.token <= Len(tokens)
    /\ \A c \in Requests : calls[c].token <= Len(tokens) /\ calls[c].refused <= Len(tokens)
    /\ \A k \in Mints : Pending(k) =>
          /\ Unseen(Serial(k))
          /\ \A m \in Mints \ {k} : Pending(m) => Serial(m) # Serial(k)

\* A call that has been through a refresh no longer holds the token that was refused, nor
\* will it find it in the session again.
RetryInv ==
    \A c \in Calls : calls[c].refreshed /\ calls[c].stage # "refreshing" =>
        /\ calls[c].token = NoToken \/ calls[c].token # calls[c].refused
        /\ session.token = NoToken \/ session.token # calls[c].refused

\* The tokens that a move may leave in a call.
LEMMA MoveTokens ==
    ASSUME NEW c, NEW r \in Request, NEW q \in Request, NEW now \in Nat, Moves(c, r, q, now)
    PROVE  q.token \in {r.token, now, NoToken} /\ q.refused \in {r.refused, r.token, NoToken}
<1>1. CASE Sends(r, q, now)
  <2>1. PICK n \in Nat : q = [Attempt(r, [token |-> now]) EXCEPT !.attempt = n]
    BY <1>1 DEF Sends
  <2>2. PICK p : p = Attempt(r, [token |-> now])
    OBVIOUS
  <2>3. p.token = now /\ p.refused = r.refused /\ q = [p EXCEPT !.attempt = n]
    BY <2>1, <2>2 DEF Attempt, Request
  <2>4. p \in Request
    BY <2>2 DEF Attempt, Request
  <2> QED
    BY <2>3, <2>4 DEF Request
<1>2. CASE Hears(r, q)
  BY <1>2 DEF Hears, Request
<1>3. CASE AwaitsRefresh(r, q) \/ Sleeps(r, q)
  BY <1>3 DEF AwaitsRefresh, Sleeps, Request
<1>4. CASE Ends(r, q, now)
  BY <1>4, SettledCall DEF Ends
<1> QED
  BY <1>1, <1>2, <1>3, <1>4 DEF Moves

\* MintInv, step by step.
LEMMA StepKeepsMintInv ==
    ASSUME TypeInv, SessionOK', Next, MintInv
    PROVE  MintInv'
<1>1. /\ calls \in [Requests -> Request] /\ calls' \in [Requests -> Request]
      /\ session.token \in Nat /\ session'.token \in Nat /\ Len(tokens) \in Nat
  BY CallMoves DEF TypeInv, CallsOK, SessionOK, TokensOK
<1>2. \A c \in Requests : calls[c].token \in Nat /\ calls[c].refused \in Nat
  BY <1>1 DEF Request
<1>3. \A c \in Requests : /\ calls'[c].token \in {calls[c].token, session'.token, NoToken}
                          /\ calls'[c].refused \in {calls[c].refused, calls[c].token, NoToken}
  BY <1>1, CallMoves, MoveTokens
<1>4. CASE Receives
  <2>1. session'.token <= Len(tokens)
    BY <1>1, <1>4 DEF Receives, MintInv, Unseen, NoToken
  <2>2. ASSUME NEW k \in Mints, Pending(k)'
        PROVE  Unseen(Serial(k))'
    <3>1. Pending(k) /\ Serial(k)' = Serial(k) /\ Len(tokens') = Len(tokens)
      BY <1>4, <2>2 DEF Receives
    <3>2. Unseen(Serial(k))
      BY <3>1 DEF MintInv
    <3>3. PICK n : n = Serial(k)
      OBVIOUS
    <3>4. n \in 1..Len(tokens) /\ n # session.token /\ n # NoToken
          /\ \A c \in Requests : n # calls[c].token /\ n # calls[c].refused
      BY <3>2, <3>3 DEF Unseen, NoToken
    <3>5. n # session'.token
      BY <1>4, <2>2, <3>1, <3>3, <3>4 DEF Receives, MintInv
    <3>6. \A c \in Requests : n # calls'[c].token /\ n # calls'[c].refused
      BY <1>3, <3>4, <3>5
    <3>7. Serial(k)' = n
      BY <3>1, <3>3
    <3> QED
      BY <3>1, <3>4, <3>5, <3>6, <3>7 DEF Unseen
  <2>3. \A k \in Mints : Pending(k)' => \A m \in Mints \ {k} : Pending(m)' => Serial(m)' # Serial(k)'
    BY <1>4 DEF Receives, MintInv
  <2>4. \A c \in Requests : calls'[c].token <= Len(tokens) /\ calls'[c].refused <= Len(tokens)
    BY <1>1, <1>2, <1>3, <2>1 DEF MintInv, NoToken
  <2> QED
    BY <1>4, <2>1, <2>2, <2>3, <2>4 DEF MintInv, Receives
<1>5. CASE \E k \in Mints : Issues(k)
  <2>1. PICK k \in Mints : Issues(k)
    BY <1>5
  <2>2. ASSUME NEW m \in Mints, Pending(m)'
        PROVE  /\ Unseen(Serial(m))'
               /\ m # k => Serial(m)' = Serial(m) /\ Pending(m)
    <3>1. PICK n : n = Serial(m)'
      OBVIOUS
    <3>2. /\ n \in 1..(Len(tokens) + 1) /\ n # session.token
          /\ \A c \in Requests : n # calls[c].token /\ n # calls[c].refused
      <4>1. CASE m = k
        <5>1. n = Len(tokens) + 1
          BY <2>1, <3>1, <4>1 DEF Issues
        <5> QED
          BY <5>1, <1>1, <1>2 DEF MintInv
      <4>2. CASE m # k
        <5>1. Pending(m) /\ n = Serial(m)
          BY <2>1, <2>2, <3>1, <4>2 DEF Issues
        <5>2. Unseen(n)
          BY <5>1 DEF MintInv
        <5> QED
          BY <5>2, <1>1 DEF Unseen
      <4> QED
        BY <4>1, <4>2
    <3>3. Unseen(Serial(m))'
      BY <2>1, <3>1, <3>2 DEF Unseen, Issues
    <3> QED
      BY <2>1, <2>2, <3>3 DEF Issues
  <2>3. ASSUME NEW m \in Mints, NEW l \in Mints \ {m}, Pending(m)', Pending(l)'
        PROVE  Serial(l)' # Serial(m)'
    <3>1. CASE m # k /\ l # k
      BY <2>2, <2>3, <3>1 DEF MintInv
    <3>2. \A j \in Mints \ {k} : Pending(j)' => Serial(j)' # Serial(k)'
      <4> SUFFICES ASSUME NEW j \in Mints \ {k}, Pending(j)' PROVE Serial(j)' # Serial(k)'
        OBVIOUS
      <4>1. Serial(j)' = Serial(j) /\ Pending(j)
        BY <2>2
      <4>2. Serial(j) \in 1..Len(tokens)
        BY <4>1 DEF MintInv, Unseen
      <4>3. Serial(k)' = Len(tokens) + 1
        BY <2>1 DEF Issues
      <4> QED
        BY <1>1, <4>1, <4>2, <4>3
    <3> QED
      BY <2>3, <3>1, <3>2
  <2>4. \A c \in Requests : calls'[c].token <= Len(tokens) + 1 /\ calls'[c].refused <= Len(tokens) + 1
    BY <1>1, <1>2, <2>1 DEF MintInv, Issues
  <2>5. session'.token <= Len(tokens) + 1 /\ Len(tokens') = Len(tokens) + 1
    BY <1>1, <2>1 DEF MintInv, Issues
  <2>6. \A m \in Mints : Pending(m)' => Unseen(Serial(m))'
    BY <2>2
  <2>7. \A m \in Mints : Pending(m)' => \A l \in Mints \ {m} : Pending(l)' => Serial(l)' # Serial(m)'
    BY <2>3
  <2> QED
    BY <2>4, <2>5, <2>6, <2>7 DEF MintInv
<1> QED
  BY <1>4, <1>5, MintSteps

\* The session's next token is none that a call was refused with, unless it already was the
\* session's.
LEMMA NextTokenIsNew ==
    ASSUME TypeInv, Next, MintInv, NEW c \in Requests
    PROVE  \/ session'.token \in {session.token, NoToken}
           \/ session'.token # calls[c].refused
  BY MintSteps DEF Receives, Issues, MintInv, Unseen

\* RetryInv, step by step.
LEMMA StepKeepsRetryInv ==
    ASSUME TypeInv, SessionOK', Next, MintInv, RetryInv
    PROVE  RetryInv'
<1> SUFFICES ASSUME NEW c \in Calls, calls'[c].refreshed, calls'[c].stage # "refreshing"
             PROVE  /\ calls'[c].token = NoToken \/ calls'[c].token # calls'[c].refused
                    /\ session'.token = NoToken \/ session'.token # calls'[c].refused
  BY DEF RetryInv
<1> DEFINE r == calls[c]
           q == calls'[c]
           now == session'.token
<1>1. r \in Request /\ q \in Request /\ now \in Nat /\ Moves(c, r, q, now) /\ c \in Requests
  BY CallMoves DEF TypeInv, CallsOK, SessionOK, Requests
<1>2. now \in {session.token, NoToken} \/ now # r.refused
  BY <1>1, NextTokenIsNew
<1>3. r.refreshed /\ r.stage # "refreshing" =>
        /\ r.token = NoToken \/ r.token # r.refused
        /\ now = NoToken \/ now # r.refused
  BY <1>2 DEF RetryInv
<1>4. Renewed(now) => now = NoToken \/ now # r.refused
  <2>1. Pending("shared") => Serial("shared") # r.refused
    BY <1>1 DEF MintInv, Unseen, Mints
  <2> QED
    BY <2>1 DEF Renewed, Pending, Serial
<1> HIDE DEF r, q, now
<1> SUFFICES /\ q.token = NoToken \/ q.token # q.refused
             /\ now = NoToken \/ now # q.refused
  BY DEF q, now
<1>5. q.refreshed /\ q.stage # "refreshing"
  BY DEF q
<1>6. CASE Sends(r, q, now)
  <2>1. PICK n \in Nat : q = [Attempt(r, [token |-> now]) EXCEPT !.attempt = n]
    BY <1>6 DEF Sends
  <2>2. PICK p : p = Attempt(r, [token |-> now])
    OBVIOUS
  <2>3. p.token = now /\ p.refused = r.refused /\ p.refreshed = r.refreshed /\ p \in Request
    BY <1>1, <2>2 DEF Attempt, Request
  <2>4. q.token = now /\ q.refused = r.refused /\ q.refreshed = r.refreshed
    BY <2>1, <2>2, <2>3 DEF Request
  <2> QED
    BY <1>3, <1>4, <1>5, <1>6, <2>4 DEF Sends
<1>7. CASE Hears(r, q) /\ (c \in Calls => r.stage = "sent")
  <2>1. r.stage = "sent" /\ q.token = r.token /\ q.refused = r.refused /\ q.refreshed = r.refreshed
    BY <1>1, <1>7 DEF Hears, Request
  <2> QED
    BY <1>3, <1>5, <2>1
<1>8. CASE AwaitsRefresh(r, q)
  BY <1>1, <1>5, <1>8 DEF AwaitsRefresh, Request
<1>9. CASE Sleeps(r, q) \/ q = r
  <2>1. r.stage # "refreshing" /\ q.token = r.token /\ q.refused = r.refused /\ q.refreshed = r.refreshed
    BY <1>1, <1>5, <1>9 DEF Sleeps, Request
  <2> QED
    BY <1>3, <1>5, <2>1
<1>10. CASE Ends(r, q, now)
  BY <1>1, <1>5, <1>10, SettledCall DEF Ends
<1> QED
  BY <1>1, <1>6, <1>7, <1>8, <1>9, <1>10 DEF Moves

-----------------------------------------------------------------------------
(* The session and who it belongs to.                                      *)

\* A refresh on its way carries a token that the API has issued.
SentInv ==
    \A k \in {"shared", "forced"} : refreshes[k].stage = "sent" => refreshes[k].token \in 1..Len(tokens)

\* What a step does to a refresh: it sends one with the token of the session, or makes it
\* anything but sent.
LEMMA RefreshMoves ==
    ASSUME TypeInv, Next, NEW k \in {"shared", "forced"}
    PROVE  /\ refreshes' \in [{"shared", "forced"} -> Refresh]
           /\ \/ refreshes'[k] = refreshes[k]
              \/ refreshes'[k].stage # "sent"
              \/ refreshes'[k].token = session.token /\ session.token # NoToken
<1> DEFINE Kept == refreshes' = refreshes
           Sent(m) == /\ refreshes' = [refreshes EXCEPT ![m] =
                                          [NoRefresh EXCEPT !.stage = "sent", !.token = session.token]]
                      /\ session.token # NoToken
           Settles(m) == \E q \in Refresh : q.stage # "sent" /\ refreshes' = [refreshes EXCEPT ![m] = q]
<1>1. /\ refreshes \in [{"shared", "forced"} -> Refresh] /\ session.token \in Nat
      /\ Len(tokens) + 1 \in Nat /\ NoToken \in Nat
  BY DEF TypeInv, RefreshesOK, SessionOK, TokensOK, NoToken
<1>2. \/ Kept
      \/ \E m \in {"shared", "forced"} : Sent(m)
      \/ \E m \in {"shared", "forced"} : Settles(m)
  <2>1. CASE \E c \in Requests : ReceiveAnswer(c)
    <3>1. PICK c \in Requests : CallSucceeds(c) \/ CallUnauthorized(c) \/ CallFails(c)
      BY <2>1 DEF ReceiveAnswer
    <3>2. Kept \/ Sent("shared")
      BY <3>1 DEF CallSucceeds, CallUnauthorized, CallFails
    <3> HIDE DEF Kept, Sent
    <3> QED
      BY <3>2
  <2>2. CASE ForceRefresh
    <3>1. Sent("forced")
      BY <2>2 DEF ForceRefresh
    <3> HIDE DEF Sent
    <3> QED
      BY <3>1
  <2>3. CASE ReceiveSharedRefresh
    <3>1. NoRefresh \in Refresh /\ NoRefresh.stage # "sent"
      BY <1>1 DEF NoRefresh, Refresh
    <3>2. refreshes' = [refreshes EXCEPT !["shared"] = NoRefresh]
      BY <2>3 DEF ReceiveSharedRefresh
    <3> QED
      BY <3>1, <3>2
  <2>4. CASE ReceiveForcedRefresh
    <3>1. PICK q : q = [NoRefresh EXCEPT !.stage = "done"]
      OBVIOUS
    <3>2. q \in Refresh /\ q.stage # "sent"
      BY <1>1, <3>1 DEF NoRefresh, Refresh
    <3>3. refreshes' = [refreshes EXCEPT !["forced"] = q]
      BY <2>4, <3>1 DEF ReceiveForcedRefresh
    <3> QED
      BY <3>2, <3>3
  <2>5. CASE \E m \in DOMAIN refreshes : ServeRefresh(m) \/ LoseRefresh(m)
    <3>1. PICK m \in {"shared", "forced"} : ServeRefresh(m) \/ LoseRefresh(m)
      BY <1>1, <2>5
    <3>2. PICK n \in {Len(tokens) + 1, NoToken}, answer \in {"ok", "refused", "lost"} :
             refreshes' = [refreshes EXCEPT ![m] = Settlement(answer, n)]
      BY <3>1 DEF ServeRefresh, LoseRefresh
    <3>3. PICK q : q = Settlement(answer, n)
      OBVIOUS
    <3>4. q \in Refresh /\ q.stage # "sent"
      BY <1>1, <3>3 DEF Settlement, NoRefresh, Refresh
    <3> QED
      BY <3>2, <3>3, <3>4
  <2>6. CASE \/ \E c \in Calls : StartCall(c) \/ Serve(c)
             \/ \E c \in Requests : WakeUp(c)
             \/ \E w \in Wallets : SignIn(w) \/ OtherSignsIn(w)
             \/ SignOut \/ NextWindow
             \/ \E n \in DOMAIN tokens : AccessExpires(n)
             \/ \E d \in Devices : LoginStep(d)
    <3>1. Kept
      BY <2>6 DEF StartCall, Serve, WakeUp, SignIn, OtherSignsIn, SignOut, NextWindow, AccessExpires,
                  LoginStep, CheckChallenge, ConsumeChallenge, LinkWallet, client
    <3> QED
      BY <3>1
  <2> HIDE DEF Kept, Sent, Settles
  <2> QED
    BY <2>1, <2>2, <2>3, <2>4, <2>5, <2>6 DEF Next, ClientStep
<1>3. CASE Kept
  BY <1>1, <1>3
<1>4. CASE \E m \in {"shared", "forced"} : Sent(m)
  <2>1. PICK m \in {"shared", "forced"} : Sent(m)
    BY <1>4
  <2>2. PICK q : q = [NoRefresh EXCEPT !.stage = "sent", !.token = session.token]
    OBVIOUS
  <2>3. q \in Refresh /\ q.token = session.token
    BY <1>1, <2>2 DEF NoRefresh, Refresh
  <2>4. refreshes' = [refreshes EXCEPT ![m] = q]
    BY <2>1, <2>2
  <2> QED
    BY <1>1, <2>1, <2>3, <2>4
<1>5. CASE \E m \in {"shared", "forced"} : Settles(m)
  <2>1. PICK m \in {"shared", "forced"}, q \in Refresh :
           q.stage # "sent" /\ refreshes' = [refreshes EXCEPT ![m] = q]
    BY <1>5
  <2> QED
    BY <1>1, <2>1
<1> HIDE DEF Kept, Sent, Settles
<1> QED
  BY <1>2, <1>3, <1>4, <1>5

\* SentInv, step by step.
LEMMA StepKeepsSentInv ==
    ASSUME TypeInv, Next, MintInv, SentInv
    PROVE  SentInv'
<1> SUFFICES ASSUME NEW k \in {"shared", "forced"}, refreshes'[k].stage = "sent"
             PROVE  refreshes'[k].token \in 1..Len(tokens')
  BY DEF SentInv
<1>1. Len(tokens) \in Nat /\ (Len(tokens') = Len(tokens) \/ Len(tokens') = Len(tokens) + 1)
  BY MintSteps DEF Receives, Issues, TypeInv, TokensOK
<1>2. session.token \in Nat /\ session.token <= Len(tokens)
  BY DEF TypeInv, SessionOK, MintInv
<1>3. refreshes'[k] = refreshes[k] \/ (refreshes'[k].token = session.token /\ session.token # NoToken)
  BY RefreshMoves
<1> QED
  BY <1>1, <1>2, <1>3 DEF SentInv, NoToken

\* Tokens are never taken back, nor given to another user.
LEMMA TokensOnlyGrow ==
    ASSUME TypeInv, Next, SentInv
    PROVE  /\ TokensOK'
           /\ \A n \in DOMAIN tokens : n \in DOMAIN tokens' /\ tokens'[n].user = tokens[n].user
<1> DEFINE Pairs == [user : Nat, access : BOOLEAN, refresh : BOOLEAN]
<1>1. tokens \in Seq(Pairs)
  BY DEF TypeInv, TokensOK
<1>2. ASSUME tokens' = tokens
      PROVE  /\ TokensOK'
             /\ \A n \in DOMAIN tokens : n \in DOMAIN tokens' /\ tokens'[n].user = tokens[n].user
  BY <1>1, <1>2 DEF TokensOK
<1>3. ASSUME NEW u \in Nat, tokens' = Append(tokens, Pair(u))
      PROVE  /\ TokensOK'
             /\ \A n \in DOMAIN tokens : n \in DOMAIN tokens' /\ tokens'[n].user = tokens[n].user
  <2>1. Pair(u) \in Pairs
    BY DEF Pair
  <2> HIDE DEF Pairs
  <2>2. /\ tokens' \in Seq(Pairs)
        /\ DOMAIN tokens = 1..Len(tokens) /\ Len(tokens) \in Nat
        /\ DOMAIN tokens' = 1..(Len(tokens) + 1)
        /\ \A n \in 1..Len(tokens) : tokens'[n] = tokens[n]
    BY <1>1, <1>3, <2>1
  <2> QED
    BY <2>2 DEF TokensOK, Pairs
<1>4. CASE \E n \in DOMAIN tokens : AccessExpires(n)
  <2>1. PICK n \in DOMAIN tokens : tokens' = [tokens EXCEPT ![n].access = FALSE]
    BY <1>4 DEF AccessExpires
  <2>2. PICK p : p = [tokens[n] EXCEPT !.access = FALSE]
    OBVIOUS
  <2>3. tokens[n] \in Pairs
    <3> HIDE DEF Pairs
    <3>1. n \in 1..Len(tokens)
      BY <1>1
    <3> QED
      BY <1>1, <3>1
  <2>4. p \in Pairs /\ p.user = tokens[n].user
    BY <2>2, <2>3
  <2>5. tokens' = [tokens EXCEPT ![n] = p]
    BY <2>1, <2>2
  <2> HIDE DEF Pairs
  <2>6. DOMAIN tokens = 1..Len(tokens) /\ Len(tokens) \in Nat
    BY <1>1
  <2>7. tokens' \in Seq(Pairs)
    BY <1>1, <2>4, <2>5
  <2>8. DOMAIN tokens' = DOMAIN tokens /\ \A i \in DOMAIN tokens : tokens'[i] = IF i = n THEN p ELSE tokens[i]
    BY <2>5
  <2> QED
    BY <2>4, <2>7, <2>8 DEF TokensOK, Pairs
<1>5. CASE \E k \in DOMAIN refreshes : ServeRefresh(k)
  <2>1. PICK k \in DOMAIN refreshes : ServeRefresh(k)
    BY <1>5
  <2>2. k \in {"shared", "forced"}
    BY DEF TypeInv, RefreshesOK
  <2>3. CASE tokens' = tokens
    BY <2>3, <1>2
  <2>4. CASE tokens' # tokens
    <3>1. PICK u : u = tokens[refreshes[k].token].user /\ tokens' = Append(tokens, Pair(u))
      BY <2>1, <2>4 DEF ServeRefresh
    <3>2. tokens[refreshes[k].token] \in Pairs
      <4>1. PICK n : n = refreshes[k].token
        OBVIOUS
      <4>2. n \in 1..Len(tokens)
        BY <2>1, <2>2, <4>1 DEF ServeRefresh, SentInv
      <4> HIDE DEF Pairs
      <4> QED
        BY <1>1, <4>1, <4>2
    <3> QED
      BY <1>3, <3>1, <3>2
  <2> QED
    BY <2>3, <2>4
<1>6. CASE \E d \in Devices : LinkWallet(d)
  <2>1. PICK d \in Devices : LinkWallet(d)
    BY <1>6
  <2>2. UserOf(d) \in Nat
    BY NewUserIsNew DEF UserOf, TypeInv, LoginsOK, Login
  <2> QED
    BY <2>1, <2>2, <1>2, <1>3 DEF LinkWallet
<1>7. CASE /\ ~\E k \in DOMAIN refreshes : ServeRefresh(k)
           /\ ~\E n \in DOMAIN tokens : AccessExpires(n)
           /\ ~\E d \in Devices : LinkWallet(d)
  <2>1. CASE \/ \E c \in Calls : StartCall(c) \/ Serve(c)
             \/ \E c \in Requests : ClientStep(c)
             \/ \E w \in Wallets : SignIn(w) \/ OtherSignsIn(w)
    BY <2>1, <1>2 DEF ClientStep, StartCall, Serve, ReceiveAnswer, WakeUp, SignIn, OtherSignsIn, api
  <2>2. CASE \/ ForceRefresh \/ ReceiveSharedRefresh \/ ReceiveForcedRefresh \/ SignOut \/ NextWindow
             \/ \E k \in DOMAIN refreshes : LoseRefresh(k)
             \/ \E d \in Devices : CheckChallenge(d) \/ ConsumeChallenge(d)
    BY <2>2, <1>2 DEF ForceRefresh, ReceiveSharedRefresh, ReceiveForcedRefresh, SignOut, LoseRefresh,
                      CheckChallenge, ConsumeChallenge, NextWindow, api
  <2> QED
    BY <1>7, <2>1, <2>2 DEF Next, LoginStep
<1> QED
  BY <1>4, <1>5, <1>6, <1>7

\* The request of the sign-in and its handler on the API: there is none before the other,
\* and what the client hears is what the handler did.
VerifyInv ==
    /\ logins["client"].step = "idle" => calls["verify"].stage = "idle"
    /\ Pending("login") => logins["client"].step = "done"

\* What a step does to a login but for linking the wallet: it is asked for or refused,
\* found with the user its wallet has, or kept.
LoginGoes(d) ==
    \/ logins'[d] = logins[d]
    \/ /\ logins'[d] \in Login /\ logins'[d].wallet \in Wallets
       /\ logins'[d].step \in {"asked", "checked", "refused"}
    \/ /\ logins'[d] \in Login /\ logins'[d].wallet \in Wallets
       /\ logins'[d].step = "found" /\ logins'[d].user = owner[logins'[d].wallet]

LoginsGo ==
    /\ owner' = owner
    /\ logins' \in [Devices -> Login]
    /\ \A d \in Devices : LoginGoes(d)
    /\ logins'["client"] = logins["client"] \/ logins["client"].step # "done" \/ ~Pending("login")'

\* Every step does one of these to every login, or links a wallet.
LEMMA LoginMoves ==
    ASSUME TypeInv, Next, VerifyInv
    PROVE  LoginsGo \/ \E d \in Devices : LinkWallet(d)
<1>t. /\ logins \in [Devices -> Login] /\ owner \in [Wallets -> Nat] /\ calls \in [Requests -> Request]
      /\ \A d \in Devices : logins[d].step # "idle" => logins[d].wallet \in Wallets
      /\ "client" \in Devices /\ "other" \in Devices /\ "verify" \in Requests
  BY DEF TypeInv, LoginsOK, OwnerOK, CallsOK, Devices, Requests
<1>1. ASSUME logins' = logins, owner' = owner PROVE LoginsGo
  BY <1>t, <1>1 DEF LoginsGo, LoginGoes
<1>2. ASSUME NEW d \in Devices, NEW q \in Login, logins' = [logins EXCEPT ![d] = q], owner' = owner,
             q.wallet \in Wallets,
             \/ q.step \in {"asked", "checked", "refused"}
             \/ q.step = "found" /\ q.user = owner[q.wallet],
             d = "client" => logins["client"].step # "done" \/ ~Pending("login")'
      PROVE  LoginsGo
  BY <1>t, <1>2 DEF LoginsGo, LoginGoes
<1>3. ASSUME NEW w \in Wallets, SignIn(w) PROVE LoginsGo
  <2>1. PICK q : q = [NoLogin EXCEPT !.step = "asked", !.wallet = w]
    OBVIOUS
  <2>2. q \in Login /\ q.wallet = w /\ q.step = "asked"
    BY <2>1 DEF NoLogin, Login, NoToken, NoUser
  <2>3. logins' = [logins EXCEPT !["client"] = q] /\ owner' = owner
    BY <1>3, <2>1 DEF SignIn
  <2>4. calls'["verify"].stage = "sent"
    <3>1. calls'["verify"] = Attempt(calls["verify"], session) /\ calls["verify"] \in Request
      BY <1>t, <1>3 DEF SignIn
    <3> QED
      BY <3>1 DEF Attempt, Request
  <2>5. ~Pending("login")'
    BY <2>4 DEF Pending
  <2> QED
    BY <1>t, <1>2, <2>2, <2>3, <2>5
<1>4. ASSUME NEW w \in Wallets, OtherSignsIn(w) PROVE LoginsGo
  <2>1. PICK q : q = [NoLogin EXCEPT !.step = "asked", !.wallet = w]
    OBVIOUS
  <2>2. q \in Login /\ q.wallet = w /\ q.step = "asked"
    BY <2>1 DEF NoLogin, Login, NoToken, NoUser
  <2>3. logins' = [logins EXCEPT !["other"] = q] /\ owner' = owner
    BY <1>4, <2>1 DEF OtherSignsIn
  <2> QED
    BY <1>t, <1>2, <2>2, <2>3
<1>5. ASSUME ReceiveSharedRefresh PROVE LoginsGo
  <2>1. owner' = owner /\ (logins' = logins \/ (logins' = [logins EXCEPT !["client"].step = "asked"] /\
                                                calls["verify"].stage = "refreshing"))
    BY <1>5 DEF ReceiveSharedRefresh, LoginsResumed
  <2>2. CASE logins' = logins
    BY <1>1, <2>1, <2>2
  <2>3. CASE logins' # logins
    <3>1. PICK q : q = [logins["client"] EXCEPT !.step = "asked"]
      OBVIOUS
    <3>2. q \in Login /\ q.wallet = logins["client"].wallet /\ q.step = "asked"
      BY <1>t, <3>1 DEF Login
    <3>3. logins' = [logins EXCEPT !["client"] = q]
      BY <2>1, <2>3, <3>1
    <3>4. Moves("verify", calls["verify"], calls'["verify"], session'.token) /\ calls["verify"].stage = "refreshing"
      BY <1>t, <2>1, <2>3, CallMoves
    <3>5. ~Pending("login")'
      <4>1. PICK goesOn \in BOOLEAN : calls' = Resumed(goesOn, session') /\ goesOn
        BY <1>5, <2>3 DEF ReceiveSharedRefresh, LoginsResumed
      <4>2. PICK p : p = Attempt(calls["verify"], session')
        OBVIOUS
      <4>3. calls'["verify"] = [p EXCEPT !.attempt = p.attempt + 1]
        BY <1>t, <3>4, <4>1, <4>2 DEF Resumed
      <4>4. p.stage = "sent" /\ "stage" \in DOMAIN p
        BY <1>t, <4>2 DEF Attempt, Request
      <4> QED
        BY <4>3, <4>4 DEF Pending
    <3>6. logins["client"].step # "idle"
      BY <2>1, <2>3 DEF VerifyInv
    <3> QED
      BY <1>t, <1>2, <2>1, <3>2, <3>3, <3>5, <3>6
  <2> QED
    BY <2>2, <2>3
<1>6. ASSUME NEW d \in Devices, CheckChallenge(d) PROVE LoginsGo
  <2>1. PICK step \in {"checked", "refused"} : logins' = [logins EXCEPT ![d].step = step]
    BY <1>6 DEF CheckChallenge
  <2>2. PICK q : q = [logins[d] EXCEPT !.step = step]
    OBVIOUS
  <2>3. logins[d].step = "asked" /\ owner' = owner
    BY <1>6 DEF CheckChallenge
  <2>4. q \in Login /\ q.wallet = logins[d].wallet /\ q.step = step
    BY <1>t, <2>2 DEF Login
  <2> QED
    BY <1>t, <1>2, <2>1, <2>2, <2>3, <2>4
<1>7. ASSUME NEW d \in Devices, ConsumeChallenge(d) PROVE LoginsGo
  <2>1. /\ logins[d].step = "checked" /\ owner' = owner
        /\ logins' = [logins EXCEPT ![d].step = "found", ![d].user = owner[logins[d].wallet]]
    BY <1>7 DEF ConsumeChallenge
  <2>2. PICK q : q = [logins[d] EXCEPT !.step = "found", !.user = owner[logins[d].wallet]]
    OBVIOUS
  <2>3. logins' = [logins EXCEPT ![d] = q]
    BY <1>t, <2>1, <2>2
  <2>4. owner[logins[d].wallet] \in Nat /\ logins[d].wallet \in Wallets
    BY <1>t, <2>1
  <2>5. q \in Login /\ q.wallet = logins[d].wallet /\ q.step = "found" /\ q.user = owner[logins[d].wallet]
    BY <1>t, <2>2, <2>4 DEF Login
  <2> QED
    <3>1. q.step = "found" /\ q.user = owner[q.wallet] /\ q.wallet \in Wallets /\ q \in Login
      BY <2>4, <2>5
    <3>2. d = "client" => logins["client"].step # "done"
      BY <2>1
    <3> QED
      BY <1>2, <2>1, <2>3, <3>1, <3>2
<1>8. CASE \/ \E c \in Calls : StartCall(c) \/ Serve(c)
           \/ \E c \in Requests : ClientStep(c)
           \/ ForceRefresh \/ ReceiveForcedRefresh \/ SignOut \/ NextWindow
           \/ \E k \in DOMAIN refreshes : ServeRefresh(k) \/ LoseRefresh(k)
           \/ \E n \in DOMAIN tokens : AccessExpires(n)
  <2>1. logins' = logins /\ owner' = owner
    BY <1>8 DEF ClientStep, StartCall, Serve, ReceiveAnswer, WakeUp, ForceRefresh, ReceiveForcedRefresh, SignOut,
                NextWindow, ServeRefresh, LoseRefresh, AccessExpires, api
  <2> QED
    BY <2>1, <1>1
<1> QED
  BY <1>3, <1>4, <1>5, <1>6, <1>7, <1>8 DEF Next, LoginStep

\* The request of the sign-in starts with its login.
LEMMA VerifyStarts ==
    ASSUME TypeInv, Next, calls["verify"].stage = "idle", logins["client"].step = "idle"
    PROVE  calls'["verify"].stage = "idle" \/ logins'["client"].step # "idle"
<1>t. /\ logins \in [Devices -> Login] /\ calls \in [Requests -> Request]
      /\ "client" \in Devices /\ "verify" \in Requests /\ "verify" \notin Calls /\ Calls \subseteq Requests
  BY SessionAssumption DEF TypeInv, LoginsOK, CallsOK, Devices, Requests
<1>1. ASSUME NEW c \in Requests \ {"verify"}, OneMoves(c) PROVE calls'["verify"] = calls["verify"]
  BY <1>t, <1>1 DEF OneMoves
<1>2. CASE \E c \in Calls : StartCall(c) \/ Serve(c)
  BY <1>t, <1>1, <1>2, SendingCalls, ServedCalls
<1>3. CASE \E c \in Requests : ClientStep(c)
  <2>1. PICK c \in Requests : ClientStep(c)
    BY <1>3
  <2>2. c # "verify"
    BY <2>1 DEF ClientStep, ReceiveAnswer, WakeUp
  <2> QED
    BY <1>t, <1>1, <2>1, <2>2, SendingCalls, ReceivingCalls DEF ClientStep
<1>4. CASE \E w \in Wallets : SignIn(w)
  <2>1. PICK w \in Wallets : logins' = [logins EXCEPT !["client"] = [NoLogin EXCEPT !.step = "asked", !.wallet = w]]
    BY <1>4 DEF SignIn
  <2>2. [NoLogin EXCEPT !.step = "asked", !.wallet = w].step = "asked"
    BY DEF NoLogin
  <2> QED
    BY <1>t, <2>1, <2>2
<1>5. CASE ReceiveSharedRefresh
  BY <1>t, <1>5 DEF ReceiveSharedRefresh, Resumed
<1>6. CASE \E d \in Devices : LoginStep(d)
  BY <1>t, <1>6 DEF LoginStep, CheckChallenge, ConsumeChallenge, LinkWallet, Told, Devices, client
<1>7. CASE \/ ForceRefresh \/ ReceiveForcedRefresh \/ SignOut \/ NextWindow
           \/ \E k \in DOMAIN refreshes : ServeRefresh(k) \/ LoseRefresh(k)
           \/ \E n \in DOMAIN tokens : AccessExpires(n)
           \/ \E w \in Wallets : OtherSignsIn(w)
  BY <1>7 DEF ForceRefresh, ReceiveForcedRefresh, SignOut, NextWindow, ServeRefresh, LoseRefresh, AccessExpires,
              OtherSignsIn, client
<1> QED
  BY <1>2, <1>3, <1>4, <1>5, <1>6, <1>7 DEF Next

\* What linking a wallet does: the wallet's user, found or new, has the wallet, and the
\* client's login a pair of tokens of that user.
LEMMA LinkSteps ==
    ASSUME TypeInv, NEW d \in Devices, LinkWallet(d)
    PROVE  \E u \in Nat \ {NoUser}, w \in Wallets :
              /\ w = logins[d].wallet /\ logins[d].step = "found"
              /\ u = logins[d].user \/ logins[d].user = NoUser
              /\ owner' = [owner EXCEPT ![w] = u]
              /\ logins' \in [Devices -> Login]
              /\ \A e \in Devices \ {d} : logins'[e] = logins[e]
              /\ logins'[d].step = "done" /\ logins'[d].user = u /\ logins'[d].wallet = w
              /\ d = "client" => /\ logins'[d].minted \in DOMAIN tokens'
                                 /\ tokens'[logins'[d].minted].user = u
              /\ raced' = (raced \/ (logins[d].user = NoUser /\ owner[w] # NoUser))
              /\ UNCHANGED << session, refreshes >>
<1>t. logins \in [Devices -> Login] /\ tokens \in Seq([user : Nat, access : BOOLEAN, refresh : BOOLEAN])
  BY DEF TypeInv, LoginsOK, TokensOK
<1>1. PICK u : u = UserOf(d)
  OBVIOUS
<1>2. u \in Nat \ {NoUser} /\ (u = logins[d].user \/ logins[d].user = NoUser)
  BY <1>t, <1>1, NewUserIsNew DEF UserOf, TypeInv, Login
<1>3. PICK w : w = logins[d].wallet
  OBVIOUS
<1>4. w \in Wallets /\ logins[d].step = "found"
  BY <1>3 DEF LinkWallet, TypeInv, LoginsOK
<1>5. Len(tokens') \in Nat /\ (d = "client" => Len(tokens') \in DOMAIN tokens' /\ tokens'[Len(tokens')].user = u)
  <2>1. CASE d = "client"
    <3>1. PICK p : p = Pair(u)
      OBVIOUS
    <3>2. tokens' = Append(tokens, p) /\ p.user = u
      BY <1>1, <2>1, <3>1 DEF LinkWallet, Pair
    <3>3. Len(tokens') = Len(tokens) + 1 /\ tokens'[Len(tokens) + 1] = p /\ Len(tokens) \in Nat
          /\ DOMAIN tokens' = 1..(Len(tokens) + 1)
      BY <1>t, <3>2
    <3> QED
      BY <3>2, <3>3
  <2>2. CASE d # "client"
    BY <1>t, <2>2 DEF LinkWallet
  <2> QED
    BY <2>1, <2>2
<1>6. PICK q : q = [logins[d] EXCEPT !.step = "done", !.user = u, !.minted = Len(tokens')]
  OBVIOUS
<1>7. q \in Login /\ q.step = "done" /\ q.user = u /\ q.wallet = w /\ q.minted = Len(tokens')
  BY <1>t, <1>2, <1>3, <1>5, <1>6 DEF Login
<1>8. logins' = [logins EXCEPT ![d] = q]
  BY <1>t, <1>1, <1>6 DEF LinkWallet
<1>9. /\ owner' = [owner EXCEPT ![w] = u]
      /\ raced' = (raced \/ (logins[d].user = NoUser /\ owner[w] # NoUser))
      /\ UNCHANGED << session, refreshes >>
  BY <1>1, <1>3 DEF LinkWallet
<1>10. /\ logins' \in [Devices -> Login]
       /\ \A e \in Devices \ {d} : logins'[e] = logins[e]
       /\ logins'[d] = q
  BY <1>t, <1>7, <1>8
<1> QED
  BY <1>2, <1>3, <1>4, <1>5, <1>7, <1>9, <1>10

\* VerifyInv and the types that are left, step by step.
LEMMA StepKeepsVerifyInv ==
    ASSUME TypeInv, Next, VerifyInv
    PROVE  VerifyInv' /\ LoginsOK' /\ OwnerOK'
<1>t. /\ logins \in [Devices -> Login] /\ owner \in [Wallets -> Nat]
      /\ \A d \in Devices : logins[d].step # "idle" => logins[d].wallet \in Wallets
      /\ "client" \in Devices
  BY DEF TypeInv, LoginsOK, OwnerOK, Devices
<1>1. CASE \E d \in Devices : LinkWallet(d)
  <2>1. PICK d \in Devices : LinkWallet(d)
    BY <1>1
  <2>2. PICK u \in Nat \ {NoUser}, w \in Wallets :
              /\ logins[d].step = "found"
              /\ owner' = [owner EXCEPT ![w] = u]
              /\ logins' \in [Devices -> Login]
              /\ \A e \in Devices \ {d} : logins'[e] = logins[e]
              /\ logins'[d].step = "done" /\ logins'[d].user = u /\ logins'[d].wallet = w
    BY <2>1, LinkSteps
  <2>3. OwnerOK' /\ LoginsOK'
    BY <1>t, <2>2 DEF OwnerOK, LoginsOK
  <2>4. CASE d = "client"
    BY <2>2, <2>3, <2>4 DEF VerifyInv
  <2>5. CASE d # "client"
    <3>1. d = "other"
      BY <2>5 DEF Devices
    <3>2. calls' = calls
      BY <2>1, <3>1 DEF LinkWallet, Told
    <3>3. logins'["client"] = logins["client"]
      BY <1>t, <2>2, <2>5
    <3> QED
      BY <2>3, <3>2, <3>3 DEF VerifyInv, Pending
  <2> QED
    BY <2>4, <2>5
<1>2. CASE LoginsGo /\ ~\E d \in Devices : LinkWallet(d)
  <2>1. OwnerOK' /\ LoginsOK'
    BY <1>t, <1>2 DEF LoginsGo, LoginGoes, OwnerOK, LoginsOK
  <2>2. logins'["client"].step = "idle" => logins' ["client"] = logins["client"]
    BY <1>t, <1>2 DEF LoginsGo, LoginGoes
  <2>3. logins'["client"].step = "idle" => calls'["verify"].stage = "idle"
    BY <2>2, VerifyStarts DEF VerifyInv
  <2>4. ASSUME Pending("login")' PROVE logins'["client"].step = "done"
    <3>1. Pending("login")
      BY <1>2, <1>t, <2>4, MintSteps DEF Receives, Issues, Mints
    <3> QED
      BY <1>2, <2>4, <3>1 DEF VerifyInv, LoginsGo
  <2> QED
    BY <2>1, <2>3, <2>4 DEF VerifyInv
<1> QED
  BY <1>1, <1>2, LoginMoves

\* The client's session is that of one sign-in.
Whole ==
    /\ session.token \in DOMAIN tokens /\ tokens[session.token].user = session.user
    /\ session.user # NoUser
    /\ session.wallet \in Wallets /\ owner[session.wallet] = session.user

\* A refresh belongs to the session there is.
RefreshOf(k) ==
    /\ refreshes[k].stage = "sent" =>
          /\ session # NoSession
          /\ refreshes[k].token \in DOMAIN tokens /\ tokens[refreshes[k].token].user = session.user
    /\ refreshes[k].stage = "answered" =>
          /\ session # NoSession
          /\ refreshes[k].answer = "ok" =>
                refreshes[k].minted \in DOMAIN tokens /\ tokens[refreshes[k].minted].user = session.user

LoginOf(d) ==
    /\ logins[d].step = "found" => logins[d].user \in {NoUser, owner[logins[d].wallet]}
    /\ logins[d].step = "done" => logins[d].user # NoUser /\ owner[logins[d].wallet] = logins[d].user

\* Unless one of the three races has happened, the session, the refreshes in flight and the
\* sign-in agree on the user, and the wallets are that user's.
OwnedInv ==
    ~raced =>
        /\ session = NoSession \/ Whole
        /\ \A k \in {"shared", "forced"} : RefreshOf(k)
        /\ \A d \in Devices : LoginOf(d)
        /\ logins["client"].step = "done" =>
              /\ logins["client"].minted \in DOMAIN tokens
              /\ tokens[logins["client"].minted].user = logins["client"].user

\* A wallet that has a user keeps it, and logins keep to it.
LEMMA OwnersStay ==
    ASSUME TypeInv, Next, MintInv, SentInv, VerifyInv, OwnedInv, ~raced, ~raced'
    PROVE  /\ \A w \in Wallets : owner[w] # NoUser => owner'[w] = owner[w]
           /\ \A d \in Devices : LoginOf(d)'
           /\ logins'["client"].step = "done" =>
                 /\ logins'["client"].minted \in DOMAIN tokens'
                 /\ tokens'[logins'["client"].minted].user = logins'["client"].user
<1>t. /\ logins \in [Devices -> Login] /\ owner \in [Wallets -> Nat] /\ "client" \in Devices
      /\ \A d \in Devices : logins[d].step # "idle" => logins[d].wallet \in Wallets
  BY DEF TypeInv, LoginsOK, OwnerOK, Devices
<1>i. /\ \A d \in Devices : LoginOf(d)
      /\ logins["client"].step = "done" =>
            /\ logins["client"].minted \in DOMAIN tokens
            /\ tokens[logins["client"].minted].user = logins["client"].user
  BY DEF OwnedInv
<1>1. CASE \E d \in Devices : LinkWallet(d)
  <2>1. PICK d \in Devices : LinkWallet(d)
    BY <1>1
  <2>2. PICK u \in Nat \ {NoUser}, w \in Wallets :
              /\ w = logins[d].wallet /\ logins[d].step = "found"
              /\ u = logins[d].user \/ logins[d].user = NoUser
              /\ owner' = [owner EXCEPT ![w] = u]
              /\ logins' \in [Devices -> Login]
              /\ \A e \in Devices \ {d} : logins'[e] = logins[e]
              /\ logins'[d].step = "done" /\ logins'[d].user = u /\ logins'[d].wallet = w
              /\ d = "client" => /\ logins'[d].minted \in DOMAIN tokens'
                                 /\ tokens'[logins'[d].minted].user = u
              /\ raced' = (raced \/ (logins[d].user = NoUser /\ owner[w] # NoUser))
    BY <2>1, LinkSteps
  <2>3. owner[w] \in {NoUser, u}
    BY <1>i, <2>2 DEF LoginOf
  <2>4. \A v \in Wallets : owner[v] # NoUser => owner'[v] = owner[v]
    BY <1>t, <2>2, <2>3
  <2>5. LoginOf(d)'
    BY <1>t, <2>2 DEF LoginOf
  <2>6. ASSUME NEW e \in Devices \ {d} PROVE LoginOf(e)'
    <3>1. logins'[e] = logins[e] /\ LoginOf(e)
      BY <1>i, <2>2
    <3>2. logins[e].step = "found" => logins[e].user \in {NoUser, owner'[logins[e].wallet]}
      BY <1>t, <2>4, <3>1 DEF LoginOf
    <3>3. logins[e].step = "done" => logins[e].user # NoUser /\ owner'[logins[e].wallet] = logins[e].user
      BY <1>t, <2>4, <3>1 DEF LoginOf
    <3> QED
      BY <3>1, <3>2, <3>3 DEF LoginOf
  <2>7. logins'["client"].step = "done" =>
                 /\ logins'["client"].minted \in DOMAIN tokens'
                 /\ tokens'[logins'["client"].minted].user = logins'["client"].user
    <3>1. CASE d = "client"
      BY <2>2, <3>1
    <3>2. CASE d # "client"
      BY <1>t, <1>i, <2>2, <3>2, TokensOnlyGrow
    <3> QED
      BY <3>1, <3>2
  <2> QED
    BY <2>4, <2>5, <2>6, <2>7
<1>2. CASE LoginsGo
  <2>1. \A d \in Devices : LoginOf(d)'
    BY <1>i, <1>2 DEF LoginsGo, LoginGoes, LoginOf
  <2>2. logins'["client"].step = "done" => logins'["client"] = logins["client"]
    BY <1>t, <1>2 DEF LoginsGo, LoginGoes
  <2> QED
    BY <1>i, <1>2, <2>1, <2>2, TokensOnlyGrow DEF LoginsGo
<1> QED
  BY <1>1, <1>2, LoginMoves

\* No step undoes a race.
LEMMA RacedStays ==
    ASSUME Next, raced
    PROVE  raced'
<1>1. CASE \/ \E c \in Calls : StartCall(c) \/ Serve(c)
           \/ \E c \in Requests : WakeUp(c)
           \/ \E w \in Wallets : SignIn(w) \/ OtherSignsIn(w)
           \/ ForceRefresh \/ ReceiveSharedRefresh \/ ReceiveForcedRefresh \/ SignOut \/ NextWindow
  BY <1>1 DEF StartCall, Serve, WakeUp, SignIn, OtherSignsIn, ForceRefresh, ReceiveSharedRefresh,
              ReceiveForcedRefresh, SignOut, NextWindow, client
<1>2. CASE \E c \in Requests : ReceiveAnswer(c)
  BY <1>2 DEF ReceiveAnswer, CallSucceeds, CallUnauthorized, CallFails
<1>3. CASE \/ \E k \in DOMAIN refreshes : ServeRefresh(k) \/ LoseRefresh(k)
           \/ \E n \in DOMAIN tokens : AccessExpires(n)
           \/ \E d \in Devices : LoginStep(d)
  BY <1>3 DEF ServeRefresh, LoseRefresh, AccessExpires, LoginStep, CheckChallenge, ConsumeChallenge, LinkWallet,
              client
<1> QED
  BY <1>1, <1>2, <1>3 DEF Next, ClientStep

\* What a step does to the session and its refreshes: the session stays and refreshes move,
\* or it receives an answer, ends, or is the sign-in's.
Keeps ==
    /\ session' = session
    /\ \A k \in {"shared", "forced"} :
          \/ refreshes'[k] = refreshes[k]
          \/ refreshes'[k].stage \in {"idle", "done"}
          \/ /\ refreshes'[k].stage = "sent"
             /\ refreshes'[k].token = session.token /\ session.token # NoToken
          \/ /\ refreshes[k].stage = "sent" /\ refreshes'[k].stage = "answered"
             /\ refreshes'[k].answer # "ok"
          \/ /\ refreshes[k].stage = "sent" /\ refreshes'[k].stage = "answered"
             /\ refreshes'[k].minted \in DOMAIN tokens'
             /\ tokens'[refreshes'[k].minted].user = tokens[refreshes[k].token].user

Rests(k) == refreshes[k].stage \in {"idle", "done"}

TakesToken ==
    \E k, m \in {"shared", "forced"} :
       /\ k # m
       /\ refreshes[k].stage = "answered" /\ refreshes[k].answer = "ok"
       /\ session # NoSession => session' = [session EXCEPT !.token = refreshes[k].minted]
       /\ Rests(k)' /\ refreshes'[m] = refreshes[m]

Leaves ==
    /\ session' = NoSession
    /\ ~raced' => Rests("shared")' /\ Rests("forced")'

SignsIn ==
    /\ Pending("login")
    /\ session' = [user |-> logins["client"].user, wallet |-> logins["client"].wallet,
                   token |-> logins["client"].minted]
    /\ ~raced' => Rests("shared")' /\ Rests("forced")'

\* Every step does one of these.
LEMMA SessionSteps ==
    ASSUME TypeInv, Next, SentInv
    PROVE  Keeps \/ TakesToken \/ Leaves \/ SignsIn
<1>t. /\ refreshes \in [{"shared", "forced"} -> Refresh]
      /\ tokens \in Seq([user : Nat, access : BOOLEAN, refresh : BOOLEAN])
  BY DEF TypeInv, RefreshesOK, TokensOK
<1>1. ASSUME session' = session, refreshes' = refreshes PROVE Keeps
  BY <1>1 DEF Keeps
<1>2. CASE \E c \in Requests : ReceiveAnswer(c)
  <2>1. PICK c \in Requests : /\ CallSucceeds(c) \/ CallUnauthorized(c) \/ CallFails(c)
                              /\ calls[c].stage = "answered"
    BY <1>2 DEF ReceiveAnswer
  <2>2. CASE CallUnauthorized(c)
    <3>1. PICK q : q = [NoRefresh EXCEPT !.stage = "sent", !.token = session.token]
      OBVIOUS
    <3>2. q.stage = "sent" /\ q.token = session.token
      BY <3>1 DEF NoRefresh
    <3>3. refreshes' = refreshes \/ refreshes' = [refreshes EXCEPT !["shared"] = q]
      BY <2>2, <3>1 DEF CallUnauthorized
    <3>4. session' = session /\ session.token # NoToken
      BY <2>2 DEF CallUnauthorized
    <3> QED
      BY <1>t, <3>2, <3>3, <3>4 DEF Keeps
  <2>3. CASE CallSucceeds(c) /\ c = "verify"
    <3>1. Pending("login")
      BY <2>1, <2>3 DEF CallSucceeds, Pending
    <3>2. /\ session' = [user |-> logins["client"].user, wallet |-> logins["client"].wallet,
                         token |-> logins["client"].minted]
          /\ raced' = (raced \/ RefreshInFlight) /\ refreshes' = refreshes
      BY <2>3 DEF CallSucceeds
    <3>3. ~RefreshInFlight => Rests("shared") /\ Rests("forced")
      BY <1>t DEF RefreshInFlight, Rests, Refresh
    <3> QED
      BY <3>1, <3>2, <3>3 DEF SignsIn, Rests
  <2>4. CASE (CallSucceeds(c) /\ c # "verify") \/ CallFails(c)
    BY <1>1, <2>4 DEF CallSucceeds, CallFails
  <2> QED
    BY <2>1, <2>2, <2>3, <2>4
<1>3. CASE ForceRefresh
  <2>1. PICK q : q = [NoRefresh EXCEPT !.stage = "sent", !.token = session.token]
    OBVIOUS
  <2>2. q.stage = "sent" /\ q.token = session.token
    BY <2>1 DEF NoRefresh
  <2>3. refreshes' = [refreshes EXCEPT !["forced"] = q] /\ session' = session /\ session.token # NoToken
    BY <1>3, <2>1 DEF ForceRefresh
  <2> QED
    BY <1>t, <2>2, <2>3 DEF Keeps
<1>4. CASE ReceiveSharedRefresh
  <2>1. /\ refreshes["shared"].stage = "answered"
        /\ refreshes' = [refreshes EXCEPT !["shared"] = NoRefresh]
        /\ session' = IF refreshes["shared"].answer # "ok" \/ session = NoSession THEN NoSession
                      ELSE [session EXCEPT !.token = refreshes["shared"].minted]
        /\ raced' = (raced \/ (refreshes["shared"].answer # "ok" /\ refreshes["forced"].stage \in {"sent", "answered"}))
    BY <1>4 DEF ReceiveSharedRefresh
  <2>2. Rests("shared")' /\ refreshes'["forced"] = refreshes["forced"]
    BY <1>t, <2>1 DEF Rests, NoRefresh
  <2>3. refreshes["forced"].stage \in {"sent", "answered"} \/ Rests("forced")
    BY <1>t DEF Rests, Refresh
  <2>4. CASE refreshes["shared"].answer = "ok"
    BY <2>1, <2>2, <2>4 DEF TakesToken
  <2>5. CASE refreshes["shared"].answer # "ok"
    BY <2>1, <2>2, <2>3, <2>5 DEF Leaves, Rests
  <2> QED
    BY <2>4, <2>5
<1>5. CASE ReceiveForcedRefresh
  <2>1. PICK q : q = [NoRefresh EXCEPT !.stage = "done"]
    OBVIOUS
  <2>2. q.stage = "done"
    BY <2>1 DEF NoRefresh
  <2>3. /\ refreshes["forced"].stage = "answered"
        /\ refreshes' = [refreshes EXCEPT !["forced"] = q]
        /\ session' = IF refreshes["forced"].answer = "ok"
                      THEN [session EXCEPT !.token = refreshes["forced"].minted] ELSE session
    BY <1>5, <2>1 DEF ReceiveForcedRefresh
  <2>4. Rests("forced")' /\ refreshes'["shared"] = refreshes["shared"] /\ refreshes'["forced"].stage = "done"
    BY <1>t, <2>2, <2>3 DEF Rests
  <2>5. CASE refreshes["forced"].answer = "ok"
    BY <2>3, <2>4, <2>5 DEF TakesToken
  <2>6. CASE refreshes["forced"].answer # "ok"
    BY <2>3, <2>4, <2>6 DEF Keeps
  <2> QED
    BY <2>5, <2>6
<1>6. CASE SignOut
  <2>1. session' = NoSession /\ raced' = (raced \/ RefreshInFlight) /\ refreshes' = refreshes
    BY <1>6 DEF SignOut
  <2>2. ~RefreshInFlight => Rests("shared") /\ Rests("forced")
    BY <1>t DEF RefreshInFlight, Rests, Refresh
  <2> QED
    BY <2>1, <2>2 DEF Leaves, Rests
<1>7. CASE \E k \in DOMAIN refreshes : ServeRefresh(k)
  <2>1. PICK k \in {"shared", "forced"} : ServeRefresh(k)
    BY <1>t, <1>7
  <2>2. refreshes[k].stage = "sent" /\ session' = session
    BY <2>1 DEF ServeRefresh
  <2>3. PICK u : u = tokens[refreshes[k].token].user
    OBVIOUS
  <2>4. CASE tokens[refreshes[k].token].refresh
    <3>1. PICK p, q : p = Pair(u) /\ q = Settlement("ok", Len(tokens) + 1)
      OBVIOUS
    <3>2. p.user = u /\ q.stage = "answered" /\ q.minted = Len(tokens) + 1
      BY <3>1 DEF Pair, Settlement, NoRefresh
    <3>3. tokens' = Append(tokens, p) /\ refreshes' = [refreshes EXCEPT ![k] = q]
      BY <2>1, <2>3, <2>4, <3>1 DEF ServeRefresh
    <3>4. Len(tokens) + 1 \in DOMAIN tokens' /\ tokens'[Len(tokens) + 1] = p
      BY <1>t, <3>3
    <3> QED
      BY <1>t, <2>2, <2>3, <3>2, <3>3, <3>4 DEF Keeps
  <2>5. CASE ~tokens[refreshes[k].token].refresh
    <3>1. PICK q : q = Settlement("refused", NoToken)
      OBVIOUS
    <3>2. q.stage = "answered" /\ q.answer # "ok"
      BY <3>1 DEF Settlement, NoRefresh
    <3>3. refreshes' = [refreshes EXCEPT ![k] = q]
      BY <2>1, <2>5, <3>1 DEF ServeRefresh
    <3> QED
      BY <1>t, <2>2, <3>2, <3>3 DEF Keeps
  <2> QED
    BY <2>4, <2>5
<1>8. CASE \E k \in DOMAIN refreshes : LoseRefresh(k)
  <2>1. PICK k \in {"shared", "forced"} : LoseRefresh(k)
    BY <1>t, <1>8
  <2>2. PICK q : q = Settlement("lost", NoToken)
    OBVIOUS
  <2>3. q.stage = "answered" /\ q.answer # "ok"
    BY <2>2 DEF Settlement, NoRefresh
  <2>4. refreshes' = [refreshes EXCEPT ![k] = q] /\ refreshes[k].stage = "sent" /\ session' = session
    BY <2>1, <2>2 DEF LoseRefresh
  <2> QED
    BY <1>t, <2>3, <2>4 DEF Keeps
<1>9. CASE \/ \E c \in Calls : StartCall(c) \/ Serve(c)
           \/ \E c \in Requests : WakeUp(c)
           \/ \E w \in Wallets : SignIn(w) \/ OtherSignsIn(w)
           \/ NextWindow
           \/ \E n \in DOMAIN tokens : AccessExpires(n)
           \/ \E d \in Devices : LoginStep(d)
  <2>1. session' = session /\ refreshes' = refreshes
    BY <1>9 DEF StartCall, Serve, WakeUp, SignIn, OtherSignsIn, NextWindow, AccessExpires, LoginStep,
                CheckChallenge, ConsumeChallenge, LinkWallet, client
  <2> QED
    BY <2>1, <1>1
<1> QED
  BY <1>2, <1>3, <1>4, <1>5, <1>6, <1>7, <1>8, <1>9 DEF Next, ClientStep

\* OwnedInv, step by step.
LEMMA StepKeepsOwnedInv ==
    ASSUME TypeInv, Next, MintInv, SentInv, VerifyInv, OwnedInv
    PROVE  OwnedInv'
<1> SUFFICES ASSUME ~raced'
             PROVE  /\ session' = NoSession \/ Whole'
                    /\ \A k \in {"shared", "forced"} : RefreshOf(k)'
  BY OwnersStay, RacedStays DEF OwnedInv
<1>1. /\ ~raced
      /\ session = NoSession \/ Whole
      /\ \A k \in {"shared", "forced"} : RefreshOf(k)
  BY RacedStays DEF OwnedInv
<1>2. /\ \A w \in Wallets : owner[w] # NoUser => owner'[w] = owner[w]
      /\ \A n \in DOMAIN tokens : n \in DOMAIN tokens' /\ tokens'[n].user = tokens[n].user
  BY <1>1, OwnersStay, TokensOnlyGrow
<1>t. session \in [user : Nat, wallet : Wallets \cup {"none"}, token : Nat]
  BY DEF TypeInv, SessionOK
<1>3. ASSUME NEW k \in {"shared", "forced"}, refreshes'[k] = refreshes[k], session # NoSession,
             session' # NoSession, session'.user = session.user
      PROVE  RefreshOf(k)'
  BY <1>1, <1>2, <1>3 DEF RefreshOf
<1>4. ASSUME NEW k \in {"shared", "forced"}, Rests(k)'
      PROVE  RefreshOf(k)'
  BY <1>4 DEF RefreshOf, Rests
<1>5. CASE Keeps
  <2>1. session' = session
    BY <1>5 DEF Keeps
  <2>2. session' = NoSession \/ Whole'
    BY <1>1, <1>2, <2>1 DEF Whole
  <2>3. ASSUME NEW k \in {"shared", "forced"} PROVE RefreshOf(k)'
    <3>1. CASE refreshes'[k] = refreshes[k]
      BY <1>1, <1>2, <2>1, <3>1 DEF RefreshOf
    <3>2. CASE refreshes'[k].stage \in {"idle", "done"}
      BY <3>2, <1>4 DEF Rests
    <3>3. CASE refreshes'[k].stage = "sent" /\ refreshes'[k].token = session.token /\ session.token # NoToken
      <4>1. session # NoSession
        BY <3>3 DEF NoSession
      <4>2. Whole
        BY <4>1, <1>1
      <4> QED
        BY <1>2, <2>1, <3>3, <4>1, <4>2 DEF RefreshOf, Whole
    <3>4. CASE /\ refreshes[k].stage = "sent" /\ refreshes'[k].stage = "answered"
               /\ \/ refreshes'[k].answer # "ok"
                  \/ /\ refreshes'[k].minted \in DOMAIN tokens'
                     /\ tokens'[refreshes'[k].minted].user = tokens[refreshes[k].token].user
      <4>1. RefreshOf(k)
        BY <1>1
      <4> QED
        BY <2>1, <3>4, <4>1 DEF RefreshOf
    <3> QED
      BY <1>5, <3>1, <3>2, <3>3, <3>4 DEF Keeps
  <2> QED
    BY <2>2, <2>3
<1>6. CASE TakesToken
  <2>1. PICK k \in {"shared", "forced"}, m \in {"shared", "forced"} :
       /\ k # m
       /\ refreshes[k].stage = "answered" /\ refreshes[k].answer = "ok"
       /\ session # NoSession => session' = [session EXCEPT !.token = refreshes[k].minted]
       /\ Rests(k)' /\ refreshes'[m] = refreshes[m]
    BY <1>6 DEF TakesToken
  <2>2. /\ session # NoSession /\ Whole
        /\ refreshes[k].minted \in DOMAIN tokens /\ tokens[refreshes[k].minted].user = session.user
    BY <1>1, <2>1 DEF RefreshOf
  <2>3. session'.user = session.user /\ session'.wallet = session.wallet /\ session'.token = refreshes[k].minted
    BY <1>t, <2>1, <2>2
  <2>4. Whole'
    BY <1>2, <2>2, <2>3 DEF Whole
  <2>5. session' # NoSession
    BY <2>2, <2>3 DEF Whole, NoSession
  <2>6. RefreshOf(k)' /\ RefreshOf(m)'
    BY <1>3, <1>4, <2>1, <2>2, <2>3, <2>5
  <2>7. \A l \in {"shared", "forced"} : l = k \/ l = m
    BY <2>1
  <2> QED
    BY <2>4, <2>6, <2>7
<1>7. CASE Leaves
  BY <1>4, <1>7 DEF Leaves
<1>8. CASE SignsIn
  <2>1. logins["client"].step = "done" /\ LoginOf("client")
        /\ logins["client"].minted \in DOMAIN tokens
        /\ tokens[logins["client"].minted].user = logins["client"].user
    BY <1>1, <1>8 DEF SignsIn, VerifyInv, OwnedInv, Devices
  <2>2. logins["client"].wallet \in Wallets
    BY <2>1 DEF TypeInv, LoginsOK, Devices
  <2>3. session'.user = logins["client"].user /\ session'.wallet = logins["client"].wallet
        /\ session'.token = logins["client"].minted
    BY <1>8 DEF SignsIn
  <2>4. Whole'
    BY <1>2, <2>1, <2>2, <2>3 DEF Whole, LoginOf
  <2>5. \A k \in {"shared", "forced"} : RefreshOf(k)'
    BY <1>4, <1>8 DEF SignsIn
  <2> QED
    BY <2>4, <2>5
<1> QED
  BY <1>5, <1>6, <1>7, <1>8, SessionSteps

\* The session keeps its type.
LEMMA StepKeepsSessionOK ==
    ASSUME TypeInv, Next
    PROVE  SessionOK'
<1> DEFINE S == [user : Nat, wallet : Wallets \cup {"none"}, token : Nat]
<1>t. /\ session \in S /\ refreshes \in [{"shared", "forced"} -> Refresh]
      /\ logins \in [Devices -> Login] /\ "client" \in Devices
  BY DEF TypeInv, SessionOK, RefreshesOK, LoginsOK, Devices
<1>1. NoSession \in S
  BY DEF NoSession, NoUser, NoToken
<1>2. ASSUME NEW k \in {"shared", "forced"} PROVE [session EXCEPT !.token = refreshes[k].minted] \in S
  <2>1. refreshes[k].minted \in Nat
    BY <1>t DEF Refresh
  <2> QED
    BY <1>t, <2>1
<1>3. CASE session' = session \/ session' = NoSession
           \/ \E k \in {"shared", "forced"} : session' = [session EXCEPT !.token = refreshes[k].minted]
  <2> HIDE DEF S
  <2>1. session' \in S
    BY <1>t, <1>1, <1>2, <1>3
  <2> QED
    BY <2>1 DEF SessionOK, S
<1>4. CASE session' = [user |-> logins["client"].user, wallet |-> logins["client"].wallet,
                       token |-> logins["client"].minted]
  <2>1. logins["client"].user \in Nat /\ logins["client"].wallet \in Wallets \cup {"none"}
        /\ logins["client"].minted \in Nat
    BY <1>t DEF Login
  <2> QED
    BY <1>4, <2>1 DEF SessionOK
<1> HIDE DEF S
<1>5. CASE ReceiveSharedRefresh \/ ReceiveForcedRefresh \/ SignOut
  BY <1>3, <1>5 DEF ReceiveSharedRefresh, ReceiveForcedRefresh, SignOut
<1>6. CASE \E c \in Requests : ReceiveAnswer(c)
  BY <1>3, <1>4, <1>6 DEF ReceiveAnswer, CallSucceeds, CallUnauthorized, CallFails
<1>7. CASE \/ \E c \in Calls : StartCall(c) \/ Serve(c)
           \/ \E c \in Requests : WakeUp(c)
           \/ \E w \in Wallets : SignIn(w) \/ OtherSignsIn(w)
           \/ NextWindow \/ ForceRefresh
           \/ \E k \in DOMAIN refreshes : ServeRefresh(k) \/ LoseRefresh(k)
           \/ \E n \in DOMAIN tokens : AccessExpires(n)
           \/ \E d \in Devices : LoginStep(d)
  <2>1. session' = session
    BY <1>7 DEF StartCall, Serve, WakeUp, SignIn, OtherSignsIn, NextWindow, AccessExpires, LoginStep, ForceRefresh,
                ServeRefresh, LoseRefresh, CheckChallenge, ConsumeChallenge, LinkWallet, client
  <2> QED
    BY <1>3, <2>1
<1> QED
  BY <1>5, <1>6, <1>7 DEF Next, ClientStep

-----------------------------------------------------------------------------
(* The inductive invariant of the account, and the theorems.               *)

AccountInv ==
    /\ TypeInv /\ EffectInv
    /\ MintInv /\ RetryInv /\ SentInv
    /\ VerifyInv /\ OwnedInv

\* The first states satisfy it.
LEMMA InitAccountInv == Init => AccountInv
<1> SUFFICES ASSUME Init PROVE AccountInv
  OBVIOUS
<1>1. TypeInv
  BY InitTypeInv
<1>2. \A c \in Requests : /\ calls[c].stage = "idle" /\ calls[c].executed = 0 /\ calls[c].token = NoToken
                          /\ calls[c].refused = NoToken /\ ~calls[c].refreshed
  BY DEF Init, NotCalled
<1>3. \A k \in {"shared", "forced"} : refreshes[k].stage = "idle"
  BY DEF Init, NoRefresh
<1>4. \A d \in Devices : logins[d].step = "idle"
  BY DEF Init, NoLogin
<1>5. EffectInv /\ RetryInv
  BY <1>2 DEF EffectInv, EffectOf, RetryInv, Requests
<1>6. SentInv /\ VerifyInv /\ \A k \in Mints : ~Pending(k)
  BY <1>2, <1>3, <1>4 DEF SentInv, VerifyInv, Pending, Mints, Requests, Devices
<1>7. session.token <= Len(tokens) /\ Len(tokens) \in Nat /\ (session = NoSession \/ Whole)
  <2>1. CASE session = NoSession /\ tokens = << >>
    BY <2>1 DEF NoSession, NoToken
  <2>2. CASE ~(session = NoSession /\ tokens = << >>)
    <3>1. PICK w \in Wallets, access \in BOOLEAN, refresh \in BOOLEAN :
             /\ tokens = << [user |-> 1, access |-> access, refresh |-> refresh] >>
             /\ owner = [v \in Wallets |-> IF v = w THEN 1 ELSE NoUser]
             /\ session = [user |-> 1, wallet |-> w, token |-> 1]
      BY <2>2 DEF Init
    <3> QED
      BY <3>1 DEF Whole, NoUser
  <2> QED
    BY <2>1, <2>2
<1>8. MintInv
  BY <1>2, <1>6, <1>7 DEF MintInv, NoToken
<1>9. OwnedInv
  BY <1>3, <1>4, <1>7 DEF OwnedInv, RefreshOf, LoginOf, Devices
<1> QED
  BY <1>1, <1>5, <1>6, <1>8, <1>9 DEF AccountInv

\* Every step keeps it.
LEMMA StepKeepsAccountInv == AccountInv /\ [Next]_vars => AccountInv'
<1> SUFFICES ASSUME AccountInv, [Next]_vars PROVE AccountInv'
  OBVIOUS
<1>1. CASE Next
  <2> USE DEF AccountInv
  <2>1. CallsOK' /\ SessionOK' /\ TokensOK' /\ LoginsOK' /\ OwnerOK'
    BY <1>1, CallMoves, StepKeepsSessionOK, TokensOnlyGrow, StepKeepsVerifyInv
  <2>2. RefreshesOK'
    BY <1>1, RefreshMoves DEF RefreshesOK
  <2>3. TypeInv'
    BY <2>1, <2>2 DEF TypeInv
  <2>4. EffectInv'
    <3>1. \A c \in Calls : /\ calls[c] \in Request /\ calls'[c] \in Request /\ c \in Requests
                           /\ Moves(c, calls[c], calls'[c], session'.token)
      BY <1>1, <2>1, CallMoves DEF TypeInv, CallsOK, Requests
    <3> QED
      BY <3>1, MoveKeepsEffect DEF EffectInv
  <2>5. MintInv' /\ RetryInv' /\ SentInv'
    BY <1>1, <2>1, StepKeepsMintInv, StepKeepsRetryInv, StepKeepsSentInv
  <2>6. VerifyInv' /\ OwnedInv'
    BY <1>1, StepKeepsVerifyInv, StepKeepsOwnedInv
  <2> QED
    BY <2>3, <2>4, <2>5, <2>6
<1>2. CASE UNCHANGED vars
  <2> USE <1>2 DEF vars, client, api
  <2>1. TypeInv'
    BY DEF AccountInv, TypeInv, CallsOK, SessionOK, RefreshesOK, TokensOK, LoginsOK, OwnerOK
  <2>2. EffectInv' /\ RetryInv' /\ SentInv'
    BY DEF AccountInv, EffectInv, EffectOf, RetryInv, SentInv
  <2>3. MintInv' /\ VerifyInv'
    BY DEF AccountInv, MintInv, VerifyInv, Unseen, Pending, Serial
  <2>4. OwnedInv'
    BY DEF AccountInv, OwnedInv, Whole, RefreshOf, LoginOf
  <2> QED
    BY <2>1, <2>2, <2>3, <2>4 DEF AccountInv
<1> QED
  BY <1>1, <1>2

\* AccountInv holds in every reachable state.
LEMMA AccountInvHolds == Spec => []AccountInv
<1> QED
  BY InitAccountInv, StepKeepsAccountInv, PTL DEF Spec

\* A call that the SDK may not repeat takes effect once at most, whatever its attempts meet.
THEOREM SessionEffectsOnce == Spec => []EffectsHappenOnce
<1>1. AccountInv => EffectsHappenOnce
  BY DEF AccountInv, EffectInv, EffectOf, EffectsHappenOnce
<1> QED
  BY <1>1, AccountInvHolds, PTL

\* The session is one sign-in's: its tokens are its user's and its wallet belongs to that
\* user, unless one of the three races that `raced` names has happened.
THEOREM SessionAlwaysWhole == Spec => []SessionIsWhole
<1>1. AccountInv => SessionIsWhole
  BY DEF AccountInv, OwnedInv, Whole, SessionIsWhole
<1> QED
  BY <1>1, AccountInvHolds, PTL

\* No call reports a 401 before it was tried with a token other than the one refused, unless
\* there was no session to try it with.
THEOREM SessionUnauthorizedRetried == Spec => UnauthorizedWasRetried
<1>1. ASSUME AccountInv, [Next]_vars
      PROVE  [\A c \in Calls :
                 calls[c].stage # "failed" /\ calls'[c].stage = "failed"
                    /\ calls[c].answer = "unauthorized"
                 => \/ NoToken \in {session'.token, calls[c].token}
                    \/ calls[c].token # calls[c].refused]_vars
  <2> SUFFICES ASSUME Next, NEW c \in Calls,
                      calls[c].stage # "failed", calls'[c].stage = "failed", calls[c].answer = "unauthorized"
               PROVE  \/ NoToken \in {session'.token, calls[c].token}
                      \/ calls[c].token # calls[c].refused
    BY <1>1
  <2>1. PICK r, q, now : r = calls[c] /\ q = calls'[c] /\ now = session'.token
    OBVIOUS
  <2>2. r \in Request /\ q \in Request /\ Moves(c, r, q, now)
    BY <1>1, <2>1, CallMoves DEF AccountInv, TypeInv, CallsOK, Requests
  <2>3. ~Sends(r, q, now)
    <3> SUFFICES ASSUME Sends(r, q, now) PROVE FALSE
      OBVIOUS
    <3>1. PICK n \in Nat : q = [Attempt(r, [token |-> now]) EXCEPT !.attempt = n]
      BY DEF Sends
    <3>2. PICK p : p = Attempt(r, [token |-> now])
      OBVIOUS
    <3>3. p.stage = "sent" /\ q.stage = p.stage
      BY <2>2, <3>1, <3>2 DEF Attempt, Request
    <3> QED
      BY <2>1, <3>3
  <2>4. ~Hears(r, q) /\ ~AwaitsRefresh(r, q) /\ ~Sleeps(r, q)
    BY <2>1, <2>2 DEF Hears, AwaitsRefresh, Sleeps, Request
  <2>5. PICK stage \in {"ok", "failed"} :
           /\ q = Settled(r, stage)
           /\ stage = "failed" /\ r.answer = "unauthorized"
                 => now = NoToken \/ (r.stage = "answered" /\ r.refreshed)
    BY <2>1, <2>2, <2>3, <2>4 DEF Moves, Ends
  <2>6. stage = "failed"
    BY <2>1, <2>2, <2>5, SettledCall
  <2> QED
    BY <1>1, <2>1, <2>5, <2>6 DEF AccountInv, RetryInv
<1> QED
  BY <1>1, AccountInvHolds, PTL DEF Spec, UnauthorizedWasRetried

-----------------------------------------------------------------------------
(* Live events (RealtimeClient): one socket, from which an event is heard  *)
(* once.                                                                   *)

Packet == [type : {"subscribe", "unsubscribe"}, address : Addresses]

Connection == [state : {"loading", "failed", "down", "up", "closed"}, packets : Seq(Packet),
               rooms : SUBSET Addresses]

Subscription == [stage : {"idle", "waiting", "ready", "subscribed", "left", "rejected"},
                 address : Addresses \cup {NoAddress}, socket : Nat]

WiringOK ==
    /\ sockets \in Seq(Connection)
    /\ socket \in {None} \cup DOMAIN sockets /\ connecting \in {None} \cup DOMAIN sockets
    /\ subs \in [Handlers -> Subscription]
    /\ \A h \in Handlers : subs[h].stage # "idle" =>
          subs[h].address \in Addresses /\ subs[h].socket \in DOMAIN sockets
    /\ event \in Addresses \cup {NoAddress}
    /\ heard \in [Handlers -> Nat] /\ overtaken \in BOOLEAN

Alive == {"down", "up"}

\* Unless close() has overtaken a subscribe(), the open socket is the client's, and one
\* that is being loaded is the only one, with somebody waiting for it.
OneSocket ==
    /\ socket # None => sockets[socket].state \in Alive
    /\ \A i \in DOMAIN sockets :
          /\ sockets[i].state \in Alive => socket = i
          /\ sockets[i].state = "loading" =>
                /\ connecting = i /\ socket = None
                /\ \E h \in Handlers : subs[h].stage = "waiting" /\ subs[h].socket = i

\* Who has heard of the event heard it from the last socket it was on its way to.
HeardOnce ==
    /\ \A i \in arriving : i \in DOMAIN sockets /\ sockets[i].state = "up"
    /\ event = NoAddress => arriving = {}
    /\ event = NoAddress \/ arriving # {} => \A h \in Handlers : heard[h] = 0
    /\ \A h \in Handlers : heard[h] <= 1

RealtimeInv == WiringOK /\ (overtaken \/ (OneSocket /\ HeardOnce))

\* Nothing is open yet.
LEMMA InitRealtimeInv == RealtimeInit => RealtimeInv
  <1> SUFFICES ASSUME RealtimeInit PROVE RealtimeInv
    OBVIOUS
  <1>1. sockets = << >> /\ socket = None /\ connecting = None /\ DOMAIN sockets = {}
    BY DEF RealtimeInit
  <1>2. NoCall \in Subscription
    BY DEF NoCall, Subscription, None
  <1>3. WiringOK
    <2>1. subs \in [Handlers -> Subscription] /\ \A h \in Handlers : subs[h].stage = "idle"
      BY <1>2 DEF RealtimeInit, NoCall
    <2>2. sockets \in Seq(Connection)
      BY <1>1
    <2>3. heard \in [Handlers -> Nat] /\ overtaken \in BOOLEAN /\ event = NoAddress
      BY DEF RealtimeInit
    <2> QED BY <1>1, <2>1, <2>2, <2>3 DEF WiringOK
  <1>4. OneSocket /\ HeardOnce
    BY <1>1 DEF RealtimeInit, OneSocket, HeardOnce
  <1> QED BY <1>3, <1>4 DEF RealtimeInv

\* One connection changes, the others stay.
LEMMA ConnectionChanges ==
  ASSUME sockets \in Seq(Connection), NEW i \in DOMAIN sockets, NEW x \in Connection,
         sockets' = [sockets EXCEPT ![i] = x]
  PROVE  /\ sockets' \in Seq(Connection) /\ DOMAIN sockets' = DOMAIN sockets
         /\ sockets'[i] = x /\ \A j \in DOMAIN sockets : j # i => sockets'[j] = sockets[j]
  OBVIOUS

\* A connection, field by field.
LEMMA ConnectionFields ==
  ASSUME sockets \in Seq(Connection), NEW i \in DOMAIN sockets
  PROVE  /\ sockets[i] \in Connection
         /\ sockets[i].state \in {"loading", "failed", "down", "up", "closed"}
         /\ sockets[i].packets \in Seq(Packet) /\ sockets[i].rooms \in SUBSET Addresses
  <1>1. sockets[i] \in Connection
    OBVIOUS
  <1> QED BY <1>1 DEF Connection

\* The connect handler asks for rooms of addresses.
LEMMA ResubscriptionsAreRequests == Resubscriptions \in Seq(Packet)
  <1> DEFINE S == {[type |-> "subscribe", address |-> a] : a \in {b \in Addresses : Subscribed(b)}}
             f == [a \in {b \in Addresses : Subscribed(b)} |-> [type |-> "subscribe", address |-> a]]
  <1>1. IsFiniteSet({b \in Addresses : Subscribed(b)})
    BY RealtimeAssumption, FS_Subset
  <1>2. f \in Surjection({b \in Addresses : Subscribed(b)}, S)
    BY DEF Surjection
  <1>3. IsFiniteSet(S)
    <2> HIDE DEF f, S
    <2> QED BY <1>1, <1>2, FS_Surjection
  <1>4. S \subseteq Packet
    BY DEF Packet
  <1>5. Resubscriptions = SetToSeq(S)
    BY DEF Resubscriptions
  <1> HIDE DEF S
  <1>6. Cardinality(S) \in Nat /\ ExistsBijection(1..Cardinality(S), S)
    BY <1>3, FS_CardinalityType
  <1>7. PICK b : b \in Bijection(1..Cardinality(S), S)
    BY <1>6 DEF ExistsBijection
  <1>8. b \in [1..Cardinality(S) -> S] /\ IsInjective(b)
    BY <1>7 DEF Bijection, Injection, IsInjective
  <1>9. SetToSeq(S) \in [1..Cardinality(S) -> S]
    BY <1>8 DEF SetToSeq
  <1>10. SetToSeq(S) \in Seq(S)
    BY <1>6, <1>9
  <1> QED BY <1>4, <1>5, <1>10

\* What a socket is given to send leaves its state.
LEMMA EmittedKeepsStates ==
  ASSUME sockets \in Seq(Connection), NEW i \in DOMAIN sockets, NEW a \in Addresses,
         NEW type \in {"subscribe", "unsubscribe"}, sockets' = Emitted(i, type, a)
  PROVE  /\ sockets' \in Seq(Connection) /\ DOMAIN sockets' = DOMAIN sockets
         /\ \A j \in DOMAIN sockets : sockets'[j].state = sockets[j].state
  <1>1. CASE sockets[i].state = "closed"
    BY <1>1 DEF Emitted
  <1>2. CASE sockets[i].state # "closed"
    <2>1. PICK p : p = Append(sockets[i].packets, [type |-> type, address |-> a])
      OBVIOUS
    <2>2. [type |-> type, address |-> a] \in Packet
      BY DEF Packet
    <2>3. p \in Seq(Packet)
      BY <2>1, <2>2, ConnectionFields
    <2>4. PICK x : x = [sockets[i] EXCEPT !.packets = p]
      OBVIOUS
    <2>5. sockets[i] \in Connection
      BY ConnectionFields
    <2>6. x \in Connection /\ x.state = sockets[i].state
      BY <2>3, <2>4, <2>5 DEF Connection
    <2>7. sockets' = [sockets EXCEPT ![i] = x]
      BY <1>2, <2>1, <2>4 DEF Emitted
    <2> QED BY <2>6, <2>7, ConnectionChanges
  <1> QED BY <1>1, <1>2

\* A step that leaves the states of the sockets keeps the invariant.
LEMMA SameStatesKeep ==
  ASSUME RealtimeInv, sockets' \in Seq(Connection), DOMAIN sockets' = DOMAIN sockets,
         \A j \in DOMAIN sockets : sockets'[j].state = sockets[j].state,
         subs' \in [Handlers -> Subscription],
         \A h \in Handlers :
            /\ subs[h].stage = "waiting" => subs'[h] = subs[h]
            /\ subs'[h].stage # "idle" =>
                  subs[h].stage # "idle" /\ subs'[h].address = subs[h].address
                                         /\ subs'[h].socket = subs[h].socket,
         UNCHANGED << socket, connecting, event, arriving, heard, overtaken >>
  PROVE  RealtimeInv'
  <1>1. WiringOK'
    BY DEF RealtimeInv, WiringOK
  <1>2. ASSUME ~overtaken PROVE OneSocket' /\ HeardOnce'
    <2>1. OneSocket /\ HeardOnce /\ WiringOK
      BY <1>2 DEF RealtimeInv
    <2>2. OneSocket'
      BY <2>1 DEF OneSocket, WiringOK
    <2>3. HeardOnce'
      BY <2>1 DEF HeardOnce
    <2> QED BY <2>2, <2>3
  <1> QED BY <1>1, <1>2 DEF RealtimeInv

\* subscribe() up to its await.
LEMMA SubscribeKeeps ==
  ASSUME RealtimeInv, NEW h \in Handlers, NEW a \in Addresses, Subscribe(h, a)
  PROVE  RealtimeInv'
  <1>1. WiringOK /\ subs[h].stage = "idle"
        /\ UNCHANGED << socket, event, arriving, heard, overtaken >>
    BY DEF RealtimeInv, Subscribe
  <1>2. CASE socket # None \/ (socket = None /\ connecting # None)
    <2>1. PICK s \in DOMAIN sockets : s = IF socket # None THEN socket ELSE connecting
      BY <1>1, <1>2 DEF WiringOK
    <2>2. PICK stage \in {"ready", "waiting", "rejected"} :
             subs' = [subs EXCEPT ![h] = [stage |-> stage, address |-> a, socket |-> s]]
      BY <1>2, <2>1 DEF Subscribe, Promised
    <2>3. UNCHANGED << connecting, sockets >>
      BY <1>2 DEF Subscribe, Promised
    <2>4. [stage |-> stage, address |-> a, socket |-> s] \in Subscription
      BY <1>1, <2>1, <2>2 DEF Subscription, WiringOK
    <2>5. WiringOK'
      BY <1>1, <2>2, <2>3, <2>4 DEF WiringOK
    <2>6. \A g \in Handlers : subs[g].stage = "waiting" => subs'[g] = subs[g]
      BY <1>1, <2>2 DEF WiringOK
    <2>7. ASSUME ~overtaken PROVE OneSocket' /\ HeardOnce'
      <3>1. OneSocket /\ HeardOnce
        BY <2>7 DEF RealtimeInv
      <3>2. OneSocket'
        BY <1>1, <2>3, <2>6, <3>1 DEF OneSocket
      <3> QED BY <1>1, <2>3, <3>1, <3>2 DEF HeardOnce
    <2> QED BY <1>1, <2>5, <2>7 DEF RealtimeInv
  <1>3. CASE socket = None /\ connecting = None
    <2>1. PICK n : n = Len(sockets)
      OBVIOUS
    <2>2. PICK x : x = [state |-> "loading", packets |-> << >>, rooms |-> {}]
      OBVIOUS
    <2>3. x \in Connection /\ x.state = "loading"
      BY <2>2 DEF Connection
    <2>4. /\ connecting' = n + 1 /\ sockets' = Append(sockets, x)
          /\ subs' = [subs EXCEPT ![h] = [stage |-> "waiting", address |-> a, socket |-> n + 1]]
      BY <1>3, <2>1, <2>2 DEF Subscribe, Promised
    <2>5. n \in Nat /\ DOMAIN sockets = 1..n /\ sockets \in Seq(Connection)
      BY <1>1, <2>1 DEF WiringOK
    <2>6. /\ sockets' \in Seq(Connection) /\ DOMAIN sockets' = 1..(n + 1)
          /\ sockets'[n + 1] = x /\ \A i \in 1..n : sockets'[i] = sockets[i]
      BY <2>1, <2>3, <2>4, <2>5
    <2>7. [stage |-> "waiting", address |-> a, socket |-> n + 1] \in Subscription
      BY <2>5 DEF Subscription
    <2>8. WiringOK'
      <3>1. subs' \in [Handlers -> Subscription]
        BY <1>1, <2>4, <2>7 DEF WiringOK
      <3>2. \A g \in Handlers : subs'[g].stage # "idle" =>
                subs'[g].address \in Addresses /\ subs'[g].socket \in DOMAIN sockets'
        BY <1>1, <2>4, <2>5, <2>6 DEF WiringOK
      <3>3. socket' \in {None} \cup DOMAIN sockets' /\ connecting' \in {None} \cup DOMAIN sockets'
        BY <1>1, <1>3, <2>4, <2>5, <2>6
      <3> QED BY <1>1, <2>6, <3>1, <3>2, <3>3 DEF WiringOK
    <2>9. ASSUME ~overtaken PROVE OneSocket' /\ HeardOnce'
      <3>1. OneSocket /\ HeardOnce
        BY <2>9 DEF RealtimeInv
      <3>2. \A i \in 1..n : sockets[i].state \notin Alive /\ sockets[i].state # "loading"
        BY <1>3, <2>5, <3>1 DEF OneSocket, None
      <3>3. subs'[h].stage = "waiting" /\ subs'[h].socket = n + 1
        BY <1>1, <2>4 DEF WiringOK
      <3>4. ASSUME NEW i \in DOMAIN sockets'
            PROVE  /\ sockets'[i].state \notin Alive
                   /\ sockets'[i].state = "loading" => i = n + 1
        <4>1. i \in 1..n \/ i = n + 1
          BY <2>5, <2>6
        <4> QED BY <2>3, <2>6, <3>2, <4>1 DEF Alive
      <3>5. OneSocket'
        BY <1>1, <1>3, <2>4, <3>3, <3>4 DEF OneSocket
      <3>6. \A i \in arriving : FALSE
        BY <2>5, <3>1, <3>2 DEF HeardOnce, Alive
      <3>7. HeardOnce'
        BY <1>1, <3>1, <3>6 DEF HeardOnce
      <3> QED BY <3>5, <3>7
    <2> QED BY <1>1, <2>8, <2>9 DEF RealtimeInv
  <1> QED BY <1>2, <1>3

\* Continue changes the stage of those that wait for one socket.
LEMMA Continued ==
  ASSUME WiringOK, NEW i \in DOMAIN sockets, NEW stage \in {"ready", "rejected"},
         subs' = Continue(i, stage)
  PROVE  /\ subs' \in [Handlers -> Subscription]
         /\ \A h \in Handlers :
               /\ subs'[h].address = subs[h].address /\ subs'[h].socket = subs[h].socket
               /\ subs'[h].stage = "idle" <=> subs[h].stage = "idle"
               /\ subs[h].socket # i => subs'[h] = subs[h]
  <1>1. ASSUME NEW h \in Handlers
        PROVE  /\ subs'[h] \in Subscription
               /\ subs'[h].address = subs[h].address /\ subs'[h].socket = subs[h].socket
               /\ subs'[h].stage = "idle" <=> subs[h].stage = "idle"
               /\ subs[h].socket # i => subs'[h] = subs[h]
    <2>1. subs[h] \in Subscription
      BY DEF WiringOK
    <2>2. PICK x : x = [subs[h] EXCEPT !.stage = stage]
      OBVIOUS
    <2>3. x \in Subscription /\ x.address = subs[h].address /\ x.socket = subs[h].socket /\ x.stage = stage
      BY <2>1, <2>2 DEF Subscription
    <2>4. subs'[h] = IF subs[h].stage = "waiting" /\ subs[h].socket = i THEN x ELSE subs[h]
      BY <2>2 DEF Continue
    <2> QED BY <2>1, <2>3, <2>4
  <1>2. subs' = [h \in Handlers |-> subs'[h]]
    BY DEF Continue
  <1> QED BY <1>1, <1>2

\* The import: a loading socket opens as the only one, or never will.
LEMMA LoadKeeps ==
  ASSUME RealtimeInv, NEW i \in DOMAIN sockets, Loaded(i) \/ LoadFails(i)
  PROVE  RealtimeInv'
  <1>1. WiringOK /\ sockets[i].state = "loading"
        /\ UNCHANGED << connecting, event, arriving, heard, overtaken >>
    BY DEF RealtimeInv, Loaded, LoadFails, history
  <1>2. PICK state \in {"down", "failed"}, stage \in {"ready", "rejected"} :
           /\ sockets' = [sockets EXCEPT ![i].state = state] /\ subs' = Continue(i, stage)
           /\ socket' = IF state = "down" THEN i ELSE socket
    BY DEF Loaded, LoadFails
  <1>3. PICK x : x = [sockets[i] EXCEPT !.state = state]
    OBVIOUS
  <1>4. sockets[i] \in Connection
    BY <1>1, ConnectionFields DEF WiringOK
  <1>5. x \in Connection /\ x.state = state
    BY <1>3, <1>4 DEF Connection
  <1>6. sockets' = [sockets EXCEPT ![i] = x]
    BY <1>2, <1>3
  <1>7. /\ sockets' \in Seq(Connection) /\ DOMAIN sockets' = DOMAIN sockets
        /\ sockets'[i] = x /\ \A j \in DOMAIN sockets : j # i => sockets'[j] = sockets[j]
    BY <1>1, <1>5, <1>6, ConnectionChanges DEF WiringOK
  <1>8. /\ subs' \in [Handlers -> Subscription]
        /\ \A h \in Handlers :
              /\ subs'[h].address = subs[h].address /\ subs'[h].socket = subs[h].socket
              /\ subs'[h].stage = "idle" <=> subs[h].stage = "idle"
              /\ subs[h].socket # i => subs'[h] = subs[h]
    BY <1>1, <1>2, Continued
  <1>9. WiringOK'
    BY <1>1, <1>2, <1>7, <1>8 DEF WiringOK
  <1>10. ASSUME ~overtaken PROVE OneSocket' /\ HeardOnce'
    <2>1. OneSocket /\ HeardOnce
      BY <1>10 DEF RealtimeInv
    <2>2. socket = None /\ connecting = i
          /\ \A j \in DOMAIN sockets : j # i => sockets[j].state \notin Alive \cup {"loading"}
      <3>1. socket = None /\ connecting = i
        BY <1>1, <2>1 DEF OneSocket
      <3>2. i # None /\ \A j \in DOMAIN sockets : j # None
        BY <1>1 DEF WiringOK, None
      <3> QED BY <2>1, <3>1, <3>2 DEF OneSocket
    <2>3. \A j \in DOMAIN sockets' : j # i => sockets'[j].state \notin Alive \cup {"loading"}
      BY <1>7, <2>2
    <2>4. OneSocket'
      <3>1. CASE state = "down"
        BY <1>2, <1>5, <1>7, <2>3, <3>1 DEF OneSocket, Alive
      <3>2. CASE state = "failed"
        BY <1>2, <1>5, <1>7, <2>2, <2>3, <3>2 DEF OneSocket, Alive
      <3> QED BY <3>1, <3>2
    <2>5. arriving = {}
      BY <1>1, <2>1, <2>2 DEF HeardOnce, Alive
    <2>6. HeardOnce'
      BY <1>1, <2>1, <2>5 DEF HeardOnce
    <2> QED BY <2>4, <2>6
  <1> QED BY <1>1, <1>9, <1>10 DEF RealtimeInv

\* subscribe() after its await, and the function it returned.
LEMMA HandlerKeeps ==
  ASSUME RealtimeInv, NEW h \in Handlers, Resume(h) \/ Unsubscribe(h)
  PROVE  RealtimeInv'
  <1>1. WiringOK /\ subs[h].stage \in {"ready", "subscribed"}
        /\ UNCHANGED << socket, connecting, event, arriving, heard, overtaken >>
    BY DEF RealtimeInv, Resume, Unsubscribe, history
  <1>2. PICK stage \in {"subscribed", "left"} : subs' = [subs EXCEPT ![h].stage = stage]
    BY DEF Resume, Unsubscribe
  <1>3. subs[h] \in Subscription /\ subs[h].address \in Addresses /\ subs[h].socket \in DOMAIN sockets
    BY <1>1 DEF WiringOK
  <1>4. PICK x : x = [subs[h] EXCEPT !.stage = stage]
    OBVIOUS
  <1>5. x \in Subscription /\ x.stage = stage /\ x.address = subs[h].address /\ x.socket = subs[h].socket
    BY <1>3, <1>4 DEF Subscription
  <1>6. subs' = [subs EXCEPT ![h] = x]
    BY <1>2, <1>4
  <1>7. /\ subs' \in [Handlers -> Subscription]
        /\ \A g \in Handlers :
            /\ subs[g].stage = "waiting" => subs'[g] = subs[g]
            /\ subs'[g].stage # "idle" =>
                  subs[g].stage # "idle" /\ subs'[g].address = subs[g].address
                                         /\ subs'[g].socket = subs[g].socket
    BY <1>1, <1>5, <1>6 DEF WiringOK
  <1>8. /\ sockets' \in Seq(Connection) /\ DOMAIN sockets' = DOMAIN sockets
        /\ \A j \in DOMAIN sockets : sockets'[j].state = sockets[j].state
    <2>1. CASE UNCHANGED sockets
      BY <1>1, <2>1 DEF WiringOK
    <2>2. CASE ~UNCHANGED sockets
      <3>1. PICK i \in DOMAIN sockets, type \in {"subscribe", "unsubscribe"} :
               sockets' = Emitted(i, type, subs[h].address)
        BY <1>1, <1>3, <2>2 DEF Resume, Unsubscribe, WiringOK
      <3> QED BY <1>1, <1>3, <3>1, EmittedKeepsStates DEF WiringOK
    <2> QED BY <2>1, <2>2
  <1> QED BY <1>1, <1>7, <1>8, SameStatesKeep

\* close(): who waits for a socket is overtaken, else none is left.
LEMMA CloseKeeps ==
  ASSUME RealtimeInv, Close
  PROVE  RealtimeInv'
  <1>1. /\ WiringOK /\ UNCHANGED << subs, event, heard >>
        /\ socket' = None /\ connecting' = None /\ arriving' = arriving \ {socket}
        /\ overtaken' = (overtaken \/ Waiting \cup Ready # {})
    BY DEF RealtimeInv, Close
  <1>2. PICK x : x = [state |-> "closed", packets |-> << >>, rooms |-> {}]
    OBVIOUS
  <1>3. x \in Connection /\ x.state = "closed"
    BY <1>2 DEF Connection
  <1>4. /\ sockets' \in Seq(Connection) /\ DOMAIN sockets' = DOMAIN sockets
        /\ socket # None => sockets'[socket] = x
        /\ \A j \in DOMAIN sockets : j # socket => sockets'[j] = sockets[j]
    <2>1. CASE socket = None
      BY <1>1, <2>1 DEF Close, WiringOK
    <2>2. CASE socket # None
      <3>1. socket \in DOMAIN sockets /\ sockets' = [sockets EXCEPT ![socket] = x]
        BY <1>1, <1>2, <2>2 DEF Close, WiringOK
      <3> QED BY <1>1, <1>3, <3>1, ConnectionChanges DEF WiringOK
    <2> QED BY <2>1, <2>2
  <1>5. WiringOK'
    BY <1>1, <1>4 DEF WiringOK
  <1>6. ASSUME ~overtaken' PROVE OneSocket' /\ HeardOnce'
    <2>1. OneSocket /\ HeardOnce /\ Waiting = {}
      BY <1>1, <1>6 DEF RealtimeInv
    <2>2. \A i \in DOMAIN sockets : sockets[i].state # "loading"
      BY <2>1 DEF OneSocket, Waiting
    <2>3. \A i \in DOMAIN sockets' : sockets'[i].state \notin Alive \cup {"loading"}
      <3> SUFFICES ASSUME NEW i \in DOMAIN sockets'
                   PROVE  sockets'[i].state \notin Alive \cup {"loading"}
        OBVIOUS
      <3>0. i \in DOMAIN sockets /\ i # None
        BY <1>1, <1>4 DEF WiringOK, None
      <3>1. CASE i = socket
        BY <1>3, <1>4, <3>0, <3>1 DEF Alive
      <3>2. CASE i # socket
        BY <1>4, <2>1, <2>2, <3>0, <3>2 DEF OneSocket
      <3> QED BY <3>1, <3>2
    <2>4. OneSocket'
      BY <1>1, <2>3 DEF OneSocket
    <2>5. arriving' = {}
      BY <1>1, <2>1 DEF OneSocket, HeardOnce, Alive
    <2>6. HeardOnce'
      BY <1>1, <2>1, <2>5 DEF HeardOnce
    <2> QED BY <2>4, <2>6
  <1>7. overtaken' \in BOOLEAN
    BY <1>5 DEF WiringOK
  <1> QED BY <1>5, <1>6, <1>7 DEF RealtimeInv

\* socket.io connects the client's socket, or loses its connection with what it carries.
LEMMA ConnectionKeeps ==
  ASSUME RealtimeInv, NEW i \in DOMAIN sockets, Connect(i) \/ Drop(i)
  PROVE  RealtimeInv'
  <1>1. /\ WiringOK /\ sockets[i].state \in Alive
        /\ UNCHANGED << socket, connecting, subs, event, heard, overtaken >>
        /\ arriving' = arriving \/ arriving' = arriving \ {i}
    BY DEF RealtimeInv, Connect, Drop, clientVars, history, Alive
  <1>2. sockets[i] \in Connection /\ sockets[i].packets \in Seq(Packet)
    BY <1>1, ConnectionFields DEF WiringOK
  <1>3. PICK x \in Connection : /\ sockets' = [sockets EXCEPT ![i] = x] /\ x.state \in Alive
                                /\ x.state = "up" \/ arriving' = arriving \ {i}
    <2>1. CASE Connect(i)
      <3>1. PICK p : p = sockets[i].packets \o Resubscriptions
        OBVIOUS
      <3>2. p \in Seq(Packet)
        BY <1>2, <3>1, ResubscriptionsAreRequests
      <3>3. PICK x : x = [sockets[i] EXCEPT !.state = "up", !.packets = p]
        OBVIOUS
      <3>4. x \in Connection /\ x.state = "up"
        BY <1>2, <3>2, <3>3 DEF Connection
      <3>5. sockets' = [sockets EXCEPT ![i] = x]
        BY <2>1, <3>1, <3>3, <1>1 DEF Connect, WiringOK
      <3> QED BY <3>4, <3>5 DEF Alive
    <2>2. CASE Drop(i)
      <3>1. PICK x : x = [state |-> "down", packets |-> << >>, rooms |-> {}]
        OBVIOUS
      <3>2. x \in Connection /\ x.state = "down"
        BY <3>1 DEF Connection
      <3>3. sockets' = [sockets EXCEPT ![i] = x] /\ arriving' = arriving \ {i}
        BY <2>2, <3>1 DEF Drop
      <3> QED BY <3>2, <3>3 DEF Alive
    <2> QED BY <2>1, <2>2
  <1>4. /\ sockets' \in Seq(Connection) /\ DOMAIN sockets' = DOMAIN sockets
        /\ sockets'[i] = x /\ \A j \in DOMAIN sockets : j # i => sockets'[j] = sockets[j]
    BY <1>1, <1>3, ConnectionChanges DEF WiringOK
  <1>5. WiringOK'
    BY <1>1, <1>4 DEF WiringOK
  <1>6. ASSUME ~overtaken PROVE OneSocket' /\ HeardOnce'
    <2>1. OneSocket /\ HeardOnce
      BY <1>6 DEF RealtimeInv
    <2>2. socket = i /\ i # None
      BY <1>1, <2>1 DEF OneSocket, WiringOK, None
    <2>3. OneSocket'
      BY <1>1, <1>3, <1>4, <2>1, <2>2 DEF OneSocket, Alive
    <2>4. HeardOnce'
      BY <1>1, <1>3, <1>4, <2>1 DEF HeardOnce
    <2> QED BY <2>3, <2>4
  <1> QED BY <1>1, <1>5, <1>6 DEF RealtimeInv

\* join and leave leave the connection.
LEMMA GatewayKeeps ==
  ASSUME RealtimeInv, NEW i \in DOMAIN sockets, GatewayReceives(i)
  PROVE  RealtimeInv'
  <1>1. WiringOK /\ sockets[i].packets # << >>
        /\ UNCHANGED << socket, connecting, subs, event, arriving, heard, overtaken >>
    BY DEF RealtimeInv, GatewayReceives, clientVars, history
  <1>2. sockets[i] \in Connection /\ sockets[i].packets \in Seq(Packet)
        /\ sockets[i].rooms \in SUBSET Addresses
    BY <1>1, ConnectionFields DEF WiringOK
  <1>3. PICK packet : packet = Head(sockets[i].packets)
    OBVIOUS
  <1>4. packet \in Packet /\ packet.address \in Addresses /\ Tail(sockets[i].packets) \in Seq(Packet)
    <2>1. PICK p \in Seq(Packet) : p = sockets[i].packets
      BY <1>2
    <2>2. p # << >>
      BY <1>1, <2>1
    <2>3. Head(p) \in Packet /\ Tail(p) \in Seq(Packet)
      BY <2>2
    <2>4. packet \in Packet
      BY <1>3, <2>1, <2>3
    <2> QED BY <2>1, <2>3, <2>4 DEF Packet
  <1>5. PICK t \in Seq(Packet) : t = Tail(sockets[i].packets)
    BY <1>4
  <1>6. PICK r \in SUBSET Addresses :
           r = IF packet.type = "subscribe" THEN sockets[i].rooms \cup {packet.address}
               ELSE sockets[i].rooms \ {packet.address}
    BY <1>2, <1>4
  <1>7. PICK x : x = [sockets[i] EXCEPT !.packets = t, !.rooms = r]
    OBVIOUS
  <1>8. x \in Connection /\ x.state = sockets[i].state
    BY <1>2, <1>5, <1>6, <1>7 DEF Connection
  <1>9. sockets' = [sockets EXCEPT ![i] = x]
    BY <1>1, <1>2, <1>3, <1>5, <1>6, <1>7 DEF GatewayReceives, WiringOK, Connection
  <1>10. /\ sockets' \in Seq(Connection) /\ DOMAIN sockets' = DOMAIN sockets
         /\ \A j \in DOMAIN sockets : sockets'[j].state = sockets[j].state
    BY <1>1, <1>8, <1>9, ConnectionChanges DEF WiringOK
  <1>11. /\ subs' \in [Handlers -> Subscription]
         /\ \A h \in Handlers :
            /\ subs[h].stage = "waiting" => subs'[h] = subs[h]
            /\ subs'[h].stage # "idle" =>
                  subs[h].stage # "idle" /\ subs'[h].address = subs[h].address
                                         /\ subs'[h].socket = subs[h].socket
    BY <1>1 DEF WiringOK
  <1> QED BY <1>1, <1>10, <1>11, SameStatesKeep

\* An event goes to the one connection there is, which calls each handler once.
LEMMA EventKeeps ==
  ASSUME RealtimeInv, (\E a \in Addresses : Publish(a)) \/ (\E i \in DOMAIN sockets : Deliver(i))
  PROVE  RealtimeInv'
  <1>1. WiringOK /\ UNCHANGED << socket, connecting, subs, sockets, overtaken >>
    BY DEF RealtimeInv, Publish, Deliver, clientVars, history
  <1>2. OneSocket => OneSocket'
    BY <1>1 DEF OneSocket
  <1>3. CASE \E a \in Addresses : Publish(a)
    <2>1. PICK a \in Addresses : Publish(a)
      BY <1>3
    <2>2. event = NoAddress /\ event' = a /\ arriving' = InRoom(a) /\ heard' = heard
      BY <2>1 DEF Publish, history
    <2>3. WiringOK'
      BY <1>1, <2>2 DEF WiringOK
    <2>4. a # NoAddress
      BY RealtimeAssumption
    <2>5. HeardOnce => HeardOnce'
      BY <1>1, <2>2, <2>4 DEF HeardOnce, InRoom
    <2> QED BY <1>1, <1>2, <2>3, <2>5 DEF RealtimeInv
  <1>4. CASE \E i \in DOMAIN sockets : Deliver(i)
    <2>1. PICK i \in DOMAIN sockets : Deliver(i)
      BY <1>4
    <2>2. /\ i \in arriving /\ arriving' = arriving \ {i} /\ event' = event
          /\ heard' = [h \in Handlers |-> IF h \in handlers[event] THEN heard[h] + 1 ELSE heard[h]]
      BY <2>1 DEF Deliver
    <2>3. heard \in [Handlers -> Nat]
      BY <1>1 DEF WiringOK
    <2>4. heard' \in [Handlers -> Nat] /\ \A h \in Handlers : heard'[h] <= heard[h] + 1
      BY <2>2, <2>3
    <2>5. WiringOK'
      BY <1>1, <2>2, <2>4 DEF WiringOK
    <2>6. ASSUME OneSocket, HeardOnce PROVE HeardOnce'
      <3>1. \A j \in arriving : j = socket
        BY <2>6 DEF OneSocket, HeardOnce, Alive
      <3>2. arriving' = {} /\ event # NoAddress /\ \A h \in Handlers : heard[h] = 0
        BY <2>2, <2>6, <3>1 DEF HeardOnce
      <3>3. \A h \in Handlers : heard'[h] <= 1
        BY <2>4, <3>2
      <3> QED BY <2>2, <3>2, <3>3 DEF HeardOnce
    <2> QED BY <1>1, <1>2, <2>5, <2>6 DEF RealtimeInv
  <1> QED BY <1>3, <1>4

\* Every step of client, network and gateway keeps RealtimeInv.
LEMMA NextRealtimeInv == RealtimeInv /\ [RealtimeNext]_realtimeVars => RealtimeInv'
  <1> SUFFICES ASSUME RealtimeInv, [RealtimeNext]_realtimeVars PROVE RealtimeInv'
    OBVIOUS
  <1>1. CASE UNCHANGED realtimeVars
    BY <1>1 DEF realtimeVars, clientVars, history, RealtimeInv, WiringOK, OneSocket, HeardOnce
  <1>2. ASSUME NEW h \in Handlers, NEW a \in Addresses, Subscribe(h, a) PROVE RealtimeInv'
    BY <1>2, SubscribeKeeps
  <1>3. ASSUME NEW h \in Handlers, Resume(h) \/ Unsubscribe(h) PROVE RealtimeInv'
    BY <1>3, HandlerKeeps
  <1>4. ASSUME NEW i \in DOMAIN sockets, Network(i) \/ LoadFails(i) \/ Drop(i) PROVE RealtimeInv'
    <2>1. CASE Loaded(i) \/ LoadFails(i)
      BY <2>1, LoadKeeps
    <2>2. CASE Connect(i) \/ Drop(i)
      BY <2>2, ConnectionKeeps
    <2>3. CASE GatewayReceives(i)
      BY <2>3, GatewayKeeps
    <2>4. CASE Deliver(i)
      BY <2>4, EventKeeps
    <2> QED BY <1>4, <2>1, <2>2, <2>3, <2>4 DEF Network
  <1>5. ASSUME NEW a \in Addresses, Publish(a) PROVE RealtimeInv'
    BY <1>5, EventKeeps
  <1>6. CASE Close
    BY <1>6, CloseKeeps
  <1> QED BY <1>1, <1>2, <1>3, <1>4, <1>5, <1>6 DEF RealtimeNext

\* realtime.ts:57: through every drop, reconnection, close and new subscription, no handler
\* hears the event twice and no second socket is open, unless a close() has overtaken a
\* subscribe().
THEOREM RealtimeOneSocket == RealtimeSpec => []OneSocketSpeaks
  <1>1. RealtimeInv => OneSocketSpeaks
    <2>1. OneSocket /\ HeardOnce => OneSocketSpeaks
      BY DEF OneSocket, HeardOnce, OneSocketSpeaks, Alive
    <2>2. overtaken => OneSocketSpeaks
      BY DEF OneSocketSpeaks
    <2> QED BY <2>1, <2>2 DEF RealtimeInv
  <1> QED BY <1>1, InitRealtimeInv, NextRealtimeInv, PTL DEF RealtimeSpec
=============================================================================
