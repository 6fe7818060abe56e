------------------------------ MODULE ApiSession ------------------------------
(***************************************************************************)
(* The account of an SDK client and of the API behind it.                  *)
(*                                                                         *)
(*   packages/sdk/src/client.ts   the session, and who may change it       *)
(*   packages/sdk/src/http.ts     one call: attempts, retries, one refresh *)
(*   apps/api/.../auth            challenges, sign-in, token refresh       *)
(*   apps/api/.../guards          bearer tokens, API keys, the rate limit  *)
(*                                                                         *)
(* One client runs several calls at once.  Its handlers are cut where they *)
(* wait for the network, and everything between two waits is one step.     *)
(* Tokens are stateless: the API knows only whether one is still valid.    *)
(* A pair of tokens is its number in the order of issue.                   *)
(*                                                                         *)
(* Bound: the client makes each call, the sign-in and auth.refresh() once, *)
(* and another device signs in once.                                       *)
(***************************************************************************)
EXTENDS Integers, Sequences, FiniteSets

CONSTANTS
    Wallets,
    Calls,              \* calls of the API besides the sign-in
    Kinds,              \* what a call may be a call of
    Authed,             \* kinds behind AccountAuthGuard or JwtAuthGuard
    Limited,            \* kinds behind RateLimitGuard
    Idempotent,         \* kinds the SDK takes to be idempotent
    MaxRetries,         \* RetryPolicy.maxRetries
    Limit,              \* requests of one window of the rate limit
    MaxEvents           \* bound: faults, sign-outs, forced refreshes and sign-ins
                        \* of the other device in a behaviour

ASSUME SessionAssumption ==
    /\ IsFiniteSet(Wallets)
    /\ Authed \subseteq Kinds /\ Limited \subseteq Kinds /\ Idempotent \subseteq Kinds
    /\ "verify" \notin Calls \cup Kinds
    /\ MaxRetries \in Nat
    /\ Limit \in Nat \ {0}
    /\ MaxEvents \in Nat

VARIABLES
    session,        \* RiviskClient.session
    calls,          \* the requests of the client
    refreshes,      \* "shared": RiviskClient.refreshing; "forced": auth.refresh()
    tokens,         \* pairs of tokens the API has issued to this client
    owner,          \* table Wallet: the user each wallet belongs to, 0 for none
    challenge,      \* Redis: whose challenge of a wallet is waiting to be signed
    logins,         \* auth.verify on the API, for the client and for another device
    used,           \* Redis: requests counted in the present window
    raced,          \* history: a session change overtook a refresh in flight
    events          \* how many of the bounded events have happened

client == << session, calls, refreshes, raced >>
api == << tokens, owner, challenge, logins, used >>
vars == << client, api, events >>

Requests == Calls \cup {"verify"}
Devices == {"client", "other"}
NoUser == 0
NoToken == 0
NoSession == [user |-> NoUser, wallet |-> "none", token |-> NoToken]

Event ==
    /\ events < MaxEvents
    /\ events' = events + 1

Users == {owner[w] : w \in Wallets} \cup {tokens[n].user : n \in DOMAIN tokens}

NewUser == CHOOSE u \in 1..(Cardinality(Users) + 1) : u \notin Users

NotCalled(kind) == [kind |-> kind, stage |-> "idle", token |-> NoToken, attempt |-> 0, refused |-> NoToken,
                    refreshed |-> FALSE, executed |-> 0, answer |-> "none"]

\* What is left of a call that returned or threw.
Settled(r, stage) == [NotCalled(r.kind) EXCEPT !.stage = stage, !.executed = r.executed]

NoRefresh == [stage |-> "idle", token |-> NoToken, answer |-> "none", minted |-> NoToken]

NoLogin == [step |-> "idle", wallet |-> "none", user |-> NoUser, minted |-> NoToken]

\* A client without a session, or one that restored a wallet's, whose tokens may
\* have expired since.  The other wallets have no user yet.
Init ==
    /\ \/ /\ tokens = << >>
          /\ owner = [w \in Wallets |-> NoUser]
          /\ session = NoSession
       \/ \E w \in Wallets, access, refresh \in BOOLEAN :
             /\ access => refresh
             /\ tokens = << [user |-> 1, access |-> access, refresh |-> refresh] >>
             /\ owner = [v \in Wallets |-> IF v = w THEN 1 ELSE NoUser]
             /\ session = [user |-> 1, wallet |-> w, token |-> 1]
    /\ \E kind \in [Calls -> Kinds] :
          calls = [c \in Requests |-> NotCalled(IF c = "verify" THEN c ELSE kind[c])]
    /\ refreshes = [k \in {"shared", "forced"} |-> NoRefresh]
    /\ challenge = [w \in Wallets |-> "none"]
    /\ logins = [d \in Devices |-> NoLogin]
    /\ used \in 0..Limit
    /\ raced = FALSE /\ events = 0
-----------------------------------------------------------------------------
(* A request of the SDK.                                                   *)

\* Mutant: the header is made once for all attempts.
Attempt_OneHeader(r, now) ==
    [r EXCEPT !.stage = "sent", !.token = IF r.token = NoToken THEN now.token ELSE r.token,
              !.answer = "none"]

\* The header is made anew for every attempt from the session of that moment.
Attempt(r, now) == [r EXCEPT !.stage = "sent", !.token = now.token, !.answer = "none"]

StartCall(c) ==
    /\ calls[c].stage = "idle"
    /\ calls' = [calls EXCEPT ![c] = Attempt(@, session)]
    /\ UNCHANGED << session, refreshes, raced, api, events >>

\* auth.challenge, the wallet's signature and the request of auth.verify.
SignIn(w) ==
    /\ calls["verify"].stage = "idle"
    /\ calls' = [calls EXCEPT !["verify"] = Attempt(@, session)]
    /\ challenge' = [challenge EXCEPT ![w] = "client"]
    /\ logins' = [logins EXCEPT !["client"] = [NoLogin EXCEPT !.step = "asked", !.wallet = w]]
    /\ UNCHANGED << session, refreshes, raced, tokens, owner, used, events >>

\* Mutant: whatever failed may be repeated.
MayRetry_Any(c, answer) == answer \in {"limited", "lost"}

\* A 429 was never processed; anything else is repeated only where that is safe.
MayRetry(c, answer) == answer = "limited" \/ (answer = "lost" /\ calls[c].kind \in Idempotent)

RefreshInFlight == \E k \in DOMAIN refreshes : refreshes[k].stage \in {"sent", "answered"}

CallSucceeds(c) ==
    /\ calls[c].answer = "ok"
    /\ calls' = [calls EXCEPT ![c] = Settled(@, "ok")]
    /\ IF c = "verify"
       THEN /\ session' = [user |-> logins["client"].user, wallet |-> logins["client"].wallet,
                           token |-> logins["client"].minted]
            /\ raced' = (raced \/ RefreshInFlight)
       ELSE UNCHANGED << session, raced >>
    /\ UNCHANGED refreshes

\* The first 401 of a call awaits the refresh in flight, or starts one.
CallUnauthorized(c) ==
    /\ calls[c].answer = "unauthorized" /\ ~calls[c].refreshed /\ session.token # NoToken
    /\ calls' = [calls EXCEPT ![c].stage = "refreshing", ![c].refreshed = TRUE,
                              ![c].refused = calls[c].token]
    /\ refreshes' = IF refreshes["shared"].stage # "idle" THEN refreshes
                    ELSE [refreshes EXCEPT !["shared"] =
                             [NoRefresh EXCEPT !.stage = "sent", !.token = session.token]]
    /\ UNCHANGED << session, raced >>

CallFails(c) ==
    /\ calls[c].answer # "ok"
    /\ ~(calls[c].answer = "unauthorized" /\ ~calls[c].refreshed /\ session.token # NoToken)
    /\ calls' = [calls EXCEPT ![c] =
                    IF MayRetry(c, @.answer) /\ @.attempt < MaxRetries
                    THEN [@ EXCEPT !.stage = "sleeping"] ELSE Settled(@, "failed")]
    /\ UNCHANGED << session, refreshes, raced >>

ReceiveAnswer(c) ==
    /\ calls[c].stage = "answered"
    /\ CallSucceeds(c) \/ CallUnauthorized(c) \/ CallFails(c)
    /\ UNCHANGED << api, events >>

WakeUp(c) ==
    /\ calls[c].stage = "sleeping"
    /\ calls' = [calls EXCEPT ![c] = [Attempt(calls[c], session) EXCEPT !.attempt = @ + 1]]
    /\ UNCHANGED << session, refreshes, raced, api, events >>

-----------------------------------------------------------------------------
(* The session.                                                            *)

\* Every call that awaits the shared refresh goes on in the same step: true sends it
\* again, with the session that is current then, and false lets its 401 through.
Resumed(goesOn, now) ==
    [c \in Requests |->
        IF calls[c].stage # "refreshing" THEN calls[c]
        ELSE IF goesOn THEN [Attempt(calls[c], now) EXCEPT !.attempt = @ + 1]
        ELSE Settled(calls[c], "failed")]

\* A sign-in that goes on is verified again, with the signature it has.
LoginsResumed(goesOn) ==
    IF goesOn /\ calls["verify"].stage = "refreshing"
    THEN [logins EXCEPT !["client"].step = "asked"] ELSE logins

\* Mutant: a refused refresh enters the hook.
SkipAuthRefresh_No == FALSE

\* The request of a refresh stays out of the hook: its own 401 would have it wait for
\* itself.
SkipAuthRefresh == TRUE

\* refreshSession: the new tokens go into whatever session there is by now, and any
\* failure, a lost answer too, ends it.
ReceiveSharedRefresh ==
    LET call   == refreshes["shared"]
        goesOn == call.answer = "ok"
    IN  /\ call.stage = "answered"
        /\ call.answer = "refused" => SkipAuthRefresh
        /\ session' = IF ~goesOn \/ session = NoSession THEN NoSession
                      ELSE [session EXCEPT !.token = call.minted]
        /\ refreshes' = [refreshes EXCEPT !["shared"] = NoRefresh]
        /\ calls' = Resumed(goesOn, session')
        /\ logins' = LoginsResumed(goesOn)
        /\ raced' = (raced \/ (~goesOn /\ refreshes["forced"].stage \in {"sent", "answered"}))
        /\ UNCHANGED << tokens, owner, challenge, used, events >>

\* auth.refresh(): a failure is thrown to the caller and changes nothing.
ForceRefresh ==
    /\ session.token # NoToken
    /\ refreshes["forced"].stage = "idle"
    /\ Event
    /\ refreshes' = [refreshes EXCEPT !["forced"] =
                        [NoRefresh EXCEPT !.stage = "sent", !.token = session.token]]
    /\ UNCHANGED << session, calls, raced, api >>

ReceiveForcedRefresh ==
    /\ refreshes["forced"].stage = "answered"
    /\ refreshes' = [refreshes EXCEPT !["forced"] = [NoRefresh EXCEPT !.stage = "done"]]
    /\ session' = IF refreshes["forced"].answer = "ok"
                  THEN [session EXCEPT !.token = refreshes["forced"].minted] ELSE session
    /\ UNCHANGED << calls, raced, api, events >>

SignOut ==
    /\ session # NoSession
    /\ Event
    /\ session' = NoSession
    /\ raced' = (raced \/ RefreshInFlight)
    /\ UNCHANGED << calls, refreshes, api >>

-----------------------------------------------------------------------------
(* The API.                                                                *)

\* The guards accept an access token until it expires.
Authorised(c) == calls[c].kind \notin Authed \/ (calls[c].token # NoToken /\ tokens[calls[c].token].access)

Answer(c, answer) == [calls EXCEPT ![c].stage = "answered", ![c].answer = answer]

Refuse(c) ==
    /\ ~Authorised(c)
    /\ calls' = Answer(c, "unauthorized")
    /\ UNCHANGED << used, events >>

\* INCR has counted the request that it refuses.
RefuseOverLimit(c) ==
    /\ Authorised(c) /\ calls[c].kind \in Limited /\ used = Limit
    /\ calls' = Answer(c, "limited")
    /\ UNCHANGED << used, events >>

Execute(c) ==
    /\ Authorised(c)
    /\ calls[c].kind \in Limited => used < Limit
    /\ used' = IF calls[c].kind \in Limited THEN used + 1 ELSE used
    /\ \/ calls' = [Answer(c, "ok") EXCEPT ![c].executed = @ + 1] /\ UNCHANGED events
       \/ Event /\ calls' = [Answer(c, "lost") EXCEPT ![c].executed = @ + 1]

\* The guard lets everything through while it cannot count.
ExecuteUncounted(c) ==
    /\ Authorised(c) /\ calls[c].kind \in Limited
    /\ Event
    /\ calls' = [Answer(c, "ok") EXCEPT ![c].executed = @ + 1]
    /\ UNCHANGED used

\* A network failure, a 5xx or a timeout before the handler.
LoseRequest(c) ==
    /\ Event
    /\ calls' = Answer(c, "lost")
    /\ UNCHANGED used

Serve(c) ==
    /\ calls[c].stage = "sent"
    /\ Refuse(c) \/ RefuseOverLimit(c) \/ Execute(c) \/ ExecuteUncounted(c) \/ LoseRequest(c)
    /\ UNCHANGED << session, refreshes, raced, tokens, owner, challenge, logins >>

\* The next window has a key of its own.
NextWindow ==
    /\ used # 0
    /\ used' = 0
    /\ UNCHANGED << client, tokens, owner, challenge, logins, events >>

Pair(u) == [user |-> u, access |-> TRUE, refresh |-> TRUE]

Settlement(answer, n) ==
    [NoRefresh EXCEPT !.stage = "answered", !.answer = answer, !.minted = n]

\* AuthService.refresh leaves the token it was given valid.
ServeRefresh(k) ==
    /\ refreshes[k].stage = "sent"
    /\ LET pair == tokens[refreshes[k].token]
       IN  IF pair.refresh
           THEN /\ tokens' = Append(tokens, Pair(pair.user))
                /\ refreshes' = [refreshes EXCEPT ![k] = Settlement("ok", Len(tokens) + 1)]
           ELSE /\ refreshes' = [refreshes EXCEPT ![k] = Settlement("refused", NoToken)]
                /\ UNCHANGED tokens
    /\ UNCHANGED << session, calls, raced, owner, challenge, logins, used, events >>

LoseRefresh(k) ==
    /\ refreshes[k].stage = "sent"
    /\ Event
    /\ refreshes' = [refreshes EXCEPT ![k] = Settlement("lost", NoToken)]
    /\ UNCHANGED << session, calls, raced, api >>

AccessExpires(n) ==
    /\ tokens[n].access
    /\ Event
    /\ tokens' = [tokens EXCEPT ![n].access = FALSE]
    /\ UNCHANGED << client, owner, challenge, logins, used >>

-----------------------------------------------------------------------------
(* Signing in, on the API: one challenge of a wallet at a time, which a    *)
(* new one replaces.  verify is cut at its awaits.  A challenge that       *)
(* expired is refused as one that was replaced is.                         *)

OtherSignsIn(w) ==
    /\ logins["other"].step = "idle"
    /\ Event
    /\ challenge' = [challenge EXCEPT ![w] = "other"]
    /\ logins' = [logins EXCEPT !["other"] = [NoLogin EXCEPT !.step = "asked", !.wallet = w]]
    /\ UNCHANGED << client, tokens, owner, used >>

Told(d, answer) == IF d = "client" THEN Answer("verify", answer) ELSE calls

\* GET, and the signature against the message it finds.
CheckChallenge(d) ==
    /\ logins[d].step = "asked"
    /\ IF challenge[logins[d].wallet] = d
       THEN /\ logins' = [logins EXCEPT ![d].step = "checked"]
            /\ UNCHANGED calls
       ELSE /\ logins' = [logins EXCEPT ![d].step = "refused"]
            /\ calls' = Told(d, "unauthorized")
    /\ UNCHANGED << session, refreshes, raced, tokens, owner, challenge, used, events >>

\* DEL, and the wallet's user as findUnique sees it.
ConsumeChallenge(d) ==
    /\ logins[d].step = "checked"
    /\ LET w == logins[d].wallet
       IN  /\ challenge' = [challenge EXCEPT ![w] = "none"]
           /\ logins' = [logins EXCEPT ![d].step = "found", ![d].user = owner[w]]
    /\ UNCHANGED << client, tokens, owner, used, events >>

\* Mutant: every login makes a user.
UserOf_AlwaysNew(d) == NewUser

UserOf(d) == IF logins[d].user # NoUser THEN logins[d].user ELSE NewUser

\* The wallet's user, or a new one who takes the wallet over, whoever has it by now.
LinkWallet(d) ==
    /\ logins[d].step = "found"
    /\ LET w == logins[d].wallet
           u == UserOf(d)
       IN  /\ owner' = [owner EXCEPT ![w] = u]
           /\ tokens' = IF d = "client" THEN Append(tokens, Pair(u)) ELSE tokens
           /\ logins' = [logins EXCEPT ![d].step = "done", ![d].user = u,
                                     ![d].minted = Len(tokens')]
           /\ raced' = (raced \/ (logins[d].user = NoUser /\ owner[w] # NoUser))
    /\ \/ calls' = Told(d, "ok") /\ UNCHANGED events
       \/ d = "client" /\ Event /\ calls' = Told(d, "lost")
    /\ UNCHANGED << session, refreshes, challenge, used >>

-----------------------------------------------------------------------------
ClientStep(c) == ReceiveAnswer(c) \/ WakeUp(c)

LoginStep(d) == CheckChallenge(d) \/ ConsumeChallenge(d) \/ LinkWallet(d)

Next ==
    \/ \E c \in Calls : StartCall(c) \/ Serve(c)
    \/ \E c \in Requests : ClientStep(c)
    \/ \E w \in Wallets : SignIn(w) \/ OtherSignsIn(w)
    \/ ForceRefresh \/ ReceiveSharedRefresh \/ ReceiveForcedRefresh \/ SignOut
    \/ \E k \in DOMAIN refreshes : ServeRefresh(k) \/ LoseRefresh(k)
    \/ \E n \in DOMAIN tokens : AccessExpires(n)
    \/ \E d \in Devices : LoginStep(d)
    \/ NextWindow

Spec == Init /\ [][Next]_vars

\* Requests are answered or time out, and the SDK's timers fire.
Progress ==
    \/ \E c \in Calls : Serve(c)
    \/ \E c \in Requests : ClientStep(c)
    \/ \E k \in DOMAIN refreshes : ServeRefresh(k)
    \/ ReceiveSharedRefresh \/ ReceiveForcedRefresh
    \/ \E d \in Devices : LoginStep(d)

FairSpec == Spec /\ WF_vars(Progress)

-----------------------------------------------------------------------------
(* Properties.                                                             *)

\* Sessions, requests and logins refer to users, wallets and tokens that exist.
SessionTypeOK ==
    LET serial == 0..Len(tokens)
        user   == 0..(Cardinality(Wallets) + 2)
    IN  /\ session \in [user : user, wallet : Wallets \cup {"none"}, token : serial]
        /\ calls \in [Requests ->
              [kind : Kinds \cup {"verify"}, token : serial, refused : serial,
               stage : {"idle", "sent", "answered", "refreshing", "sleeping", "ok", "failed"},
               attempt : 0..(MaxRetries + 1), refreshed : BOOLEAN, executed : Nat,
               answer : {"none", "ok", "unauthorized", "limited", "lost"}]]
        /\ refreshes \in [{"shared", "forced"} ->
              [stage : {"idle", "sent", "answered", "done"}, token : serial, minted : serial,
               answer : {"none", "ok", "refused", "lost"}]]
        /\ tokens \in Seq([user : user \ {0}, access : BOOLEAN, refresh : BOOLEAN])
        /\ owner \in [Wallets -> user]
        /\ challenge \in [Wallets -> Devices \cup {"none"}]
        /\ logins \in [Devices -> [wallet : Wallets \cup {"none"}, user : user, minted : serial,
              step : {"idle", "asked", "checked", "refused", "found", "done"}]]
        /\ used \in 0..Limit /\ raced \in BOOLEAN /\ events \in 0..MaxEvents

\* http.ts:181: what is not idempotent is repeated only when it was never processed.
\* A call takes effect once at most, whatever mix of refused tokens, full windows and
\* lost answers its attempts meet.
EffectsHappenOnce ==
    \A c \in Calls : calls[c].kind \notin Idempotent => calls[c].executed <= 1

\* The session is one sign-in's: its tokens are those of its user, and the API lets
\* that user manage its wallet.  Three things break it, and nothing else does: a
\* refresh answered after a sign-out or after another sign-in, and two first sign-ins
\* of one wallet at once.
SessionIsWhole ==
    raced \/ session = NoSession
        \/ /\ tokens[session.token].user = session.user
           /\ owner[session.wallet] = session.user

\* client.ts:53: a 401 reaches the caller only after a retry with another token, or
\* when it was sent, or sent again, without a session.
UnauthorizedWasRetried ==
    [][\A c \in Calls :
          calls[c].stage # "failed" /\ calls'[c].stage = "failed"
             /\ calls[c].answer = "unauthorized"
          => \/ NoToken \in {session'.token, calls[c].token}
             \/ calls[c].token # calls[c].refused]_vars

\* Every call of the SDK returns or throws: retries run out, and no call waits for a
\* refresh that nobody will settle.
CallsEnd ==
    \A c \in Requests : calls[c].stage = "sent" ~> calls[c].stage \in {"ok", "failed"}
=============================================================================
