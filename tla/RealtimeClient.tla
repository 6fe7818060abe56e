---------------------------- MODULE RealtimeClient ----------------------------
(***************************************************************************)
(* Live events: the SDK's RealtimeClient (packages/sdk/src/realtime.ts)    *)
(* and the gateway that feeds it (apps/realtime/src/main.ts).              *)
(*                                                                         *)
(* The client keeps one socket and the handlers of every address; the      *)
(* gateway keeps the rooms of a connection, which die with it.             *)
(* socket.io-client is external: it reconnects a socket that dropped,      *)
(* holds what is emitted meanwhile, and loses what was on the wire.        *)
(* subscribe() is cut at its await; continuations run before the next      *)
(* event of the network.                                                   *)
(*                                                                         *)
(* Bound: every handler is subscribed once, and one event is published.    *)
(***************************************************************************)
EXTENDS Integers, Sequences, SequencesExt, FiniteSets

CONSTANTS
    Addresses,
    Handlers,
    MaxSockets,         \* bound: sockets the client creates
    MaxFaults           \* bound: connections that drop and imports that fail

None == 0
NoAddress == "none"

ASSUME RealtimeAssumption ==
    /\ IsFiniteSet(Addresses) /\ NoAddress \notin Addresses
    /\ MaxSockets \in Nat \ {0}
    /\ MaxFaults \in Nat

VARIABLES
    socket,         \* RealtimeClient.socket, 0 for null
    connecting,     \* RealtimeClient.connecting: the socket it promises, 0 for null
    handlers,       \* RealtimeClient.handlers
    subs,           \* subscribe(), per handler
    sockets,        \* socket.io: what each socket has to send, and its rooms on the gateway
    event,          \* the address the event was published for
    arriving,       \* sockets the event is on its way to
    heard,          \* how often each handler was called
    quiet,          \* history: nobody has subscribed since close()
    overtaken,      \* history: close() was called while a subscribe() was waiting
    faults          \* faults so far

clientVars == << socket, connecting, handlers, subs >>
history == << heard, quiet, overtaken >>
realtimeVars == << clientVars, sockets, event, arriving, history, faults >>

NoCall == [stage |-> "idle", address |-> NoAddress, socket |-> None]

Fault ==
    /\ faults < MaxFaults
    /\ faults' = faults + 1

RealtimeInit ==
    /\ socket = None /\ connecting = None
    /\ handlers = [a \in Addresses |-> {}]
    /\ subs = [h \in Handlers |-> NoCall]
    /\ sockets = << >>
    /\ event = NoAddress /\ arriving = {}
    /\ heard = [h \in Handlers |-> 0]
    /\ quiet = FALSE /\ overtaken = FALSE
    /\ faults = 0

Waiting == {h \in Handlers : subs[h].stage = "waiting"}
Ready == {h \in Handlers : subs[h].stage = "ready"}

Subscribed(a) == handlers[a] # {}

\* A socket that was disconnected by the client keeps what it is given for ever.
Emitted(i, type, a) ==
    IF sockets[i].state = "closed" THEN sockets
    ELSE [sockets EXCEPT ![i].packets = Append(@, [type |-> type, address |-> a])]
-----------------------------------------------------------------------------
(* The client.                                                             *)

\* Mutant: connecting is not shared.
Promised_Nothing == None

\* The socket that a subscribe() before this one has asked for.
Promised == connecting

\* socketRef: the socket there is, the one being made, or a new one.
Subscribe(h, a) ==
    /\ subs[h].stage = "idle"
    /\ quiet' = FALSE
    /\ IF socket # None
       THEN /\ subs' = [subs EXCEPT ![h] = [stage |-> "ready", address |-> a, socket |-> socket]]
            /\ UNCHANGED << connecting, sockets >>
       ELSE IF Promised # None
       THEN /\ subs' = [subs EXCEPT ![h] =
                   [stage |-> IF sockets[Promised].state = "failed" THEN "rejected" ELSE "waiting",
                    address |-> a, socket |-> Promised]]
            /\ UNCHANGED << connecting, sockets >>
       ELSE /\ Len(sockets) < MaxSockets
            /\ connecting' = Len(sockets) + 1
            /\ sockets' = Append(sockets, [state |-> "loading", packets |-> << >>, rooms |-> {}])
            /\ subs' = [subs EXCEPT ![h] =
                   [stage |-> "waiting", address |-> a, socket |-> Len(sockets) + 1]]
    /\ UNCHANGED << socket, handlers, event, arriving, heard, overtaken, faults >>

Continue(i, stage) ==
    [h \in Handlers |-> IF subs[h].stage = "waiting" /\ subs[h].socket = i
                        THEN [subs[h] EXCEPT !.stage = stage] ELSE subs[h]]

\* The import resolves: the socket is made and becomes the client's, whatever the
\* client has done since.
Loaded(i) ==
    /\ sockets[i].state = "loading" /\ Ready = {}
    /\ sockets' = [sockets EXCEPT ![i].state = "down"]
    /\ socket' = i
    /\ subs' = Continue(i, "ready")
    /\ UNCHANGED << connecting, handlers, event, arriving, history, faults >>

\* The promise stays in connecting, rejected.
LoadFails(i) ==
    /\ sockets[i].state = "loading" /\ Ready = {}
    /\ Fault
    /\ sockets' = [sockets EXCEPT ![i].state = "failed"]
    /\ subs' = Continue(i, "rejected")
    /\ UNCHANGED << socket, connecting, handlers, event, arriving, history >>

\* subscribe() after its await: the first handler of an address asks for its room.
Resume(h) ==
    /\ subs[h].stage = "ready"
    /\ subs' = [subs EXCEPT ![h].stage = "subscribed"]
    /\ LET a == subs[h].address
       IN  /\ handlers' = [handlers EXCEPT ![a] = @ \cup {h}]
           /\ sockets' = IF Subscribed(a) THEN sockets ELSE Emitted(subs[h].socket, "subscribe", a)
    /\ UNCHANGED << socket, connecting, event, arriving, history, faults >>

\* The function subscribe() returned.  The last handler of an address leaves its room.
Unsubscribe(h) ==
    /\ subs[h].stage = "subscribed"
    /\ subs' = [subs EXCEPT ![h].stage = "left"]
    /\ LET a    == subs[h].address
           last == Subscribed(a) /\ handlers[a] \subseteq {h}
       IN  /\ handlers' = [handlers EXCEPT ![a] = @ \ {h}]
           /\ sockets' = IF last /\ socket # None THEN Emitted(socket, "unsubscribe", a) ELSE sockets
    /\ UNCHANGED << socket, connecting, event, arriving, history, faults >>

\* close(), when there is something to close.
Close ==
    /\ socket # None \/ connecting # None
    /\ handlers' = [a \in Addresses |-> {}]
    /\ sockets' = IF socket = None THEN sockets
                  ELSE [sockets EXCEPT ![socket] = [state |-> "closed", packets |-> << >>, rooms |-> {}]]
    /\ arriving' = arriving \ {socket}
    /\ socket' = None /\ connecting' = None
    /\ quiet' = TRUE
    /\ overtaken' = (overtaken \/ Waiting \cup Ready # {})
    /\ UNCHANGED << subs, event, heard, faults >>
-----------------------------------------------------------------------------
(* socket.io and the gateway.                                              *)

\* Mutant: rooms are taken to survive a reconnection.
Resubscriptions_None == << >>

\* Subscriptions of every address with a handler.
Resubscriptions ==
    SetToSeq({[type |-> "subscribe", address |-> a] : a \in {b \in Addresses : Subscribed(b)}})

\* What was held back goes out, and the connect handler asks for every room again.
Connect(i) ==
    /\ sockets[i].state = "down" /\ Ready = {}
    /\ sockets' = [sockets EXCEPT ![i].state = "up", ![i].packets = @ \o Resubscriptions]
    /\ UNCHANGED << clientVars, event, arriving, history, faults >>

\* The connection is lost with all that is on the wire; socket.io will reconnect.
Drop(i) ==
    /\ sockets[i].state = "up" /\ Ready = {}
    /\ Fault
    /\ sockets' = [sockets EXCEPT ![i] = [state |-> "down", packets |-> << >>, rooms |-> {}]]
    /\ arriving' = arriving \ {i}
    /\ UNCHANGED << clientVars, event, history >>

\* join and leave.
GatewayReceives(i) ==
    /\ sockets[i].state = "up" /\ sockets[i].packets # << >>
    /\ LET packet == Head(sockets[i].packets)
       IN  sockets' = [sockets EXCEPT
               ![i].packets = Tail(@),
               ![i].rooms = IF packet.type = "subscribe" THEN @ \cup {packet.address}
                            ELSE @ \ {packet.address}]
    /\ UNCHANGED << clientVars, event, arriving, history, faults >>

InRoom(a) == {i \in DOMAIN sockets : sockets[i].state = "up" /\ a \in sockets[i].rooms}

\* A message of the Redis channel goes to every connection in the room.
Publish(a) ==
    /\ event = NoAddress
    /\ event' = a
    /\ arriving' = InRoom(a)
    /\ UNCHANGED << clientVars, sockets, history, faults >>

\* Any socket of the client dispatches to the client's handlers.
Deliver(i) ==
    /\ i \in arriving /\ Ready = {}
    /\ arriving' = arriving \ {i}
    /\ heard' = [h \in Handlers |-> IF h \in handlers[event] THEN heard[h] + 1 ELSE heard[h]]
    /\ UNCHANGED << clientVars, sockets, event, quiet, overtaken, faults >>

-----------------------------------------------------------------------------
Network(i) == Loaded(i) \/ Connect(i) \/ GatewayReceives(i) \/ Deliver(i)

RealtimeNext ==
    \/ \E h \in Handlers, a \in Addresses : Subscribe(h, a)
    \/ \E h \in Handlers : Resume(h) \/ Unsubscribe(h)
    \/ \E i \in DOMAIN sockets : Network(i) \/ LoadFails(i) \/ Drop(i)
    \/ \E a \in Addresses : Publish(a)
    \/ Close

RealtimeSpec == RealtimeInit /\ [][RealtimeNext]_realtimeVars

\* Continuations run, sockets reconnect, and the gateway reads what it is sent.
RealtimeFairSpec ==
    /\ RealtimeSpec
    /\ \A h \in Handlers : WF_realtimeVars(Resume(h))
    /\ \A i \in 1..MaxSockets : WF_realtimeVars(i \in DOMAIN sockets /\ Network(i))
-----------------------------------------------------------------------------
(* Properties.                                                             *)

\* What refers to a socket refers to one the client has made.
RealtimeTypeOK ==
    LET id == 0..Len(sockets)
        packet == [type : {"subscribe", "unsubscribe"}, address : Addresses]
    IN  /\ socket \in id /\ connecting \in id
        /\ handlers \in [Addresses -> SUBSET Handlers]
        /\ subs \in [Handlers ->
              [stage : {"idle", "waiting", "ready", "subscribed", "left", "rejected"},
               address : Addresses \cup {NoAddress}, socket : id]]
        /\ \A i \in DOMAIN sockets :
              /\ sockets[i].state \in {"loading", "failed", "down", "up", "closed"}
              /\ sockets[i].rooms \subseteq Addresses
              /\ \A k \in DOMAIN sockets[i].packets : sockets[i].packets[k] \in packet
        /\ Len(sockets) <= MaxSockets
        /\ event \in Addresses \cup {NoAddress} /\ arriving \subseteq DOMAIN sockets
        /\ heard \in [Handlers -> Nat]
        /\ quiet \in BOOLEAN /\ overtaken \in BOOLEAN /\ faults \in 0..MaxFaults

\* realtime.ts:57: one socket, many subscriptions.  No handler hears an event twice and
\* no second socket is open, through every drop, reconnection, close and new
\* subscription, as long as close() never overtakes a subscribe().
OneSocketSpeaks ==
    overtaken \/ /\ \A h \in Handlers : heard[h] <= 1
                 /\ \A i \in DOMAIN sockets : sockets[i].state \in {"down", "up"} => socket = i

\* realtime.ts:59: a dropped connection never goes on looking healthy.  When things
\* have come to rest, the rooms of the client's connection are the addresses somebody
\* listens to: none that a reconnection forgot, none that the last handler left.
RoomsFollowHandlers ==
    <>[](overtaken \/ \A a \in Addresses :
            Subscribed(a) <=> socket # None /\ a \in sockets[socket].rooms)

\* realtime.ts:123: "Closes the socket and forgets every subscription."
CloseForgetsEverything ==
    quiet => /\ \A a \in Addresses : ~Subscribed(a)
             /\ \A i \in DOMAIN sockets : sockets[i].state \notin {"down", "up"}
=============================================================================
