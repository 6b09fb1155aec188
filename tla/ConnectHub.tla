------------------------------ MODULE ConnectHub -----------------------------
(***************************************************************************)
(* One room of the Connect server as it runs: a goroutine per websocket    *)
(* connection (server/internal/httpapi/server.go) that registers with the  *)
(* hub (server/internal/realtime/hub.go), handles the messages it reads    *)
(* one after the other, and unregisters.  The goroutines of one user share *)
(* the stored playback state, the table of registered clients and the      *)
(* clients' send channels.  Only the table is under a mutex: a handler     *)
(* reads the stored state, reduces it and saves it in separate store       *)
(* calls, and sends to channels after it let the mutex go.                 *)
(*                                                                         *)
(* pc[c] names the next step of the goroutine of connection c:             *)
(*   Register     arriving, (sending), snapshotRead, snapshotSend          *)
(*   Handle       serving, read, reduce, announce, apply, greeting         *)
(*   Unregister   unregister, offline, freezeRead, freezeSave, leaving     *)
(* and "sending" is the loop of a broadcast, which ends in                 *)
(* outgoing[c].then.  What a request makes of the state is PlaybackRoom's. *)
(*                                                                         *)
(* The presence table of the store and the texts of errors are left out:   *)
(* a presence update or an error is a message without content.             *)
(***************************************************************************)
EXTENDS PlaybackRoom

CONSTANTS
    MaxQueueLen,    \* bound of the serial room
    Connections,    \* websocket connections; each lives once
    DeviceOf,       \* the device a connection authenticated as
    NoClient,       \* no registered connection, no view, no message
    Capacity,       \* size of a send channel (32 in the code)
    MaxHandlers,    \* bound: goroutines that are in the hub at one time
    MaxRequests,    \* bound: messages the clients send in all
    LateRequests,   \* whether a replaced connection still delivers messages
    StoreMayFail    \* whether store calls may fail

ASSUME DeviceOfAssumption == DeviceOf \in [Connections -> Devices]
ASSUME NoClientAssumption == NoClient \notin Connections
ASSUME NoClientIsNoState == NoClient \notin SharedState
ASSUME HubBoundsAssumption ==
    /\ {Capacity, MaxHandlers, MaxRequests} \subseteq Nat
    /\ {LateRequests, StoreMayFail} \subseteq BOOLEAN

VARIABLES
    shared,     \* the stored state of the room
    registry,   \* h.clients[userKey]: the client registered for each device
    closed,     \* connections whose send channel is closed
    outbox,     \* content of the send channels
    lost,       \* connections a full channel dropped a message of
    pc,         \* where each connection's goroutine is
    request,    \* the message it handles
    current,    \* the state it read, then the state it saved
    outgoing,   \* the broadcast it is in: message, recipients left, next step
    view,       \* the shared state each client holds
    received    \* how many messages were received (bound)

vars == <<shared, registry, closed, outbox, lost, pc, request, current,
          outgoing, view, received>>

RegisteredDevices == {d \in Devices : registry[d] # NoClient}

\* A device whose disconnect is being processed counts as online until its
\* goroutine released it; so mapped, one handler at a time is the serial room.
Releasing == {"offline", "freezeRead", "freezeSave"}
OnlineDevices ==
    RegisteredDevices \cup {DeviceOf[c] : c \in {x \in Connections : pc[x] \in Releasing}}

Room == INSTANCE SharedPlayback
            WITH online <- OnlineDevices,
                 MaxSeq <- MaxRequests + Cardinality(Connections)

NoBase == -1
NoState == [seq |-> NoBase]
NoRequest == [type |-> "none"]
NoOutgoing == [message |-> [kind |-> "none"], to |-> {}, then |-> "none"]

HubCommands == Commands \cup [op: {"transferPlayback"}, target: Devices]
                        \cup [op: {"play"}]

SharedMessage(sh, reason) == [kind |-> "shared", shared |-> sh, reason |-> reason]
ApplyMessage(sh) == [kind |-> "apply", seq |-> sh.seq]
Presence == [kind |-> "presence"]
Error == [kind |-> "error"]

-----------------------------------------------------------------------------
Idle == {"absent", "serving", "gone"}
Busy(c) == pc[c] \notin Idle

MayEnter == Cardinality({c \in Connections : Busy(c)}) < MaxHandlers

Goto(c, label) == pc' = [pc EXCEPT ![c] = label]

\* Mutants: send waits for room, or the channel is not bounded.
PostBlocking(c, messages) ==
    /\ Len(outbox[c]) + Len(messages) <= Capacity
    /\ outbox' = [outbox EXCEPT ![c] = @ \o messages]
    /\ UNCHANGED lost

PostUnbounded(c, messages) ==
    /\ outbox' = [outbox EXCEPT ![c] = @ \o messages]
    /\ UNCHANGED lost

\* send: messages that find the channel full are dropped.
Post(c, messages) ==
    LET all == outbox[c] \o messages
    IN  /\ outbox' = [outbox EXCEPT
              ![c] = SubSeq(all, 1, IF Len(all) <= Capacity THEN Len(all) ELSE Capacity)]
        /\ lost' = IF Len(all) <= Capacity THEN lost ELSE lost \cup {c}

\* Mutant: a broadcast leaves out its sender.
BroadcastToOthers(c, message, then) ==
    /\ outgoing' = [outgoing EXCEPT ![c] =
            [message |-> message, then |-> then,
             to |-> {registry[d] : d \in RegisteredDevices} \ {c}]]
    /\ Goto(c, "sending")

\* The clients of the table, under the mutex; sending happens after it.
Broadcast(c, message, then) ==
    /\ outgoing' = [outgoing EXCEPT ![c] =
            [message |-> message, then |-> then,
             to |-> {registry[d] : d \in RegisteredDevices}]]
    /\ Goto(c, "sending")

Done(c) ==
    /\ request' = [request EXCEPT ![c] = NoRequest]
    /\ current' = [current EXCEPT ![c] = NoState]
    /\ Goto(c, "serving")

ReadShared(c) ==
    \E elapsed \in BOOLEAN :
        current' = [current EXCEPT ![c] = AsOfNow(shared, elapsed)]

-----------------------------------------------------------------------------
(* Register.                                                               *)

Install(c) ==
    /\ pc[c] = "absent"
    /\ MayEnter
    /\ registry' = [registry EXCEPT ![DeviceOf[c]] = c]
    /\ Goto(c, "arriving")
    /\ UNCHANGED <<shared, closed, outbox, lost, request, current, outgoing, view, received>>

SnapshotRead(c) ==
    /\ pc[c] = "snapshotRead"
    /\ ReadShared(c)
    /\ Goto(c, "snapshotSend")
    /\ UNCHANGED <<shared, registry, closed, outbox, lost, request, outgoing, view, received>>

SnapshotSend(c) ==
    /\ pc[c] = "snapshotSend"
    /\ Post(c, <<SharedMessage(current[c], "snapshot")>>)
    /\ Done(c)
    /\ UNCHANGED <<shared, registry, closed, outgoing, view, received>>

AfterPresence(label) ==
    CASE label = "arriving" -> "snapshotRead"
      [] label = "greeting" -> "serving"
      [] label = "leaving" -> "gone"

BroadcastPresence(c) ==
    /\ pc[c] \in {"arriving", "greeting", "leaving"}
    /\ Broadcast(c, Presence, AfterPresence(pc[c]))
    /\ UNCHANGED <<shared, registry, closed, outbox, lost, request, current, view, received>>

-----------------------------------------------------------------------------
(* The send loop.                                                          *)

Send(c, to) ==
    /\ pc[c] = "sending"
    /\ to \in outgoing[c].to
    /\ to \notin closed
    /\ Post(to, <<outgoing[c].message>>)
    /\ outgoing' = [outgoing EXCEPT ![c].to = @ \ {to}]
    /\ UNCHANGED <<shared, registry, closed, pc, request, current, view, received>>

\* The recipient unregistered meanwhile: sending on its closed channel panics.
\* net/http recovers, running the deferred Unregister, which Register precedes.
AfterPanic(then) ==
    CASE then \in {"serving", "apply"} -> "unregister"
      [] then \in {"snapshotRead", "leaving", "gone"} -> "gone"

SendToClosed(c, to) ==
    /\ pc[c] = "sending"
    /\ to \in outgoing[c].to
    /\ to \in closed
    /\ Goto(c, AfterPanic(outgoing[c].then))
    /\ outgoing' = [outgoing EXCEPT ![c] = NoOutgoing]
    /\ request' = [request EXCEPT ![c] = NoRequest]
    /\ current' = [current EXCEPT ![c] = NoState]
    /\ UNCHANGED <<shared, registry, closed, outbox, lost, view, received>>

Sent(c) ==
    /\ pc[c] = "sending"
    /\ outgoing[c].to = {}
    /\ outgoing' = [outgoing EXCEPT ![c] = NoOutgoing]
    /\ IF outgoing[c].then = "serving" THEN Done(c)
       ELSE Goto(c, outgoing[c].then) /\ UNCHANGED <<request, current>>
    /\ UNCHANGED <<shared, registry, closed, outbox, lost, view, received>>

-----------------------------------------------------------------------------
(* Handle.                                                                 *)

\* A command names the state its sender holds, as far as it was delivered.
Requests(c) ==
    {r \in [type: {"command"}, command: HubCommands, autoPlay: BOOLEAN,
            base: {IF view[c] = NoClient THEN NoBase ELSE view[c].seq}] :
        r.autoPlay => r.command.op = "setQueue"}
        \cup [type: {"report"}, report: Reports]
        \cup [type: {"hello"}]

Receive(c) ==
    /\ pc[c] = "serving"
    /\ MayEnter
    /\ received < MaxRequests
    /\ LateRequests \/ registry[DeviceOf[c]] = c
    /\ \E message \in Requests(c) :
          /\ request' = [request EXCEPT ![c] = message]
          /\ Goto(c, IF message.type = "hello" THEN "greeting" ELSE "read")
    /\ received' = received + 1
    /\ UNCHANGED <<shared, registry, closed, outbox, lost, current, outgoing, view>>

Read(c) ==
    /\ pc[c] = "read"
    /\ ReadShared(c)
    /\ Goto(c, "reduce")
    /\ UNCHANGED <<shared, registry, closed, outbox, lost, request, outgoing, view, received>>

Op(c) == IF request[c].type = "command" THEN request[c].command.op ELSE "report"

\* Mutant: only a base the room has not reached yet is refused.
StaleIfAhead(c) ==
    /\ request[c].type = "command"
    /\ request[c].base > current[c].seq

Stale(c) ==
    /\ request[c].type = "command"
    /\ request[c].base \notin {NoBase, current[c].seq}

\* Whether the state read admits the message; a transfer is also checked
\* against the table.
Accepted(c) ==
    LET r == request[c]
    IN  CASE Op(c) = "report" -> ReportAccepted(current[c], r.report, DeviceOf[c])
          [] Op(c) = "play" -> ~Stale(c)
          [] Op(c) = "transferPlayback" ->
                /\ ~Stale(c)
                /\ registry[r.command.target] # NoClient
                /\ TransferAccepted(current[c], r.command.target)
          [] OTHER -> ~Stale(c) /\ Accepts(current[c].state, r.command)

\* What the handler saves, from the state it read.
NextShared(c) ==
    LET r == request[c]
        d == DeviceOf[c]
    IN  CASE Op(c) = "report" -> AfterReport(current[c], r.report, d)
          [] Op(c) = "play" -> AfterControl(current[c], d)
          [] Op(c) = "transferPlayback" -> AfterTransfer(current[c], r.command.target)
          [] OTHER -> AfterCommand(current[c], r.command, d)

\* The device that plays is told to, after the update.
Applies(c) ==
    \/ Op(c) \in {"play", "playQueueIndex"}
    \/ Op(c) = "setQueue" /\ request[c].autoPlay

\* A report of a song the queue does not hold is dropped without an answer.
Ignored(c) ==
    /\ Op(c) = "report"
    /\ current[c].active \in {NoDevice, DeviceOf[c]}
    /\ ReportMatches(current[c].state, request[c].report) = {}

Reject(c) ==
    /\ pc[c] = "reduce"
    /\ ~Accepted(c)
    /\ Post(c, IF Ignored(c) THEN <<>>
               ELSE IF Stale(c) THEN <<Error, SharedMessage(current[c], "stale")>>
               ELSE <<Error>>)
    /\ Done(c)
    /\ UNCHANGED <<shared, registry, closed, outgoing, view, received>>

\* reduceTransferCommand has seen the target online and returns.
CheckTarget(c) ==
    /\ pc[c] = "reduce"
    /\ Op(c) = "transferPlayback"
    /\ Accepted(c)
    /\ Goto(c, "save")
    /\ UNCHANGED <<shared, registry, closed, outbox, lost, request, current,
                   outgoing, view, received>>

\* play and its like save only to claim the active device.
Saves(c) ==
    \/ pc[c] = "save"
    \/ /\ pc[c] = "reduce"
       /\ Op(c) # "transferPlayback"
       /\ Accepted(c)
       /\ Op(c) = "play" => current[c].active = NoDevice

\* Mutant: the active device is told to play before the update is announced.
SaveThenApply(c) ==
    /\ Saves(c)
    /\ shared' = NextShared(c)
    /\ current' = [current EXCEPT ![c] = shared']
    /\ Goto(c, IF Applies(c) THEN "apply" ELSE "announce")
    /\ UNCHANGED <<registry, closed, outbox, lost, request, outgoing, view, received>>

Save(c) ==
    /\ Saves(c)
    /\ shared' = NextShared(c)
    /\ current' = [current EXCEPT ![c] = shared']
    /\ Goto(c, "announce")
    /\ UNCHANGED <<registry, closed, outbox, lost, request, outgoing, view, received>>

PlayOnActive(c) ==
    /\ pc[c] = "reduce"
    /\ Op(c) = "play"
    /\ Accepted(c)
    /\ current[c].active # NoDevice
    /\ Goto(c, "apply")
    /\ UNCHANGED <<shared, registry, closed, outbox, lost, request, current,
                   outgoing, view, received>>

\* broadcast of the saved state, by a handler or by an unregistering one.
Announce(c) ==
    /\ pc[c] = "announce"
    /\ Broadcast(c, SharedMessage(current[c], "update"),
                 IF request[c] = NoRequest THEN "leaving"
                 ELSE IF Applies(c) THEN "apply" ELSE "serving")
    /\ UNCHANGED <<shared, registry, closed, outbox, lost, request, current, view, received>>

\* applyToActiveDevice: the client is looked up now and sent to later.
Apply(c) ==
    LET active == current[c].active
    IN  /\ pc[c] = "apply"
        /\ IF active # NoDevice /\ registry[active] # NoClient
           THEN /\ outgoing' = [outgoing EXCEPT ![c] =
                       [message |-> ApplyMessage(current[c]), to |-> {registry[active]},
                        then |-> "serving"]]
                /\ Goto(c, "sending")
                /\ UNCHANGED <<outbox, lost, request, current>>
           ELSE /\ Post(c, <<Error>>)
                /\ Done(c)
                /\ UNCHANGED outgoing
        /\ UNCHANGED <<shared, registry, closed, view, received>>

-----------------------------------------------------------------------------
(* Unregister, when the connection is gone.                                *)

Disconnect(c) ==
    /\ pc[c] = "serving"
    /\ MayEnter
    /\ Goto(c, "unregister")
    /\ UNCHANGED <<shared, registry, closed, outbox, lost, request, current,
                   outgoing, view, received>>

\* Mutant: the client of the device leaves the table whoever it is.
WithoutDevice(c) == [registry EXCEPT ![DeviceOf[c]] = NoClient]

WithoutClient(c) == [registry EXCEPT ![DeviceOf[c]] = IF @ = c THEN NoClient ELSE @]

\* Only the client that is still registered leaves the table and goes on; the
\* channel is closed either way, and nobody reads what is left in it.
Remove(c) ==
    /\ pc[c] = "unregister"
    /\ registry' = WithoutClient(c)
    /\ closed' = closed \cup {c}
    /\ outbox' = [outbox EXCEPT ![c] = <<>>]
    /\ view' = [view EXCEPT ![c] = NoClient]
    /\ Goto(c, IF registry[DeviceOf[c]] = c THEN "offline" ELSE "gone")
    /\ UNCHANGED <<shared, lost, request, current, outgoing, received>>

CheckOffline(c) ==
    /\ pc[c] = "offline"
    /\ Goto(c, IF registry[DeviceOf[c]] = NoClient THEN "freezeRead" ELSE "leaving")
    /\ UNCHANGED <<shared, registry, closed, outbox, lost, request, current,
                   outgoing, view, received>>

\* Mutant: any disconnect stops the room.
FreezeReadAny(c) ==
    /\ pc[c] = "freezeRead"
    /\ ReadShared(c)
    /\ Goto(c, "freezeSave")
    /\ UNCHANGED <<shared, registry, closed, outbox, lost, request, outgoing, view, received>>

FreezeRead(c) ==
    /\ pc[c] = "freezeRead"
    /\ IF shared.active = DeviceOf[c]
       THEN ReadShared(c) /\ Goto(c, "freezeSave")
       ELSE Goto(c, "leaving") /\ UNCHANGED current
    /\ UNCHANGED <<shared, registry, closed, outbox, lost, request, outgoing, view, received>>

FreezeSave(c) ==
    /\ pc[c] = "freezeSave"
    /\ shared' = AfterFreeze(current[c])
    /\ current' = [current EXCEPT ![c] = shared']
    /\ Goto(c, "announce")
    /\ UNCHANGED <<registry, closed, outbox, lost, request, outgoing, view, received>>

-----------------------------------------------------------------------------
\* A failing store call: the handler answers with an error, Register goes on
\* without a snapshot, Unregister without releasing the device, and a presence
\* update is left out.
StoreFails(c) ==
    /\ StoreMayFail
    /\ \/ /\ pc[c] \in {"arriving", "leaving"}
          /\ Goto(c, AfterPresence(pc[c]))
          /\ UNCHANGED <<outbox, lost, request, current>>
       \/ /\ pc[c] = "greeting"
          /\ Done(c)
          /\ UNCHANGED <<outbox, lost>>
       \/ /\ pc[c] = "read" \/ Saves(c)
          /\ Post(c, <<Error>>)
          /\ Done(c)
       \/ /\ pc[c] = "snapshotRead"
          /\ Done(c)
          /\ UNCHANGED <<outbox, lost>>
       \/ /\ pc[c] \in {"freezeRead", "freezeSave"}
          /\ Goto(c, "leaving")
          /\ current' = [current EXCEPT ![c] = NoState]
          /\ UNCHANGED <<outbox, lost, request>>
    /\ UNCHANGED <<shared, registry, closed, outgoing, view, received>>

\* The writer goroutine hands a message to the client, which drops a state
\* older than the one it holds (connect.rs, set_shared_playback).
Adopted(held, sh) == IF held # NoClient /\ sh.seq < held.seq THEN held ELSE sh

Deliver(c) ==
    /\ outbox[c] # <<>>
    /\ pc[c] # "gone"
    /\ outbox' = [outbox EXCEPT ![c] = Tail(@)]
    /\ view' = IF Head(outbox[c]).kind = "shared"
               THEN [view EXCEPT ![c] = Adopted(@, Head(outbox[c]).shared)]
               ELSE view
    /\ UNCHANGED <<shared, registry, closed, lost, pc, request, current, outgoing, received>>

-----------------------------------------------------------------------------
Init ==
    /\ shared = NoShared
    /\ registry = [d \in Devices |-> NoClient]
    /\ closed = {}
    /\ lost = {}
    /\ outbox = [c \in Connections |-> <<>>]
    /\ pc = [c \in Connections |-> "absent"]
    /\ request = [c \in Connections |-> NoRequest]
    /\ current = [c \in Connections |-> NoState]
    /\ outgoing = [c \in Connections |-> NoOutgoing]
    /\ view = [c \in Connections |-> NoClient]
    /\ received = 0

\* A step of a goroutine that is in the hub.
HandlerStep(c) ==
    \/ SnapshotRead(c) \/ SnapshotSend(c) \/ BroadcastPresence(c)
    \/ \E to \in Connections : Send(c, to) \/ SendToClosed(c, to)
    \/ Sent(c)
    \/ Read(c) \/ Reject(c) \/ CheckTarget(c) \/ Save(c) \/ PlayOnActive(c)
    \/ Announce(c) \/ Apply(c)
    \/ Remove(c) \/ CheckOffline(c) \/ FreezeRead(c) \/ FreezeSave(c)
    \/ StoreFails(c)

Next ==
    \E c \in Connections :
        Install(c) \/ Receive(c) \/ Disconnect(c) \/ Deliver(c) \/ HandlerStep(c)

\* The scheduler runs every goroutine that can run; nothing makes a client
\* read, write or disconnect.
Spec == Init /\ [][Next]_vars /\ \A c \in Connections : WF_vars(HandlerStep(c))

-----------------------------------------------------------------------------
Clients == Connections \cup {NoClient}

Message ==
    [kind: {"shared"}, shared: SharedState, reason: {"snapshot", "stale", "update"}]
        \cup [kind: {"apply"}, seq: Nat] \cup {Presence, Error}

Request ==
    [type: {"command"}, command: HubCommands, autoPlay: BOOLEAN, base: Nat \cup {NoBase}]
        \cup [type: {"report"}, report: Reports] \cup [type: {"hello"}] \cup {NoRequest}

\* Where a broadcast leads.
Returns == {"serving", "apply", "snapshotRead", "leaving", "gone"}

Outgoing ==
    [message: Message, to: SUBSET Connections, then: Returns] \cup {NoOutgoing}

Labels ==
    Idle \cup Releasing
         \cup {"arriving", "snapshotRead", "snapshotSend", "sending", "read", "reduce",
               "save", "announce", "apply", "greeting", "unregister", "leaving"}

TableTyped == registry \in [Devices -> Clients] /\ closed \subseteq Connections

ChannelsTyped ==
    /\ outbox \in [Connections -> Seq(Message)]
    /\ \A c \in Connections : Len(outbox[c]) <= Capacity
    /\ lost \subseteq Connections

HandlersTyped ==
    /\ pc \in [Connections -> Labels]
    /\ request \in [Connections -> Request]
    /\ current \in [Connections -> SharedState \cup {NoState}]
    /\ outgoing \in [Connections -> Outgoing]

ClientsTyped ==
    /\ view \in [Connections -> SharedState \cup {NoClient}]
    /\ received \in 0 .. MaxRequests

\* Type correctness: the stored state stays one that decoding leaves alone
\* however the handlers interleave, and no channel exceeds its capacity.
TypeOK ==
    /\ WellFormedShared(shared)
    /\ TableTyped /\ ChannelsTyped /\ HandlersTyped /\ ClientsTyped

\* What the table says can be relied on under the mutex: a registered client is
\* a connection of that device, and its channel is open.
RegistryOK ==
    \A d \in RegisteredDevices :
        /\ DeviceOf[registry[d]] = d
        /\ registry[d] \notin closed

\* A handler that is about to save or to send a state holds one, a transfer is
\* all that waits between its check and its save, and a broadcast has a message
\* and somewhere to go on.
HandlerOK(label, r, held, out) ==
    /\ \/ label \in {"snapshotSend", "reduce", "save", "announce", "apply", "freezeSave"}
       \/ label = "sending" /\ out.then = "apply"
       => WellFormedShared(held)
    /\ label \in {"read", "reduce"} => r.type \in {"command", "report"}
    /\ label = "save" => r.type = "command" /\ r.command.op = "transferPlayback"
    /\ label = "sending" => out # NoOutgoing

\* What the handlers rely on between their steps, the table included; a closed
\* connection never arrives again.
HubInv ==
    /\ TypeOK
    /\ RegistryOK
    /\ \A c \in Connections : HandlerOK(pc[c], request[c], current[c], outgoing[c])
    /\ \A c \in closed : pc[c] # "absent"

\* A client leaves the table through its own Unregister only; in particular a
\* late Unregister of the connection it replaced leaves it alone
\* (TestOldConnectionUnregisterDoesNotRemoveReplacement).
ReplacementStays ==
    [][\A d \in RegisteredDevices :
          registry'[d] = NoClient => pc[registry[d]] = "unregister"]_vars

\* No client can hold up the hub: every handler comes to its end although
\* clients may never read what it sends them (send drops, it does not wait).
HandlersFinish == \A c \in Connections : Busy(c) ~> ~Busy(c)

\* Taken one at a time, however many connections there are, the handlers are
\* the atomic steps of SharedPlayback.
RoomSpec == Room!Spec

\* "expected stale command to return error" (TestRoomIsolationAndStaleBaseSeq):
\* a command that names a base is saved over the state it is based on only.
CommandsMeetTheirBase ==
    [][\A c \in Connections :
          /\ Save(c)
          /\ request[c].type = "command"
          /\ request[c].base # NoBase
          => shared.seq = request[c].base]_vars

\* A playback report never rolls the queue back
\* (TestStalePlaybackReportDoesNotRollbackQueue).
ReportsKeepQueue ==
    [][\A c \in Connections :
          Save(c) /\ request[c].type = "report"
             => shared'.seq = shared.seq /\ shared'.state.queue = shared.state.queue]_vars

\* With no handler running, the active device is registered or at least served
\* by a replaced connection: the disconnect of the active device releases it
\* (TestActiveOfflineClearsActiveDeviceAndStopsPlayback).  TLC refutes it.
NobodyBusy == \A c \in Connections : ~Busy(c)
ServedDevices == {DeviceOf[c] : c \in {x \in Connections : pc[x] = "serving"}}
ActiveIsConnected ==
    NobodyBusy => shared.active \in RegisteredDevices \cup ServedDevices \cup {NoDevice}

\* A device that is shown as online has a connection somebody serves.  TLC
\* refutes it.
RegisteredIsServed == \A d \in RegisteredDevices : pc[registry[d]] # "gone"

\* Once nothing is running or under way, a registered client that lost no
\* message holds the stored state (up to the position, which moves on).
SamePlayback(a, b) ==
    [a EXCEPT !.state.position = AtStart] = [b EXCEPT !.state.position = AtStart]

ViewsInSync ==
    NobodyBusy => \A d \in RegisteredDevices :
        LET c == registry[d]
        IN  outbox[c] = <<>> /\ c \notin lost => SamePlayback(view[c], shared)

\* The first state a client gets is the snapshot, which it holds against its
\* local queue to find a conflict; and a device that is told to play holds the
\* state it is to play from.
DeliveredInOrder ==
    [][\A c \in Connections \ lost :
          LET message == Head(outbox[c]) IN
          Deliver(c) =>
            /\ message.kind = "shared" /\ view[c] = NoClient => message.reason = "snapshot"
            /\ message.kind = "apply" => view[c] # NoClient /\ view[c].seq >= message.seq]_vars
=============================================================================
