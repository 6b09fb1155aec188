--------------------------- MODULE ConnectHubProofs --------------------------
(***************************************************************************)
(* Theorems about the concurrent hub.  HubInv is inductive for any number  *)
(* of connections and goroutines and any channel capacity, with failing    *)
(* stores and messages of replaced connections: the stored state stays     *)
(* well formed and the table of clients reliable however handlers          *)
(* interleave.                                                             *)
(*                                                                         *)
(* What the runs show to fail when handlers interleave holds of a hub that *)
(* takes them one at a time (Serial), for any number of connections: it is *)
(* SharedPlayback, its clients end up with the room's state, they get it   *)
(* in order, and a command is saved over the state it names.  SerialInv    *)
(* and ViewInv are the invariants behind it.                               *)
(***************************************************************************)
EXTENDS ConnectHub, PlaybackRoomProofs

-----------------------------------------------------------------------------
(* The pieces a step can change.                                           *)

\* The handlers' obligations and the closed connections, in one place.
HandlersOK ==
    /\ \A c \in Connections : HandlerOK(pc[c], request[c], current[c], outgoing[c])
    /\ \A c \in closed : pc[c] # "absent"

\* A step of one goroutine leaves the others' obligations alone.
LEMMA OthersKept ==
    ASSUME HandlersTyped, HandlersOK, NEW c \in Connections,
           NEW label, NEW r, NEW held, NEW out,
           label \in Labels, r \in Request, held \in SharedState \cup {NoState},
           out \in Outgoing, HandlerOK(label, r, held, out), label # "absent",
           pc' = [pc EXCEPT ![c] = label],
           request' = [request EXCEPT ![c] = r],
           current' = [current EXCEPT ![c] = held],
           outgoing' = [outgoing EXCEPT ![c] = out],
           closed' \subseteq closed \cup {c}, closed' \subseteq Connections
    PROVE  HandlersTyped' /\ HandlersOK'
  <1>1. HandlersTyped'
    BY DEF HandlersTyped
  <1>2. ASSUME NEW x \in Connections
        PROVE  HandlerOK(pc'[x], request'[x], current'[x], outgoing'[x])
    <2>1. CASE x = c
      BY <2>1 DEF HandlersTyped
    <2>2. CASE x # c
      BY <2>2 DEF HandlersTyped, HandlersOK
    <2>3. QED
      BY <2>1, <2>2
  <1>3. ASSUME NEW x \in closed' PROVE pc'[x] # "absent"
    BY <1>3 DEF HandlersTyped, HandlersOK
  <1>4. QED
    BY <1>1, <1>2, <1>3 DEF HandlersOK

\* Posting keeps a channel within its capacity.
LEMMA PostTyped ==
    ASSUME ChannelsTyped, NEW c \in Connections, NEW messages \in Seq(Message),
           Post(c, messages)
    PROVE  ChannelsTyped'
  <1> DEFINE all == outbox[c] \o messages
             len == IF Len(all) <= Capacity THEN Len(all) ELSE Capacity
             kept == SubSeq(all, 1, len)
  <1>1. outbox[c] \in Seq(Message)
    BY DEF ChannelsTyped
  <1>2. all \in Seq(Message) /\ Len(all) \in Nat
    BY <1>1, ConcatProperties, LenProperties
  <1> HIDE DEF all
  <1>3. Capacity \in Nat
    BY HubBoundsAssumption
  <1>4. len \in 0 .. Len(all) /\ len <= Capacity
    BY <1>2, <1>3
  <1> HIDE DEF len
  <1>5. kept \in Seq(Message) /\ Len(kept) = len
    <2>1. \A i \in 1 .. len : all[i] \in Message
      BY <1>2, <1>4, ElementOfSeq
    <2>2. kept \in Seq(Message) /\ Len(kept) = IF 1 <= len THEN len - 1 + 1 ELSE 0
      BY <1>2, <1>4, <2>1, SubSeqProperties
    <2> HIDE DEF kept
    <2>3. QED
      BY <1>2, <1>4, <2>2
  <1>6. outbox' = [outbox EXCEPT ![c] = kept] /\ lost' \subseteq lost \cup {c}
    BY DEF Post, all, len, kept
  <1> HIDE DEF kept
  <1>7. QED
    BY <1>4, <1>5, <1>6 DEF ChannelsTyped

LEMMA MessageTypes ==
    /\ Presence \in Message /\ Error \in Message
    /\ \A sh \in SharedState :
          /\ \A reason \in {"snapshot", "stale", "update"} : SharedMessage(sh, reason) \in Message
          /\ ApplyMessage(sh) \in Message
  BY DEF Message, SharedMessage, ApplyMessage, Presence, Error, SharedState

\* A broadcast to the clients of the table has a message, recipients that are
\* connections, and somewhere to go on.
LEMMA BroadcastTyped ==
    ASSUME TableTyped, NEW message \in Message, NEW then \in Returns,
           NEW to, to \subseteq Connections
    PROVE  LET out == [message |-> message, then |-> then, to |-> to]
           IN  out \in Outgoing /\ out # NoOutgoing /\ out.then = then
  BY DEF Outgoing, NoOutgoing, Returns

LEMMA RegisteredAreConnections ==
    ASSUME TableTyped
    PROVE  {registry[d] : d \in RegisteredDevices} \subseteq Connections
  BY DEF TableTyped, RegisteredDevices, Clients

LEMMA InvParts ==
    HubInv <=> /\ WellFormedShared(shared) /\ TableTyped /\ ChannelsTyped
               /\ HandlersTyped /\ ClientsTyped /\ RegistryOK /\ HandlersOK
  BY DEF HubInv, TypeOK, HandlersOK

\* The table, the channels or the clients stay as they are.
LEMMA TableKept ==
    ASSUME TableTyped, RegistryOK, UNCHANGED <<registry, closed>>
    PROVE  TableTyped' /\ RegistryOK'
  BY DEF TableTyped, RegistryOK, RegisteredDevices

LEMMA ChannelsKept ==
    ASSUME ChannelsTyped, UNCHANGED <<outbox, lost>>
    PROVE  ChannelsTyped'
  BY DEF ChannelsTyped

LEMMA ClientsKept ==
    ASSUME ClientsTyped, UNCHANGED <<view, received>>
    PROVE  ClientsTyped'
  BY DEF ClientsTyped

\* The fields of a goroutine, and that not changing one is setting it to itself.
LEMMA HandlerFields ==
    ASSUME HandlersTyped, NEW c \in Connections
    PROVE  /\ pc[c] \in Labels /\ request[c] \in Request
           /\ current[c] \in SharedState \cup {NoState} /\ outgoing[c] \in Outgoing
           /\ request = [request EXCEPT ![c] = request[c]]
           /\ current = [current EXCEPT ![c] = current[c]]
           /\ outgoing = [outgoing EXCEPT ![c] = outgoing[c]]
  BY DEF HandlersTyped

\* Where a goroutine goes without taking anything new with it.
LEMMA GotoKept ==
    ASSUME HandlersTyped, HandlersOK, NEW c \in Connections,
           NEW label, label \in Labels, label # "absent",
           HandlerOK(label, request[c], current[c], outgoing[c]),
           Goto(c, label), UNCHANGED <<request, current, outgoing, closed>>,
           closed \subseteq Connections
    PROVE  HandlersTyped' /\ HandlersOK'
  <1> DEFINE r == request[c]
             held == current[c]
             out == outgoing[c]
  <1>1. /\ request' = [request EXCEPT ![c] = r]
        /\ current' = [current EXCEPT ![c] = held]
        /\ outgoing' = [outgoing EXCEPT ![c] = out]
        /\ pc' = [pc EXCEPT ![c] = label]
    BY HandlerFields DEF Goto
  <1>2. r \in Request /\ held \in SharedState \cup {NoState} /\ out \in Outgoing
    BY HandlerFields
  <1>3. closed' \subseteq closed \cup {c} /\ closed' \subseteq Connections
    OBVIOUS
  <1>4. HandlerOK(label, r, held, out)
    OBVIOUS
  <1> HIDE DEF r, held, out
  <1>5. QED
    BY <1>1, <1>2, <1>3, <1>4, OthersKept

\* A handler that is done serves again, without a message or a state.
LEMMA DoneKept ==
    ASSUME HandlersTyped, HandlersOK, NEW c \in Connections,
           Done(c), closed' = closed, closed \subseteq Connections,
           NEW out, out \in Outgoing, outgoing' = [outgoing EXCEPT ![c] = out]
    PROVE  HandlersTyped' /\ HandlersOK'
  <1>1. NoRequest \in Request /\ NoState \in SharedState \cup {NoState}
    BY DEF Request
  <1>2. "serving" \in Labels
    BY DEF Labels, Idle
  <1>3. HandlerOK("serving", NoRequest, NoState, out)
    BY DEF HandlerOK
  <1>4. /\ pc' = [pc EXCEPT ![c] = "serving"]
        /\ request' = [request EXCEPT ![c] = NoRequest]
        /\ current' = [current EXCEPT ![c] = NoState]
    BY DEF Done, Goto
  <1>5. closed' \subseteq closed \cup {c} /\ closed' \subseteq Connections
    OBVIOUS
  <1>6. QED
    BY <1>1, <1>2, <1>3, <1>4, <1>5, OthersKept

\* A handler that starts a broadcast keeps its message and its state.
LEMMA SendingKept ==
    ASSUME HandlersTyped, HandlersOK, TableTyped, NEW c \in Connections,
           NEW out, out \in Outgoing, out # NoOutgoing,
           out.then = "apply" => WellFormedShared(current[c]),
           Goto(c, "sending"), outgoing' = [outgoing EXCEPT ![c] = out],
           UNCHANGED <<request, current, closed>>
    PROVE  HandlersTyped' /\ HandlersOK'
  <1>1. /\ request' = [request EXCEPT ![c] = request[c]]
        /\ current' = [current EXCEPT ![c] = current[c]]
        /\ pc' = [pc EXCEPT ![c] = "sending"]
    BY HandlerFields DEF Goto
  <1>2. request[c] \in Request /\ current[c] \in SharedState \cup {NoState}
    BY HandlerFields
  <1>3. "sending" \in Labels
    BY DEF Labels
  <1>4. HandlerOK("sending", request[c], current[c], out)
    BY DEF HandlerOK
  <1>5. closed' \subseteq closed \cup {c} /\ closed' \subseteq Connections
    BY DEF TableTyped
  <1>6. QED
    BY <1>1, <1>2, <1>3, <1>4, <1>5, OthersKept

\* A handler that read or saved the stored state goes on with that state.
LEMMA HoldingKept ==
    ASSUME HandlersTyped, HandlersOK, TableTyped, NEW c \in Connections,
           NEW label \in {"snapshotSend", "reduce", "announce", "freezeSave"},
           label = "reduce" => request[c].type \in {"command", "report"},
           NEW held, WellFormedShared(held),
           Goto(c, label), current' = [current EXCEPT ![c] = held],
           UNCHANGED <<request, outgoing, closed>>
    PROVE  HandlersTyped' /\ HandlersOK'
  <1>1. /\ request' = [request EXCEPT ![c] = request[c]]
        /\ outgoing' = [outgoing EXCEPT ![c] = outgoing[c]]
        /\ pc' = [pc EXCEPT ![c] = label]
    BY HandlerFields DEF Goto
  <1>2. /\ request[c] \in Request /\ outgoing[c] \in Outgoing
        /\ held \in SharedState \cup {NoState}
    BY HandlerFields DEF WellFormedShared
  <1>3. label \in Labels /\ label # "absent"
    BY DEF Labels, Releasing
  <1>4. HandlerOK(label, request[c], held, outgoing[c])
    BY DEF HandlerOK
  <1>5. closed' \subseteq closed \cup {c} /\ closed' \subseteq Connections
    BY DEF TableTyped
  <1>6. QED
    BY <1>1, <1>2, <1>3, <1>4, <1>5, OthersKept

-----------------------------------------------------------------------------
(* The steps.                                                              *)

LEMMA InstallKeeps ==
    ASSUME HubInv, NEW c \in Connections, Install(c)
    PROVE  HubInv'
  <1>1. /\ WellFormedShared(shared) /\ TableTyped /\ ChannelsTyped
        /\ HandlersTyped /\ ClientsTyped /\ RegistryOK /\ HandlersOK
    BY InvParts
  <1>2. HandlersTyped' /\ HandlersOK'
    <2>1. "arriving" \in Labels /\ HandlerOK("arriving", request[c], current[c], outgoing[c])
      BY DEF Labels, HandlerOK
    <2>2. Goto(c, "arriving") /\ UNCHANGED <<request, current, outgoing, closed>>
      BY DEF Install
    <2>3. QED
      BY <1>1, <2>1, <2>2, GotoKept DEF TableTyped
  <1>3. TableTyped'
    BY <1>1 DEF Install, TableTyped, Clients
  <1>4. RegistryOK'
    <2>1. c \notin closed
      BY <1>1 DEF Install, HandlersOK
    <2>2. registry' = [registry EXCEPT ![DeviceOf[c]] = c] /\ closed' = closed
      BY DEF Install
    <2>3. QED
      BY <1>1, <2>1, <2>2 DEF RegistryOK, RegisteredDevices, TableTyped
  <1>5. WellFormedShared(shared)' /\ ChannelsTyped' /\ ClientsTyped'
    BY <1>1, ChannelsKept, ClientsKept DEF Install
  <1>6. QED
    BY <1>2, <1>3, <1>4, <1>5 DEF HubInv, TypeOK, HandlersOK

\* Reading the stored state, for the snapshot, a message or a release.
LEMMA ReadKeeps ==
    ASSUME HubInv, NEW c \in Connections,
           NEW label \in {"snapshotSend", "reduce", "freezeSave"},
           label = "reduce" => pc[c] = "read",
           ReadShared(c), Goto(c, label),
           UNCHANGED <<shared, registry, closed, outbox, lost, request, outgoing,
                       view, received>>
    PROVE  HubInv'
  <1>1. /\ WellFormedShared(shared) /\ TableTyped /\ ChannelsTyped
        /\ HandlersTyped /\ ClientsTyped /\ RegistryOK /\ HandlersOK
    BY InvParts
  <1>2. PICK elapsed \in BOOLEAN :
            current' = [current EXCEPT ![c] = AsOfNow(shared, elapsed)]
    BY DEF ReadShared
  <1> DEFINE held == AsOfNow(shared, elapsed)
  <1>3. WellFormedShared(held)
    BY <1>1, AsOfNowSound
  <1> HIDE DEF held
  <1>4. label = "reduce" => request[c].type \in {"command", "report"}
    BY <1>1 DEF HandlersOK, HandlerOK
  <1>5. current' = [current EXCEPT ![c] = held]
    BY <1>2 DEF held
  <1>6. HandlersTyped' /\ HandlersOK'
    BY <1>1, <1>3, <1>4, <1>5, HoldingKept
  <1>7. WellFormedShared(shared)' /\ TableTyped' /\ RegistryOK' /\ ChannelsTyped' /\ ClientsTyped'
    BY <1>1, TableKept, ChannelsKept, ClientsKept
  <1>8. QED
    BY <1>6, <1>7 DEF HubInv, TypeOK, HandlersOK

\* Answering, or giving up, and serving again.
LEMMA AnswerKeeps ==
    ASSUME HubInv, NEW c \in Connections, NEW messages \in Seq(Message),
           Post(c, messages), Done(c),
           UNCHANGED <<shared, registry, closed, outgoing, view, received>>
    PROVE  HubInv'
  <1>1. /\ WellFormedShared(shared) /\ TableTyped /\ ChannelsTyped
        /\ HandlersTyped /\ ClientsTyped /\ RegistryOK /\ HandlersOK
    BY InvParts
  <1>2. HandlersTyped' /\ HandlersOK'
    <2> DEFINE out == outgoing[c]
    <2>1. out \in Outgoing /\ outgoing' = [outgoing EXCEPT ![c] = out]
      BY <1>1, HandlerFields
    <2> HIDE DEF out
    <2>2. QED
      BY <1>1, <2>1, DoneKept DEF TableTyped
  <1>3. ChannelsTyped'
    BY <1>1, PostTyped
  <1>4. WellFormedShared(shared)' /\ TableTyped' /\ RegistryOK' /\ ClientsTyped'
    BY <1>1, TableKept, ClientsKept
  <1>5. QED
    BY <1>2, <1>3, <1>4 DEF HubInv, TypeOK, HandlersOK

\* Going on to another step of the handler, or in or out of it.
LEMMA GotoKeeps ==
    ASSUME HubInv, NEW c \in Connections, NEW label, label \in Labels, label # "absent",
           HandlerOK(label, request[c], current[c], outgoing[c]), Goto(c, label),
           UNCHANGED <<shared, registry, closed, outbox, lost, request, current,
                       outgoing, view, received>>
    PROVE  HubInv'
  <1>1. /\ WellFormedShared(shared) /\ TableTyped /\ ChannelsTyped
        /\ HandlersTyped /\ ClientsTyped /\ RegistryOK /\ HandlersOK
    BY InvParts
  <1>2. HandlersTyped' /\ HandlersOK'
    BY <1>1, GotoKept DEF TableTyped
  <1>3. WellFormedShared(shared)' /\ TableTyped' /\ RegistryOK' /\ ChannelsTyped' /\ ClientsTyped'
    BY <1>1, TableKept, ChannelsKept, ClientsKept
  <1>4. QED
    BY <1>2, <1>3 DEF HubInv, TypeOK, HandlersOK

\* Starting to send a message to clients of the table.
LEMMA BroadcastKeeps ==
    ASSUME HubInv, NEW c \in Connections, NEW out \in Outgoing, out # NoOutgoing,
           out.then = "apply" => WellFormedShared(current[c]),
           Goto(c, "sending"), outgoing' = [outgoing EXCEPT ![c] = out],
           UNCHANGED <<shared, registry, closed, outbox, lost, request, current,
                       view, received>>
    PROVE  HubInv'
  <1>1. /\ WellFormedShared(shared) /\ TableTyped /\ ChannelsTyped
        /\ HandlersTyped /\ ClientsTyped /\ RegistryOK /\ HandlersOK
    BY InvParts
  <1>2. HandlersTyped' /\ HandlersOK'
    BY <1>1, SendingKept
  <1>3. WellFormedShared(shared)' /\ TableTyped' /\ RegistryOK' /\ ChannelsTyped' /\ ClientsTyped'
    BY <1>1, TableKept, ChannelsKept, ClientsKept
  <1>4. QED
    BY <1>2, <1>3 DEF HubInv, TypeOK, HandlersOK

LEMMA SnapshotSendKeeps ==
    ASSUME HubInv, NEW c \in Connections, SnapshotSend(c)
    PROVE  HubInv'
  <1> DEFINE messages == <<SharedMessage(current[c], "snapshot")>>
  <1>1. current[c] \in SharedState
    BY DEF HubInv, HandlerOK, SnapshotSend, WellFormedShared
  <1>2. SharedMessage(current[c], "snapshot") \in Message
    BY <1>1, MessageTypes
  <1>3. messages \in Seq(Message)
    BY <1>2
  <1>4. Post(c, messages)
    BY DEF SnapshotSend
  <1> HIDE DEF messages
  <1>5. QED
    BY <1>3, <1>4, AnswerKeeps DEF SnapshotSend

LEMMA BroadcastPresenceKeeps ==
    ASSUME HubInv, NEW c \in Connections, BroadcastPresence(c)
    PROVE  HubInv'
  <1> DEFINE then == AfterPresence(pc[c])
             to == {registry[d] : d \in RegisteredDevices}
             out == [message |-> Presence, then |-> then, to |-> to]
  <1>1. TableTyped
    BY InvParts
  <1>2. then \in Returns /\ then # "apply"
    BY DEF BroadcastPresence, AfterPresence, Returns
  <1>3. to \subseteq Connections
    BY <1>1, RegisteredAreConnections
  <1>4. /\ outgoing' = [outgoing EXCEPT ![c] = out] /\ Goto(c, "sending")
        /\ UNCHANGED <<shared, registry, closed, outbox, lost, request, current,
                       view, received>>
    BY DEF BroadcastPresence, Broadcast
  <1> HIDE DEF then, to
  <1>5. out \in Outgoing /\ out # NoOutgoing /\ out.then = then
    BY <1>1, <1>2, <1>3, MessageTypes, BroadcastTyped
  <1> HIDE DEF out
  <1>6. QED
    BY <1>2, <1>4, <1>5, BroadcastKeeps

LEMMA SendKeeps ==
    ASSUME HubInv, NEW c \in Connections, NEW to \in Connections, Send(c, to)
    PROVE  HubInv'
  <1> DEFINE old == outgoing[c]
             out == [old EXCEPT !.to = @ \ {to}]
             messages == <<old.message>>
  <1>1. /\ WellFormedShared(shared) /\ TableTyped /\ ChannelsTyped
        /\ HandlersTyped /\ ClientsTyped /\ RegistryOK /\ HandlersOK
    BY InvParts
  <1>2. /\ old \in [message: Message, to: SUBSET Connections, then: Returns]
        /\ old.then = "apply" => WellFormedShared(current[c])
    BY <1>1 DEF HandlersTyped, HandlersOK, HandlerOK, Outgoing, Send
  <1>3. out \in [message: Message, to: SUBSET Connections, then: Returns]
    BY <1>2
  <1>4. out \in Outgoing /\ out # NoOutgoing /\ out.then = old.then
    BY <1>2, <1>3 DEF Outgoing, NoOutgoing, Returns
  <1>5. /\ outgoing' = [outgoing EXCEPT ![c] = out]
        /\ Post(to, messages) /\ pc' = pc
        /\ UNCHANGED <<shared, registry, closed, request, current, view, received>>
    BY <1>1 DEF Send, HandlersTyped
  <1>6. messages \in Seq(Message)
    BY <1>2
  <1>7. Goto(c, "sending")
    BY <1>1 DEF Send, Goto, HandlersTyped
  <1> HIDE DEF out, messages
  <1>8. HandlersTyped' /\ HandlersOK'
    BY <1>1, <1>2, <1>4, <1>5, <1>7, SendingKept
  <1>9. ChannelsTyped'
    BY <1>1, <1>5, <1>6, PostTyped
  <1>10. WellFormedShared(shared)' /\ TableTyped' /\ RegistryOK' /\ ClientsTyped'
    BY <1>1, <1>5, TableKept, ClientsKept
  <1>11. QED
    BY <1>8, <1>9, <1>10 DEF HubInv, TypeOK, HandlersOK

\* Dropping what the goroutine was doing, at a panic.
LEMMA SendToClosedKeeps ==
    ASSUME HubInv, NEW c \in Connections, NEW to \in Connections, SendToClosed(c, to)
    PROVE  HubInv'
  <1> DEFINE label == AfterPanic(outgoing[c].then)
  <1>1. /\ WellFormedShared(shared) /\ TableTyped /\ ChannelsTyped
        /\ HandlersTyped /\ ClientsTyped /\ RegistryOK /\ HandlersOK
    BY InvParts
  <1>2. outgoing[c].then \in Returns
    BY <1>1 DEF HandlersTyped, HandlersOK, HandlerOK, Outgoing, SendToClosed
  <1>3. label \in {"unregister", "gone"}
    BY <1>2 DEF AfterPanic, Returns
  <1>4. /\ pc' = [pc EXCEPT ![c] = label]
        /\ outgoing' = [outgoing EXCEPT ![c] = NoOutgoing]
        /\ request' = [request EXCEPT ![c] = NoRequest]
        /\ current' = [current EXCEPT ![c] = NoState]
        /\ UNCHANGED <<shared, registry, closed, outbox, lost, view, received>>
    BY DEF SendToClosed, Goto
  <1> HIDE DEF label
  <1>5. label \in Labels /\ label # "absent"
    BY <1>3 DEF Labels, Idle
  <1>6. HandlerOK(label, NoRequest, NoState, NoOutgoing)
    BY <1>3 DEF HandlerOK
  <1>7. /\ NoRequest \in Request /\ NoState \in SharedState \cup {NoState}
        /\ NoOutgoing \in Outgoing
    BY DEF Request, Outgoing
  <1>8. closed' \subseteq closed \cup {c} /\ closed' \subseteq Connections
    BY <1>1, <1>4 DEF TableTyped
  <1>9. HandlersTyped' /\ HandlersOK'
    BY <1>1, <1>4, <1>5, <1>6, <1>7, <1>8, OthersKept
  <1>10. WellFormedShared(shared)' /\ TableTyped' /\ RegistryOK' /\ ChannelsTyped' /\ ClientsTyped'
    BY <1>1, <1>4, TableKept, ChannelsKept, ClientsKept
  <1>11. QED
    BY <1>9, <1>10 DEF HubInv, TypeOK, HandlersOK

LEMMA SentKeeps ==
    ASSUME HubInv, NEW c \in Connections, Sent(c)
    PROVE  HubInv'
  <1> DEFINE then == outgoing[c].then
  <1>1. /\ WellFormedShared(shared) /\ TableTyped /\ ChannelsTyped
        /\ HandlersTyped /\ ClientsTyped /\ RegistryOK /\ HandlersOK
    BY InvParts
  <1>2. then \in Returns /\ (then = "apply" => WellFormedShared(current[c]))
    BY <1>1 DEF HandlersTyped, HandlersOK, HandlerOK, Outgoing, Sent
  <1>3. NoOutgoing \in Outgoing /\ closed' = closed /\ closed \subseteq Connections
        /\ outgoing' = [outgoing EXCEPT ![c] = NoOutgoing]
    BY <1>1 DEF Outgoing, Sent, TableTyped
  <1>4. HandlersTyped' /\ HandlersOK'
    <2>1. CASE then = "serving"
      <3>1. Done(c)
        BY <2>1 DEF Sent
      <3>2. QED
        BY <1>1, <1>3, <3>1, DoneKept
    <2>2. CASE then # "serving"
      <3> DEFINE r == request[c]
                 held == current[c]
      <3>1. /\ pc' = [pc EXCEPT ![c] = then]
            /\ request' = [request EXCEPT ![c] = r]
            /\ current' = [current EXCEPT ![c] = held]
        BY <1>1, <2>2, HandlerFields DEF Sent, Goto
      <3>2. r \in Request /\ held \in SharedState \cup {NoState}
        BY <1>1, HandlerFields
      <3>3. HandlerOK(then, r, held, NoOutgoing)
        BY <1>2, <2>2 DEF HandlerOK, Returns
      <3> HIDE DEF r, held, then
      <3>4. then \in Labels /\ then # "absent"
        BY <1>2 DEF Returns, Labels, Idle
      <3>5. closed' \subseteq closed \cup {c} /\ closed' \subseteq Connections
        BY <1>3
      <3>6. QED
        BY <1>1, <1>3, <3>1, <3>2, <3>3, <3>4, <3>5, OthersKept
    <2>3. QED
      BY <2>1, <2>2
  <1>5. WellFormedShared(shared)' /\ TableTyped' /\ RegistryOK' /\ ChannelsTyped' /\ ClientsTyped'
    BY <1>1, TableKept, ChannelsKept, ClientsKept DEF Sent
  <1>6. QED
    BY <1>4, <1>5 DEF HubInv, TypeOK, HandlersOK

LEMMA ReceiveKeeps ==
    ASSUME HubInv, NEW c \in Connections, Receive(c)
    PROVE  HubInv'
  <1>1. /\ WellFormedShared(shared) /\ TableTyped /\ ChannelsTyped
        /\ HandlersTyped /\ ClientsTyped /\ RegistryOK /\ HandlersOK
    BY InvParts
  <1>2. PICK message \in Requests(c) :
            /\ request' = [request EXCEPT ![c] = message]
            /\ Goto(c, IF message.type = "hello" THEN "greeting" ELSE "read")
    BY DEF Receive
  <1> DEFINE label == IF message.type = "hello" THEN "greeting" ELSE "read"
             held == current[c]
             out == outgoing[c]
             base == IF view[c] = NoClient THEN NoBase ELSE view[c].seq
  <1>3. base \in Nat \cup {NoBase}
    BY <1>1, SharedFields DEF ClientsTyped
  <1>4. /\ message \in Request
        /\ message.type # "hello" => message.type \in {"command", "report"}
    <2> HIDE DEF label, held, out
    <2>1. message \in [type: {"command"}, command: HubCommands, autoPlay: BOOLEAN,
                       base: {base}]
             \cup [type: {"report"}, report: Reports] \cup [type: {"hello"}]
      BY DEF Requests
    <2> HIDE DEF base
    <2>2. QED
      BY <1>3, <2>1 DEF Request
  <1>5. /\ pc' = [pc EXCEPT ![c] = label]
        /\ request' = [request EXCEPT ![c] = message]
        /\ current' = [current EXCEPT ![c] = held]
        /\ outgoing' = [outgoing EXCEPT ![c] = out]
    BY <1>1, <1>2, HandlerFields DEF Goto, Receive
  <1>6. HandlerOK(label, message, held, out)
    BY <1>4 DEF HandlerOK
  <1>7. held \in SharedState \cup {NoState} /\ out \in Outgoing
    BY <1>1, HandlerFields
  <1>8. label \in Labels /\ label # "absent"
    BY DEF Labels
  <1>9. closed' \subseteq closed \cup {c} /\ closed' \subseteq Connections
    BY <1>1 DEF Receive, TableTyped
  <1> HIDE DEF label, held, out
  <1>10. HandlersTyped' /\ HandlersOK'
    BY <1>1, <1>4, <1>5, <1>6, <1>7, <1>8, <1>9, OthersKept
  <1>11. ClientsTyped'
    BY <1>1, HubBoundsAssumption DEF Receive, ClientsTyped
  <1>12. WellFormedShared(shared)' /\ TableTyped' /\ RegistryOK' /\ ChannelsTyped'
    BY <1>1, TableKept, ChannelsKept DEF Receive
  <1>13. QED
    BY <1>10, <1>11, <1>12 DEF HubInv, TypeOK, HandlersOK

LEMMA RejectKeeps ==
    ASSUME HubInv, NEW c \in Connections, Reject(c)
    PROVE  HubInv'
  <1> DEFINE messages == IF Ignored(c) THEN <<>>
                         ELSE IF Stale(c) THEN <<Error, SharedMessage(current[c], "stale")>>
                         ELSE <<Error>>
  <1>1. current[c] \in SharedState
    BY DEF HubInv, HandlerOK, Reject, WellFormedShared
  <1>2. SharedMessage(current[c], "stale") \in Message /\ Error \in Message
    BY <1>1, MessageTypes
  <1>3. messages \in Seq(Message)
    BY <1>2
  <1>4. Post(c, messages)
    BY DEF Reject
  <1> HIDE DEF messages
  <1>5. QED
    BY <1>3, <1>4, AnswerKeeps DEF Reject

LEMMA CheckTargetKeeps ==
    ASSUME HubInv, NEW c \in Connections, CheckTarget(c)
    PROVE  HubInv'
  <1>1. WellFormedShared(current[c])
    BY DEF HubInv, HandlerOK, CheckTarget
  <1>2. request[c].type = "command" /\ request[c].command.op = "transferPlayback"
    BY DEF CheckTarget, Op
  <1>3. HandlerOK("save", request[c], current[c], outgoing[c]) /\ "save" \in Labels
    BY <1>1, <1>2 DEF HandlerOK, Labels
  <1>4. QED
    BY <1>3, GotoKeeps DEF CheckTarget

LEMMA PlayOnActiveKeeps ==
    ASSUME HubInv, NEW c \in Connections, PlayOnActive(c)
    PROVE  HubInv'
  <1>1. WellFormedShared(current[c])
    BY DEF HubInv, HandlerOK, PlayOnActive
  <1>2. HandlerOK("apply", request[c], current[c], outgoing[c]) /\ "apply" \in Labels
    BY <1>1 DEF HandlerOK, Labels
  <1>3. QED
    BY <1>2, GotoKeeps DEF PlayOnActive

\* Whatever request a handler saves the effect of, it saves a well formed state:
\* of the state it read, which need not be the stored one any more.
LEMMA NextSharedSound ==
    ASSUME HubInv, NEW c \in Connections, Saves(c)
    PROVE  SoundChange(current[c], NextShared(c))
  <1> DEFINE r == request[c]
             held == current[c]
             d == DeviceOf[c]
  <1>1. HandlerOK(pc[c], r, held, outgoing[c]) /\ r \in Request
    BY InvParts, HandlerFields DEF HandlersOK
  <1>2. WellFormedShared(held) /\ r.type \in {"command", "report"} /\ d \in Devices
    BY <1>1, DeviceOfAssumption DEF HandlerOK, Saves
  <1>3. r.type = "command" => r.command \in HubCommands
    BY <1>1 DEF Request, NoRequest
  <1>4. \A cmd \in Command : cmd.op \notin {"transferPlayback", "play", "report"}
    BY DEF Command
  <1>5. CASE Op(c) = "report"
    <2>1. r.type = "report"
      BY <1>2, <1>3, <1>4, <1>5, CommandsAssumption DEF Op, HubCommands
    <2>2. r.report \in Report
      BY <1>1, <2>1, ReportsAssumption DEF Request, NoRequest
    <2>3. ReportAccepted(held, r.report, d)
      BY <1>1, <1>2, <1>5, <2>1 DEF Saves, Accepted, HandlerOK
    <2>4. NextShared(c) = AfterReport(held, r.report, d)
      BY <1>5 DEF NextShared
    <2>5. QED
      BY <1>2, <2>2, <2>3, <2>4, ReportSound
  <1>6. CASE Op(c) = "play"
    <2>1. NextShared(c) = AfterControl(held, d)
      BY <1>6 DEF NextShared
    <2>2. QED
      BY <1>2, <2>1, ClaimSound
  <1>7. CASE Op(c) = "transferPlayback"
    <2>1. r.type = "command" /\ r.command.op = "transferPlayback"
      BY <1>7 DEF Op
    <2>2. r.command.target \in Devices
      BY <1>3, <1>4, <2>1, CommandsAssumption DEF HubCommands
    <2>3. NextShared(c) = AfterTransfer(held, r.command.target)
      BY <1>7 DEF NextShared
    <2>4. QED
      BY <1>2, <2>2, <2>3, ClaimSound
  <1>8. CASE Op(c) \notin {"report", "play", "transferPlayback"}
    <2>1. r.type = "command" /\ r.command.op \notin {"play", "transferPlayback"}
      BY <1>2, <1>8 DEF Op
    <2>2. r.command \in Command
      BY <1>3, <2>1, CommandsAssumption DEF HubCommands
    <2>3. Accepts(held.state, r.command)
      <3>1. Accepted(c)
        BY <1>1, <2>1 DEF Saves, HandlerOK
      <3>2. QED
        BY <1>8, <3>1 DEF Accepted
    <2>4. NextShared(c) = AfterCommand(held, r.command, d)
      BY <1>8 DEF NextShared
    <2>5. QED
      BY <1>2, <2>2, <2>3, <2>4, CommandSound
  <1>9. QED
    BY <1>5, <1>6, <1>7, <1>8

\* Saving a well formed state, which the handler then announces.
LEMMA StoreKeeps ==
    ASSUME HubInv, NEW c \in Connections, WellFormedShared(shared'),
           current' = [current EXCEPT ![c] = shared'], Goto(c, "announce"),
           UNCHANGED <<registry, closed, outbox, lost, request, outgoing, view, received>>
    PROVE  HubInv'
  <1>1. /\ WellFormedShared(shared) /\ TableTyped /\ ChannelsTyped
        /\ HandlersTyped /\ ClientsTyped /\ RegistryOK /\ HandlersOK
    BY InvParts
  <1>2. HandlersTyped' /\ HandlersOK'
    <2>1. /\ request' = [request EXCEPT ![c] = request[c]]
          /\ outgoing' = [outgoing EXCEPT ![c] = outgoing[c]]
          /\ pc' = [pc EXCEPT ![c] = "announce"]
      BY <1>1, HandlerFields DEF Goto
    <2>2. "announce" \in Labels
      BY DEF Labels
    <2>3. HandlersTyped'
      BY <1>1, <2>1, <2>2 DEF HandlersTyped, WellFormedShared
    <2>4. ASSUME NEW x \in Connections
          PROVE  HandlerOK(pc'[x], request'[x], current'[x], outgoing'[x])
      <3>1. CASE x = c
        <4>1. pc'[x] = "announce" /\ current'[x] = shared'
          BY <1>1, <2>1, <3>1 DEF HandlersTyped
        <4>2. QED
          BY <4>1 DEF HandlerOK
      <3>2. CASE x # c
        <4>1. /\ pc'[x] = pc[x] /\ request'[x] = request[x]
              /\ current'[x] = current[x] /\ outgoing'[x] = outgoing[x]
          BY <1>1, <2>1, <3>2 DEF HandlersTyped
        <4>2. QED
          BY <1>1, <4>1 DEF HandlersOK
      <3>3. QED
        BY <3>1, <3>2
    <2>5. \A x \in closed' : pc'[x] # "absent"
      BY <1>1, <2>1 DEF HandlersTyped, HandlersOK, TableTyped
    <2>6. QED
      BY <2>3, <2>4, <2>5 DEF HandlersOK
  <1>3. TableTyped' /\ RegistryOK' /\ ChannelsTyped' /\ ClientsTyped'
    BY <1>1, TableKept, ChannelsKept, ClientsKept
  <1>4. QED
    BY <1>2, <1>3 DEF HubInv, TypeOK, HandlersOK

LEMMA SaveKeeps ==
    ASSUME HubInv, NEW c \in Connections, Save(c)
    PROVE  HubInv'
  <1>1. WellFormedShared(shared')
    BY NextSharedSound DEF Save, SoundChange
  <1>2. QED
    BY <1>1, StoreKeeps DEF Save

LEMMA FreezeSaveKeeps ==
    ASSUME HubInv, NEW c \in Connections, FreezeSave(c)
    PROVE  HubInv'
  <1>1. WellFormedShared(current[c])
    BY DEF HubInv, HandlerOK, FreezeSave
  <1>2. WellFormedShared(shared')
    BY <1>1, FreezeSound DEF FreezeSave, SoundChange
  <1>3. QED
    BY <1>2, StoreKeeps DEF FreezeSave

LEMMA AnnounceKeeps ==
    ASSUME HubInv, NEW c \in Connections, Announce(c)
    PROVE  HubInv'
  <1> DEFINE then == IF request[c] = NoRequest THEN "leaving"
                     ELSE IF Applies(c) THEN "apply" ELSE "serving"
             message == SharedMessage(current[c], "update")
             to == {registry[d] : d \in RegisteredDevices}
             out == [message |-> message, then |-> then, to |-> to]
  <1>1. TableTyped
    BY InvParts
  <1>2. WellFormedShared(current[c])
    BY DEF HubInv, HandlerOK, Announce
  <1>3. then \in Returns
    BY DEF Returns
  <1>4. to \subseteq Connections
    BY <1>1, RegisteredAreConnections
  <1>5. message \in Message
    BY <1>2, MessageTypes DEF WellFormedShared
  <1>6. /\ outgoing' = [outgoing EXCEPT ![c] = out] /\ Goto(c, "sending")
        /\ UNCHANGED <<shared, registry, closed, outbox, lost, request, current,
                       view, received>>
    BY DEF Announce, Broadcast
  <1> HIDE DEF then, to, message
  <1>7. out \in Outgoing /\ out # NoOutgoing
    BY <1>1, <1>3, <1>4, <1>5, BroadcastTyped
  <1> HIDE DEF out
  <1>8. QED
    BY <1>2, <1>6, <1>7, BroadcastKeeps

LEMMA ApplyKeeps ==
    ASSUME HubInv, NEW c \in Connections, Apply(c)
    PROVE  HubInv'
  <1> DEFINE active == current[c].active
             message == ApplyMessage(current[c])
             to == {registry[active]}
             out == [message |-> message, then |-> "serving", to |-> to]
  <1>1. TableTyped /\ HandlersTyped
    BY InvParts
  <1>2. WellFormedShared(current[c])
    BY DEF HubInv, HandlerOK, Apply
  <1>3. message \in Message /\ active \in Devices \cup {NoDevice}
    BY <1>2, MessageTypes, SharedFields DEF WellFormedShared
  <1>4. CASE active # NoDevice /\ registry[active] # NoClient
    <2>1. to \subseteq Connections
      BY <1>1, <1>3, <1>4 DEF TableTyped, Clients
    <2>2. /\ outgoing' = [outgoing EXCEPT ![c] = out] /\ Goto(c, "sending")
          /\ UNCHANGED <<shared, registry, closed, outbox, lost, request, current,
                         view, received>>
      BY <1>4 DEF Apply
    <2> HIDE DEF message, to
    <2>3. "serving" \in Returns
      BY DEF Returns
    <2>4. out \in Outgoing /\ out # NoOutgoing
      BY <1>1, <1>3, <2>1, <2>3, BroadcastTyped
    <2> HIDE DEF out
    <2>5. QED
      BY <1>2, <2>2, <2>4, BroadcastKeeps
  <1>5. CASE ~(active # NoDevice /\ registry[active] # NoClient)
    <2>1. <<Error>> \in Seq(Message)
      BY MessageTypes
    <2>2. /\ Post(c, <<Error>>) /\ Done(c)
          /\ UNCHANGED <<shared, registry, closed, outgoing, view, received>>
      BY <1>5 DEF Apply
    <2>3. QED
      BY <2>1, <2>2, AnswerKeeps
  <1>6. QED
    BY <1>4, <1>5

LEMMA DisconnectKeeps ==
    ASSUME HubInv, NEW c \in Connections, Disconnect(c)
    PROVE  HubInv'
  <1>1. "unregister" \in Labels /\ HandlerOK("unregister", request[c], current[c], outgoing[c])
    BY DEF Labels, HandlerOK
  <1>2. QED
    BY <1>1, GotoKeeps DEF Disconnect

\* The registered client leaves the table before its channel is closed, both
\* under the mutex.
LEMMA RemoveKeeps ==
    ASSUME HubInv, NEW c \in Connections, Remove(c)
    PROVE  HubInv'
  <1> DEFINE label == IF registry[DeviceOf[c]] = c THEN "offline" ELSE "gone"
             r == request[c]
             held == current[c]
             out == outgoing[c]
  <1>1. /\ WellFormedShared(shared) /\ TableTyped /\ ChannelsTyped
        /\ HandlersTyped /\ ClientsTyped /\ RegistryOK /\ HandlersOK
    BY InvParts
  <1>2. /\ pc' = [pc EXCEPT ![c] = label]
        /\ request' = [request EXCEPT ![c] = r]
        /\ current' = [current EXCEPT ![c] = held]
        /\ outgoing' = [outgoing EXCEPT ![c] = out]
    BY <1>1, HandlerFields DEF Remove, Goto
  <1>3. HandlerOK(label, r, held, out)
    BY DEF HandlerOK
  <1>4. label \in Labels /\ label # "absent"
    BY DEF Labels, Idle, Releasing
  <1>5. r \in Request /\ held \in SharedState \cup {NoState} /\ out \in Outgoing
    BY <1>1, HandlerFields
  <1>6. closed' = closed \cup {c} /\ closed' \subseteq Connections
    BY <1>1 DEF Remove, TableTyped
  <1> HIDE DEF label, r, held, out
  <1>7. HandlersTyped' /\ HandlersOK'
    BY <1>1, <1>2, <1>3, <1>4, <1>5, <1>6, OthersKept
  <1>8. registry' = [registry EXCEPT ![DeviceOf[c]] =
                        IF registry[DeviceOf[c]] = c THEN NoClient ELSE registry[DeviceOf[c]]]
    BY DEF Remove, WithoutClient
  <1>9. TableTyped'
    BY <1>1, <1>6, <1>8, DeviceOfAssumption DEF TableTyped, Clients
  <1>10. RegistryOK'
    BY <1>1, <1>6, <1>8, DeviceOfAssumption DEF RegistryOK, RegisteredDevices, TableTyped
  <1>11. ChannelsTyped'
    <2>1. <<>> \in Seq(Message) /\ Len(<<>>) = 0 /\ 0 <= Capacity
      BY EmptySeq, HubBoundsAssumption
    <2>2. outbox' = [outbox EXCEPT ![c] = <<>>] /\ lost' = lost
      BY DEF Remove
    <2>3. QED
      BY <1>1, <2>1, <2>2 DEF ChannelsTyped
  <1>12. WellFormedShared(shared)' /\ ClientsTyped'
    BY <1>1 DEF Remove, ClientsTyped
  <1>13. QED
    BY <1>7, <1>9, <1>10, <1>11, <1>12 DEF HubInv, TypeOK, HandlersOK

LEMMA CheckOfflineKeeps ==
    ASSUME HubInv, NEW c \in Connections, CheckOffline(c)
    PROVE  HubInv'
  <1> DEFINE label == IF registry[DeviceOf[c]] = NoClient THEN "freezeRead" ELSE "leaving"
  <1>1. label \in Labels /\ label # "absent" /\ HandlerOK(label, request[c], current[c], outgoing[c])
    BY DEF Labels, Releasing, HandlerOK
  <1>2. Goto(c, label)
    BY DEF CheckOffline
  <1> HIDE DEF label
  <1>3. QED
    BY <1>1, <1>2, GotoKeeps DEF CheckOffline

LEMMA FreezeReadKeeps ==
    ASSUME HubInv, NEW c \in Connections, FreezeRead(c)
    PROVE  HubInv'
  <1>1. CASE shared.active = DeviceOf[c]
    BY <1>1, ReadKeeps DEF FreezeRead
  <1>2. CASE shared.active # DeviceOf[c]
    <2>1. "leaving" \in Labels /\ HandlerOK("leaving", request[c], current[c], outgoing[c])
      BY DEF Labels, HandlerOK
    <2>2. QED
      BY <1>2, <2>1, GotoKeeps DEF FreezeRead
  <1>3. QED
    BY <1>1, <1>2

\* A failing store call loses the message, the snapshot, the release or the
\* presence update, and nothing else.
LEMMA StoreFailsKeeps ==
    ASSUME HubInv, NEW c \in Connections, StoreFails(c)
    PROVE  HubInv'
  <1>1. /\ WellFormedShared(shared) /\ TableTyped /\ ChannelsTyped
        /\ HandlersTyped /\ ClientsTyped /\ RegistryOK /\ HandlersOK
    BY InvParts
  <1>2. CASE Post(c, <<Error>>) /\ Done(c)
    <2>1. <<Error>> \in Seq(Message)
      BY MessageTypes
    <2>2. QED
      BY <1>2, <2>1, AnswerKeeps DEF StoreFails
  <1>3. CASE Done(c) /\ UNCHANGED <<outbox, lost>>
    <2> DEFINE out == outgoing[c]
    <2>1. out \in Outgoing /\ outgoing' = [outgoing EXCEPT ![c] = out] /\ closed' = closed
      BY <1>1, HandlerFields DEF StoreFails
    <2> HIDE DEF out
    <2>2. HandlersTyped' /\ HandlersOK'
      BY <1>1, <1>3, <2>1, DoneKept DEF TableTyped
    <2>3. WellFormedShared(shared)' /\ TableTyped' /\ RegistryOK' /\ ChannelsTyped' /\ ClientsTyped'
      BY <1>1, <1>3, TableKept, ChannelsKept, ClientsKept DEF StoreFails
    <2>4. QED
      BY <2>2, <2>3 DEF HubInv, TypeOK, HandlersOK
  <1>4. CASE /\ Goto(c, "leaving")
             /\ current' = [current EXCEPT ![c] = NoState]
             /\ UNCHANGED <<outbox, lost, request>>
    <2> DEFINE r == request[c]
               out == outgoing[c]
    <2>1. /\ pc' = [pc EXCEPT ![c] = "leaving"]
          /\ request' = [request EXCEPT ![c] = r]
          /\ outgoing' = [outgoing EXCEPT ![c] = out]
      BY <1>1, <1>4, HandlerFields DEF StoreFails, Goto
    <2>2. r \in Request /\ out \in Outgoing /\ NoState \in SharedState \cup {NoState}
      BY <1>1, HandlerFields
    <2>3. "leaving" \in Labels /\ HandlerOK("leaving", r, NoState, out)
      BY DEF Labels, HandlerOK
    <2>4. closed' \subseteq closed \cup {c} /\ closed' \subseteq Connections
      BY <1>1 DEF StoreFails, TableTyped
    <2> HIDE DEF r, out
    <2>5. HandlersTyped' /\ HandlersOK'
      BY <1>1, <1>4, <2>1, <2>2, <2>3, <2>4, OthersKept
    <2>6. WellFormedShared(shared)' /\ TableTyped' /\ RegistryOK' /\ ChannelsTyped' /\ ClientsTyped'
      BY <1>1, <1>4, TableKept, ChannelsKept, ClientsKept DEF StoreFails
    <2>7. QED
      BY <2>5, <2>6 DEF HubInv, TypeOK, HandlersOK
  <1>5. CASE /\ pc[c] \in {"arriving", "leaving"}
             /\ Goto(c, AfterPresence(pc[c]))
             /\ UNCHANGED <<outbox, lost, request, current>>
    <2> DEFINE label == AfterPresence(pc[c])
    <2>1. label \in {"snapshotRead", "gone"}
      BY <1>5 DEF AfterPresence
    <2>2. Goto(c, label)
      BY <1>5
    <2> HIDE DEF label
    <2>3. label \in Labels /\ label # "absent" /\ HandlerOK(label, request[c], current[c], outgoing[c])
      BY <2>1 DEF Labels, Idle, HandlerOK
    <2>4. QED
      BY <1>5, <2>2, <2>3, GotoKeeps DEF StoreFails
  <1>6. QED
    BY <1>2, <1>3, <1>4, <1>5 DEF StoreFails

\* Delivery takes the head of a channel, and the client keeps a state of the
\* room or the one it holds.
LEMMA DeliverKeeps ==
    ASSUME HubInv, NEW c \in Connections, Deliver(c)
    PROVE  HubInv'
  <1> DEFINE head == Head(outbox[c])
             rest == Tail(outbox[c])
             next == IF head.kind = "shared" THEN Adopted(view[c], head.shared) ELSE view[c]
  <1>1. /\ WellFormedShared(shared) /\ TableTyped /\ ChannelsTyped
        /\ HandlersTyped /\ ClientsTyped /\ RegistryOK /\ HandlersOK
    BY InvParts
  <1>2. outbox[c] \in Seq(Message) /\ outbox[c] # <<>> /\ Len(outbox[c]) <= Capacity
    BY <1>1 DEF ChannelsTyped, Deliver
  <1>3. head \in Message /\ rest \in Seq(Message) /\ Len(rest) = Len(outbox[c]) - 1
    BY <1>2, HeadTailProperties
  <1>4. Len(outbox[c]) \in Nat /\ Len(rest) <= Capacity
    BY <1>2, <1>3, LenProperties, HubBoundsAssumption
  <1>5. outbox' = [outbox EXCEPT ![c] = rest] /\ lost' = lost
    BY DEF Deliver
  <1>6. ChannelsTyped'
    <2> HIDE DEF rest, head
    <2>1. QED
      BY <1>1, <1>3, <1>4, <1>5 DEF ChannelsTyped
  <1>7. head.kind = "shared" => head.shared \in SharedState
    <2> HIDE DEF head
    <2>1. QED
      BY <1>3 DEF Message, Presence, Error
  <1>8. view' = [view EXCEPT ![c] = next]
    BY <1>1 DEF Deliver, ClientsTyped
  <1>9. next \in SharedState \cup {NoClient}
    <2> HIDE DEF head
    <2>1. QED
      BY <1>1, <1>7 DEF Adopted, ClientsTyped
  <1>10. ClientsTyped'
    <2> HIDE DEF next
    <2>1. QED
      BY <1>1, <1>8, <1>9 DEF Deliver, ClientsTyped
  <1>11. HandlersTyped' /\ HandlersOK'
    BY <1>1 DEF Deliver, HandlersTyped, HandlersOK
  <1>12. WellFormedShared(shared)' /\ TableTyped' /\ RegistryOK'
    BY <1>1, TableKept DEF Deliver
  <1>13. QED
    BY <1>6, <1>10, <1>11, <1>12 DEF HubInv, TypeOK, HandlersOK

LEMMA StutterKeeps ==
    ASSUME HubInv, UNCHANGED vars
    PROVE  HubInv'
  <1>1. /\ WellFormedShared(shared) /\ TableTyped /\ ChannelsTyped
        /\ HandlersTyped /\ ClientsTyped /\ RegistryOK /\ HandlersOK
    BY InvParts
  <1>2. HandlersTyped' /\ HandlersOK'
    BY <1>1 DEF vars, HandlersTyped, HandlersOK
  <1>3. WellFormedShared(shared)' /\ TableTyped' /\ RegistryOK' /\ ChannelsTyped' /\ ClientsTyped'
    BY <1>1, TableKept, ChannelsKept, ClientsKept DEF vars
  <1>4. QED
    BY <1>2, <1>3 DEF HubInv, TypeOK, HandlersOK

-----------------------------------------------------------------------------
LEMMA InitHub == Init => HubInv
  <1> SUFFICES ASSUME Init PROVE HubInv
    OBVIOUS
  <1>1. NoShared \in SharedState /\ NoShared.state = EmptyPlaybackState
    BY EmptyPlaybackStateType DEF NoShared, SharedState
  <1>2. WellFormedShared(shared)
    BY <1>1, EmptyPlaybackStateType DEF Init, WellFormedShared
  <1>3. TableTyped /\ RegistryOK
    BY DEF Init, TableTyped, Clients, RegistryOK, RegisteredDevices
  <1>4. ChannelsTyped
    <2>1. <<>> \in Seq(Message) /\ Len(<<>>) = 0
      BY EmptySeq
    <2>2. 0 <= Capacity
      BY HubBoundsAssumption
    <2>3. QED
      BY <2>1, <2>2 DEF Init, ChannelsTyped
  <1>5. HandlersTyped
    BY DEF Init, HandlersTyped, Labels, Idle, Request, Outgoing
  <1>6. ClientsTyped
    BY HubBoundsAssumption DEF Init, ClientsTyped
  <1>7. HandlersOK
    BY DEF Init, HandlersOK, HandlerOK
  <1>8. QED
    BY <1>2, <1>3, <1>4, <1>5, <1>6, <1>7 DEF HubInv, TypeOK, HandlersOK

LEMMA NextKeeps == HubInv /\ [Next]_vars => HubInv'
  <1> SUFFICES ASSUME HubInv, [Next]_vars PROVE HubInv'
    OBVIOUS
  <1>1. CASE UNCHANGED vars
    BY <1>1, StutterKeeps
  <1>2. ASSUME NEW c \in Connections, HandlerStep(c)
        PROVE  HubInv'
    <2>1. CASE SnapshotRead(c)
      BY <2>1, ReadKeeps DEF SnapshotRead
    <2>2. CASE Read(c)
      BY <2>2, ReadKeeps DEF Read
    <2>3. CASE \E to \in Connections : Send(c, to) \/ SendToClosed(c, to)
      BY <2>3, SendKeeps, SendToClosedKeeps
    <2>4. CASE SnapshotSend(c) \/ BroadcastPresence(c) \/ Sent(c)
      BY <2>4, SnapshotSendKeeps, BroadcastPresenceKeeps, SentKeeps
    <2>5. CASE Reject(c) \/ CheckTarget(c) \/ Save(c) \/ PlayOnActive(c)
      BY <2>5, RejectKeeps, CheckTargetKeeps, SaveKeeps, PlayOnActiveKeeps
    <2>6. CASE Announce(c) \/ Apply(c) \/ StoreFails(c)
      BY <2>6, AnnounceKeeps, ApplyKeeps, StoreFailsKeeps
    <2>7. CASE Remove(c) \/ CheckOffline(c) \/ FreezeRead(c) \/ FreezeSave(c)
      BY <2>7, RemoveKeeps, CheckOfflineKeeps, FreezeReadKeeps, FreezeSaveKeeps
    <2>8. QED
      BY <1>2, <2>1, <2>2, <2>3, <2>4, <2>5, <2>6, <2>7 DEF HandlerStep
  <1>3. ASSUME NEW c \in Connections,
               Install(c) \/ Receive(c) \/ Disconnect(c) \/ Deliver(c)
        PROVE  HubInv'
    BY <1>3, InstallKeeps, ReceiveKeeps, DisconnectKeeps, DeliverKeeps
  <1>4. QED
    BY <1>1, <1>2, <1>3 DEF Next

\* However the handlers of a room interleave, whatever the stores and the
\* channels lose: the stored state stays one that decoding leaves alone, no
\* channel exceeds its capacity, a registered client can be sent to, and each
\* handler has what its next step needs.
THEOREM HubInvCorrect == Spec => []HubInv
  BY InitHub, NextKeeps, PTL DEF Spec

\* A registered client is a connection of that device with an open channel.
THEOREM RegistryCorrect == Spec => []RegistryOK
  <1>1. HubInv => RegistryOK
    BY DEF HubInv
  <1>2. QED
    BY HubInvCorrect, <1>1, PTL

\* A client leaves the table by its own Unregister: the late one of the
\* connection it replaced does not remove it.
THEOREM ReplacementCorrect == Spec => ReplacementStays
  <1>1. ASSUME HubInv, Next
        PROVE  \A d \in RegisteredDevices :
                  registry'[d] = NoClient => pc[registry[d]] = "unregister"
    <2> SUFFICES ASSUME NEW d \in RegisteredDevices, registry'[d] = NoClient
                 PROVE  pc[registry[d]] = "unregister"
      OBVIOUS
    <2>1. TableTyped /\ d \in Devices /\ registry[d] # NoClient
      BY <1>1 DEF HubInv, TypeOK, RegisteredDevices
    <2>2. PICK c \in Connections :
              Install(c) \/ Receive(c) \/ Disconnect(c) \/ Deliver(c) \/ HandlerStep(c)
      BY <1>1 DEF Next
    <2>3. CASE Install(c)
      BY <2>1, <2>3, NoClientAssumption, DeviceOfAssumption DEF Install, TableTyped
    <2>4. CASE Remove(c)
      <3>1. d = DeviceOf[c] /\ registry[d] = c
        BY <2>1, <2>4, DeviceOfAssumption DEF Remove, WithoutClient, TableTyped
      <3>2. QED
        BY <2>4, <3>1 DEF Remove
    <2>5. CASE registry' = registry
      BY <2>1, <2>5
    <2>6. Install(c) \/ Remove(c) \/ registry' = registry
      <3>1. CASE Receive(c) \/ Disconnect(c) \/ Deliver(c)
        BY <3>1 DEF Receive, Disconnect, Deliver
      <3>2. CASE SnapshotRead(c) \/ SnapshotSend(c) \/ BroadcastPresence(c)
        BY <3>2 DEF SnapshotRead, SnapshotSend, BroadcastPresence
      <3>3. CASE (\E to \in Connections : Send(c, to) \/ SendToClosed(c, to)) \/ Sent(c)
        BY <3>3 DEF Send, SendToClosed, Sent
      <3>4. CASE Read(c) \/ Reject(c) \/ CheckTarget(c) \/ Save(c) \/ PlayOnActive(c)
        BY <3>4 DEF Read, Reject, CheckTarget, Save, PlayOnActive
      <3>5. CASE Announce(c) \/ Apply(c) \/ StoreFails(c)
        BY <3>5 DEF Announce, Apply, StoreFails
      <3>6. CASE CheckOffline(c) \/ FreezeRead(c) \/ FreezeSave(c)
        BY <3>6 DEF CheckOffline, FreezeRead, FreezeSave
      <3>7. QED
        BY <2>2, <3>1, <3>2, <3>3, <3>4, <3>5, <3>6 DEF HandlerStep
    <2>7. QED
      BY <2>3, <2>4, <2>5, <2>6
  <1>2. HubInv /\ [Next]_vars
            => [\A d \in RegisteredDevices :
                  registry'[d] = NoClient => pc[registry[d]] = "unregister"]_vars
    BY <1>1
  <1>3. QED
    BY HubInvCorrect, <1>2, PTL DEF Spec, ReplacementStays

-----------------------------------------------------------------------------
(* The handlers taken one at a time.                                       *)

\* One handler is in the hub at a time, no replaced connection is still heard
\* and no store call fails.
Serial == MaxHandlers = 1 /\ LateRequests = FALSE /\ StoreMayFail = FALSE

OneHandler == \A a, b \in Connections : Busy(a) /\ Busy(b) => a = b

\* What a handler read or was told is still so when it saves.
SerialOK(c) ==
    /\ pc[c] \in {"reduce", "save", "freezeSave"} =>
          \E elapsed \in BOOLEAN : current[c] = AsOfNow(shared, elapsed)
    /\ pc[c] \in {"read", "reduce", "save"} => registry[DeviceOf[c]] = c
    /\ pc[c] = "save" => Accepted(c)
    /\ pc[c] \in Releasing => registry[DeviceOf[c]] = NoClient
    /\ pc[c] = "freezeSave" => shared.active = DeviceOf[c]

SerialInv == OneHandler /\ \A c \in Connections : SerialOK(c)

Entering(c) == Install(c) \/ Receive(c) \/ Disconnect(c)

\* The steps of one goroutine change nothing of the others'.
Frame(c) ==
    \A x \in Connections \ {c} :
        /\ pc'[x] = pc[x] /\ request'[x] = request[x]
        /\ current'[x] = current[x] /\ outgoing'[x] = outgoing[x]

LEMMA StepFrame ==
    ASSUME HubInv, NEW c \in Connections, Entering(c) \/ HandlerStep(c)
    PROVE  Frame(c)
  <1>1. HandlersTyped
    BY InvParts
  <1>2. CASE Entering(c)
    BY <1>1, <1>2 DEF Entering, Install, Receive, Disconnect, Goto, Frame, HandlersTyped
  <1>3. CASE SnapshotRead(c) \/ Read(c) \/ FreezeRead(c)
    BY <1>1, <1>3 DEF SnapshotRead, Read, FreezeRead, ReadShared, Goto, Frame, HandlersTyped
  <1>4. CASE SnapshotSend(c) \/ Reject(c) \/ Apply(c)
    BY <1>1, <1>4 DEF SnapshotSend, Reject, Apply, Done, Goto, Frame, HandlersTyped
  <1>5. CASE BroadcastPresence(c) \/ Announce(c)
    BY <1>1, <1>5 DEF BroadcastPresence, Announce, Broadcast, Goto, Frame, HandlersTyped
  <1>6. CASE (\E to \in Connections : Send(c, to) \/ SendToClosed(c, to)) \/ Sent(c)
    BY <1>1, <1>6 DEF Send, SendToClosed, Sent, Done, Goto, Frame, HandlersTyped
  <1>7. CASE CheckTarget(c) \/ Save(c) \/ PlayOnActive(c)
    BY <1>1, <1>7 DEF CheckTarget, Save, PlayOnActive, Goto, Frame, HandlersTyped
  <1>8. CASE Remove(c) \/ CheckOffline(c) \/ FreezeSave(c)
    BY <1>1, <1>8 DEF Remove, CheckOffline, FreezeSave, Goto, Frame, HandlersTyped
  <1>9. CASE StoreFails(c)
    BY <1>1, <1>9 DEF StoreFails, Done, Goto, Frame, HandlersTyped
  <1>10. QED
    BY <1>2, <1>3, <1>4, <1>5, <1>6, <1>7, <1>8, <1>9 DEF HandlerStep

\* Only a handler that is in the hub takes its steps.
LEMMA HandlerIsBusy ==
    ASSUME NEW c \in Connections, HandlerStep(c)
    PROVE  Busy(c)
  <1>1. CASE SnapshotRead(c) \/ Read(c) \/ FreezeRead(c) \/ SnapshotSend(c) \/ Reject(c) \/ Apply(c)
    BY <1>1 DEF SnapshotRead, Read, FreezeRead, SnapshotSend, Reject, Apply, Busy, Idle
  <1>2. CASE BroadcastPresence(c) \/ Announce(c) \/ CheckTarget(c) \/ PlayOnActive(c)
    BY <1>2 DEF BroadcastPresence, Announce, CheckTarget, PlayOnActive, Busy, Idle
  <1>3. CASE (\E to \in Connections : Send(c, to) \/ SendToClosed(c, to)) \/ Sent(c)
    BY <1>3 DEF Send, SendToClosed, Sent, Busy, Idle
  <1>4. CASE Save(c) \/ Remove(c) \/ CheckOffline(c) \/ FreezeSave(c) \/ StoreFails(c)
    BY <1>4 DEF Save, Saves, Remove, CheckOffline, FreezeSave, StoreFails, Busy, Idle
  <1>5. QED
    BY <1>1, <1>2, <1>3, <1>4 DEF HandlerStep

\* With one handler at a time, who takes a step finds the others at rest.
LEMMA OthersRest ==
    ASSUME Serial, OneHandler, NEW c \in Connections, Entering(c) \/ HandlerStep(c)
    PROVE  \A x \in Connections \ {c} : ~Busy(x)
  <1>1. CASE HandlerStep(c)
    BY <1>1, HandlerIsBusy DEF OneHandler
  <1>2. CASE Entering(c)
    <2>1. CASE Install(c) \/ Receive(c) \/ Disconnect(c)
      <3>1. Cardinality({x \in Connections : Busy(x)}) < 1
        BY <2>1 DEF Install, Receive, Disconnect, MayEnter, Serial
      <3>2. ASSUME NEW x \in Connections, Busy(x) PROVE FALSE
        <4>1. {y \in Connections : Busy(y)} = {x}
          BY <3>2 DEF OneHandler
        <4>2. Cardinality({x}) = 1
          BY FS_Singleton
        <4>3. QED
          BY <3>1, <4>1, <4>2
      <3>3. QED
        BY <3>2
    <2>2. QED
      BY <1>2, <2>1 DEF Entering
  <1>3. QED
    BY <1>1, <1>2

\* So a step keeps SerialInv if its own goroutine does.
LEMMA SerialStep ==
    ASSUME HubInv, SerialInv, Serial, NEW c \in Connections,
           Entering(c) \/ HandlerStep(c), SerialOK(c)'
    PROVE  SerialInv'
  <1>1. \A x \in Connections \ {c} : pc'[x] = pc[x] /\ pc[x] \in Idle
    BY StepFrame, OthersRest DEF Frame, SerialInv, Busy
  <1>2. OneHandler'
    BY <1>1 DEF OneHandler, Busy
  <1>3. ASSUME NEW x \in Connections PROVE SerialOK(x)'
    <2>1. CASE x # c
      BY <1>1, <2>1 DEF SerialOK, Idle, Releasing
    <2>2. QED
      BY <2>1
  <1>4. QED
    BY <1>2, <1>3 DEF SerialInv

\* Where a goroutine relies on nothing it read.
LEMMA Carefree ==
    ASSUME NEW c \in Connections, pc'[c] \notin {"read", "reduce", "save"} \cup Releasing
    PROVE  SerialOK(c)'
  BY DEF SerialOK, Releasing

LEMMA GotoLabel ==
    ASSUME HubInv, NEW c \in Connections, NEW label, Goto(c, label)
    PROVE  pc'[c] = label
  BY DEF HubInv, TypeOK, HandlersTyped, Goto

LEMMA DoneServes ==
    ASSUME HubInv, NEW c \in Connections, Done(c)
    PROVE  pc'[c] = "serving"
  BY DEF HubInv, TypeOK, HandlersTyped, Done, Goto

LEMMA SameSerial ==
    ASSUME SerialInv, UNCHANGED <<shared, registry, pc, request, current>>
    PROVE  SerialInv'
  <1>1. \A c \in Connections : Accepted(c)' = Accepted(c)
    BY DEF Accepted, Op, Stale
  <1>2. QED
    BY <1>1 DEF SerialInv, OneHandler, Busy, SerialOK

\* A handler that reads, checks or gives up on what it read.
LEMMA ReadingSerial ==
    ASSUME HubInv, SerialInv, Serial, NEW c \in Connections,
           Receive(c) \/ Read(c) \/ CheckTarget(c) \/ Remove(c) \/ CheckOffline(c)
              \/ FreezeRead(c)
    PROVE  SerialOK(c)'
  <1>1. HandlersTyped /\ SerialOK(c)
    BY InvParts DEF SerialInv
  <1>2. CASE Receive(c)
    <2>1. pc'[c] \in {"greeting", "read"} /\ registry'[DeviceOf[c]] = c
      BY <1>1, <1>2, GotoLabel DEF Receive, Serial
    <2>2. QED
      BY <2>1 DEF SerialOK, Releasing
  <1>3. CASE Read(c)
    <2>1. pc'[c] = "reduce" /\ registry'[DeviceOf[c]] = c
      BY <1>1, <1>3, GotoLabel DEF Read, SerialOK
    <2>2. \E elapsed \in BOOLEAN : current'[c] = AsOfNow(shared', elapsed)
      BY <1>1, <1>3 DEF Read, ReadShared, HandlersTyped
    <2>3. QED
      BY <2>1, <2>2 DEF SerialOK, Releasing
  <1>4. CASE CheckTarget(c)
    <2>1. pc'[c] = "save" /\ registry'[DeviceOf[c]] = c
      BY <1>1, <1>4, GotoLabel DEF CheckTarget, SerialOK
    <2>2. \E elapsed \in BOOLEAN : current'[c] = AsOfNow(shared', elapsed)
      BY <1>1, <1>4 DEF CheckTarget, SerialOK
    <2>3. Accepted(c)'
      BY <1>4 DEF CheckTarget, Accepted, Op, Stale
    <2>4. QED
      BY <2>1, <2>2, <2>3 DEF SerialOK, Releasing
  <1>5. CASE Remove(c)
    <2>1. pc'[c] = IF registry[DeviceOf[c]] = c THEN "offline" ELSE "gone"
      BY <1>5, GotoLabel DEF Remove
    <2>2. registry[DeviceOf[c]] = c => registry'[DeviceOf[c]] = NoClient
      BY <1>5, InvParts, DeviceOfAssumption DEF Remove, WithoutClient, TableTyped
    <2>3. QED
      BY <2>1, <2>2 DEF SerialOK, Releasing
  <1>6. CASE CheckOffline(c)
    <2>1. pc'[c] = "freezeRead" /\ registry'[DeviceOf[c]] = NoClient
      BY <1>1, <1>6, GotoLabel DEF CheckOffline, SerialOK, Releasing
    <2>2. QED
      BY <2>1 DEF SerialOK, Releasing
  <1>7. CASE FreezeRead(c)
    <2>1. /\ pc'[c] = IF shared.active = DeviceOf[c] THEN "freezeSave" ELSE "leaving"
          /\ registry'[DeviceOf[c]] = NoClient
      BY <1>1, <1>7, GotoLabel DEF FreezeRead, SerialOK, Releasing
    <2>2. shared.active = DeviceOf[c] =>
              \E elapsed \in BOOLEAN : current'[c] = AsOfNow(shared', elapsed)
      BY <1>1, <1>7 DEF FreezeRead, ReadShared, HandlersTyped
    <2>3. shared' = shared
      BY <1>7 DEF FreezeRead
    <2>4. QED
      BY <2>1, <2>2, <2>3 DEF SerialOK, Releasing
  <1>8. QED
    BY <1>2, <1>3, <1>4, <1>5, <1>6, <1>7

\* Every other step leads where nothing read is relied on.
LEMMA CarefreeStep ==
    ASSUME HubInv, Serial, NEW c \in Connections,
           \/ Install(c) \/ Disconnect(c)
           \/ SnapshotRead(c) \/ SnapshotSend(c) \/ BroadcastPresence(c)
           \/ \E to \in Connections : Send(c, to) \/ SendToClosed(c, to)
           \/ Sent(c) \/ Reject(c) \/ Save(c) \/ PlayOnActive(c)
           \/ Announce(c) \/ Apply(c) \/ FreezeSave(c) \/ StoreFails(c)
    PROVE  pc'[c] \notin {"read", "reduce", "save"} \cup Releasing
  <1>1. HandlersTyped /\ HandlersOK
    BY InvParts
  <1>2. CASE Install(c) \/ Disconnect(c) \/ SnapshotRead(c) \/ Save(c) \/ PlayOnActive(c)
             \/ FreezeSave(c)
    BY <1>2, GotoLabel DEF Install, Disconnect, SnapshotRead, Save, PlayOnActive, FreezeSave,
       Releasing
  <1>3. CASE SnapshotSend(c) \/ Reject(c)
    BY <1>3, DoneServes DEF SnapshotSend, Reject, Releasing
  <1>4. CASE BroadcastPresence(c) \/ Announce(c)
    <2>1. pc'[c] = "sending"
      BY <1>4, GotoLabel DEF BroadcastPresence, Announce, Broadcast
    <2>2. QED
      BY <2>1 DEF Releasing
  <1>5. ASSUME NEW to \in Connections, Send(c, to)
        PROVE  pc'[c] \notin {"read", "reduce", "save"} \cup Releasing
    BY <1>5 DEF Send, Releasing
  <1>6. pc[c] = "sending" => outgoing[c].then \in Returns
    BY <1>1 DEF HandlersTyped, HandlersOK, HandlerOK, Outgoing
  <1>7. ASSUME NEW to \in Connections, SendToClosed(c, to)
        PROVE  pc'[c] \notin {"read", "reduce", "save"} \cup Releasing
    <2>1. pc'[c] = AfterPanic(outgoing[c].then) /\ outgoing[c].then \in Returns
      BY <1>6, <1>7, GotoLabel DEF SendToClosed
    <2>2. QED
      BY <2>1 DEF AfterPanic, Returns, Releasing
  <1>8. CASE Sent(c)
    <2>1. pc'[c] = outgoing[c].then
      BY <1>8, GotoLabel, DoneServes DEF Sent
    <2>2. QED
      BY <1>6, <1>8, <2>1 DEF Sent, Returns, Releasing
  <1>9. CASE Apply(c)
    <2>1. pc'[c] \in {"sending", "serving"}
      BY <1>9, GotoLabel, DoneServes DEF Apply
    <2>2. QED
      BY <2>1 DEF Releasing
  <1>10. CASE StoreFails(c)
    BY <1>10 DEF StoreFails, Serial
  <1>11. QED
    BY <1>2, <1>3, <1>4, <1>5, <1>7, <1>8, <1>9, <1>10

LEMMA SerialKeeps ==
    ASSUME Serial, HubInv, SerialInv, [Next]_vars
    PROVE  SerialInv'
  <1>1. CASE UNCHANGED vars
    BY <1>1, SameSerial DEF vars
  <1>2. ASSUME NEW c \in Connections, Deliver(c) PROVE SerialInv'
    BY <1>2, SameSerial DEF Deliver
  <1>3. ASSUME NEW c \in Connections, Entering(c) \/ HandlerStep(c) PROVE SerialInv'
    <2>1. SerialOK(c)'
      BY <1>3, ReadingSerial, CarefreeStep, Carefree DEF Entering, HandlerStep
    <2>2. QED
      BY <1>3, <2>1, SerialStep
  <1>4. QED
    BY <1>1, <1>2, <1>3 DEF Next, Entering

LEMMA SerialInit == Init => SerialInv
  BY DEF Init, SerialInv, OneHandler, Busy, Idle, SerialOK, Releasing

-----------------------------------------------------------------------------
(* The serial hub implements SharedPlayback.                               *)

\* The operators of the instance are those of PlaybackRoom, by definition.
LEMMA RoomReducers ==
    ASSUME NEW s, NEW cmd
    PROVE  Room!Reduced(s, cmd) = Reduced(s, cmd)
  <1> USE DEF Room!NoIndex, NoIndex, Room!Gone, Gone, Room!AtStart, AtStart,
          Room!EmptyMap, EmptyMap, Room!Indices, Indices, Room!ItemAt, ItemAt,
          Room!StoppedOrIdle, StoppedOrIdle,
          Room!PlayNextStart, PlayNextStart, Room!ClampedPlayNextLen, ClampedPlayNextLen,
          Room!PlayNextEnd, PlayNextEnd, Room!PlayNextRegion, PlayNextRegion,
          Room!AdjustedPlayNextLen, AdjustedPlayNextLen,
          Room!RecordQueueChange, RecordQueueChange, Room!Located, Located
  <1>1. ASSUME NEW queue, NEW index
        PROVE  Room!SetQueue(s, queue, index) = SetQueue(s, queue, index)
    BY DEF Room!SetQueue, SetQueue
  <1>2. ASSUME NEW items
        PROVE  /\ Room!InsertAfterCurrent(s, items) = InsertAfterCurrent(s, items)
               /\ Room!AppendToQueue(s, items) = AppendToQueue(s, items)
    BY DEF Room!InsertAfterCurrent, InsertAfterCurrent, Room!AppendToQueue, AppendToQueue,
           Room!WithCurrent, WithCurrent, Room!InsertedIndexMap, InsertedIndexMap
  <1>3. ASSUME NEW moving, NEW insertBefore
        PROVE  Room!MoveQueueIndices(s, moving, insertBefore)
                   = MoveQueueIndices(s, moving, insertBefore)
    BY DEF Room!MoveQueueIndices, MoveQueueIndices, Room!MovedIndexMap, MovedIndexMap,
           Room!ApplyIndexMap, ApplyIndexMap, Room!Survivors, Survivors,
           Room!Cardinality, Cardinality
  <1>4. ASSUME NEW index
        PROVE  Room!RemoveQueueIndex(s, index) = RemoveQueueIndex(s, index)
    BY DEF Room!RemoveQueueIndex, RemoveQueueIndex, Room!RemovedIndexMap, RemovedIndexMap,
           Room!CurrentAfterRemoval, CurrentAfterRemoval,
           Room!ConsumesPlayNext, ConsumesPlayNext, Room!RemovedAll, RemovedAll,
           Room!ApplyIndexMap, ApplyIndexMap, Room!Survivors, Survivors,
           Room!Cardinality, Cardinality
  <1>5. ASSUME NEW removing
        PROVE  Room!RemoveQueueIndices(s, removing) = RemoveQueueIndices(s, removing)
    BY DEF Room!RemoveQueueIndices, RemoveQueueIndices, Room!RemovedIndexMap, RemovedIndexMap,
           Room!RemovedAll, RemovedAll, Room!LoadedStates, LoadedStates,
           Room!ApplyIndexMap, ApplyIndexMap, Room!Survivors, Survivors,
           Room!Cardinality, Cardinality
  <1>6. /\ Room!ClearQueue(s) = ClearQueue(s)
        /\ \A state : Room!PushState(s, state) = PushState(s, state)
        /\ \A index : Room!PlayQueueIndex(s, index) = PlayQueueIndex(s, index)
    BY DEF Room!ClearQueue, ClearQueue, Room!PushState, PushState,
           Room!PlayQueueIndex, PlayQueueIndex, Room!EmptyPlaybackState, EmptyPlaybackState
  <1>7. \A t : Room!Normalized(t) = Normalized(t)
    BY DEF Room!Normalized, Normalized, Room!NormalPlayingState, NormalPlayingState
  <1>8. QED
    BY <1>1, <1>2, <1>3, <1>4, <1>5, <1>6, <1>7 DEF Room!Reduced, Reduced

LEMMA RoomRequests ==
    ASSUME NEW sh, NEW d
    PROVE  /\ \A elapsed : Room!AsOfNow(sh, elapsed) = AsOfNow(sh, elapsed)
           /\ \A cmd : /\ Room!Accepts(sh.state, cmd) <=> Accepts(sh.state, cmd)
                       /\ Room!AfterCommand(sh, cmd, d) = AfterCommand(sh, cmd, d)
           /\ \A report :
                 /\ Room!ReportAccepted(sh, report, d) <=> ReportAccepted(sh, report, d)
                 /\ Room!AfterReport(sh, report, d) = AfterReport(sh, report, d)
           /\ Room!TransferAccepted(sh, d) <=> TransferAccepted(sh, d)
           /\ Room!AfterTransfer(sh, d) = AfterTransfer(sh, d)
           /\ Room!AfterFreeze(sh) = AfterFreeze(sh)
           /\ Room!AfterControl(sh, d) = AfterControl(sh, d)
  <1> USE DEF Room!NoIndex, NoIndex, Room!AtStart, AtStart, Room!Later, Later,
          Room!Indices, Indices, Room!ItemAt, ItemAt, Room!SongAt, SongAt,
          Room!Claimed, Claimed, Room!Located, Located,
          Room!StoppedOrIdle, StoppedOrIdle, Room!ReportMatches, ReportMatches,
          Room!PlayNextStart, PlayNextStart, Room!ClampedPlayNextLen, ClampedPlayNextLen,
          Room!PlayNextEnd, PlayNextEnd, Room!PlayNextRegion, PlayNextRegion,
          Room!AdjustedPlayNextLen, AdjustedPlayNextLen
  <1>1. \A elapsed : Room!AsOfNow(sh, elapsed) = AsOfNow(sh, elapsed)
    BY DEF Room!AsOfNow, AsOfNow
  <1>2. ASSUME NEW cmd
        PROVE  /\ Room!Accepts(sh.state, cmd) <=> Accepts(sh.state, cmd)
               /\ Room!AfterCommand(sh, cmd, d) = AfterCommand(sh, cmd, d)
    <2>1. Room!Accepts(sh.state, cmd) <=> Accepts(sh.state, cmd)
      BY DEF Room!Accepts, Accepts, Room!ValidState, ValidState
    <2>2. Room!AfterCommand(sh, cmd, d) = AfterCommand(sh, cmd, d)
      BY RoomReducers
      DEF Room!AfterCommand, AfterCommand, Room!IsNoop, IsNoop, Room!ActiveAfter, ActiveAfter,
          Room!QueueOps, QueueOps
    <2>3. QED
      BY <2>1, <2>2
  <1>3. \A t : Room!Normalized(t) = Normalized(t)
    BY DEF Room!Normalized, Normalized, Room!NormalPlayingState, NormalPlayingState
  <1>4. ASSUME NEW report
        PROVE  /\ Room!ReportAccepted(sh, report, d) <=> ReportAccepted(sh, report, d)
               /\ Room!AfterReport(sh, report, d) = AfterReport(sh, report, d)
    <2>1. Room!MergeReport(sh.state, report) = MergeReport(sh.state, report)
      BY DEF Room!MergeReport, MergeReport, Room!CompatibleReportIndex, CompatibleReportIndex
    <2>2. QED
      BY <1>3, <2>1 DEF Room!ReportAccepted, ReportAccepted, Room!AfterReport, AfterReport
  <1>5. /\ Room!TransferAccepted(sh, d) <=> TransferAccepted(sh, d)
        /\ Room!AfterTransfer(sh, d) = AfterTransfer(sh, d)
        /\ Room!AfterControl(sh, d) = AfterControl(sh, d)
    BY DEF Room!TransferAccepted, TransferAccepted, Room!AfterTransfer, AfterTransfer,
           Room!AfterControl, AfterControl
  <1>6. Room!AfterFreeze(sh) = AfterFreeze(sh)
    BY <1>3 DEF Room!AfterFreeze, AfterFreeze
  <1>7. QED
    BY <1>1, <1>2, <1>4, <1>5, <1>6

\* The bounds of the room: its queue length and its number of changes.
InRoomBounds == Room!InBounds(shared)

RoomStep == Room!Next \/ UNCHANGED <<shared, OnlineDevices>>

\* A step that leaves the table and the releases under way alone.
LEMMA OnlineKept ==
    ASSUME HubInv, NEW c \in Connections, Frame(c), registry' = registry,
           pc[c] \in Releasing <=> pc'[c] \in Releasing
    PROVE  OnlineDevices' = OnlineDevices
  <1>1. \A x \in Connections : pc'[x] \in Releasing <=> pc[x] \in Releasing
    BY DEF Frame
  <1>2. {x \in Connections : pc'[x] \in Releasing} = {x \in Connections : pc[x] \in Releasing}
    BY <1>1
  <1>3. RegisteredDevices' = RegisteredDevices
    BY DEF RegisteredDevices
  <1>4. QED
    BY <1>2, <1>3 DEF OnlineDevices

\* Whatever a handler saves is one of the room's requests, of an online device.
LEMMA SaveRefines ==
    ASSUME Serial, HubInv, SerialInv, NEW c \in Connections, Save(c), InRoomBounds'
    PROVE  RoomStep
  <1> DEFINE r == request[c]
             d == DeviceOf[c]
  <1>1. /\ d \in Devices /\ d \in OnlineDevices
        /\ OnlineDevices' = OnlineDevices
    <2>1. d \in Devices /\ registry[d] = c
      BY DeviceOfAssumption DEF Save, Saves, SerialInv, SerialOK
    <2>2. d \in RegisteredDevices
      BY <2>1, NoClientAssumption DEF RegisteredDevices
    <2>3. Frame(c) /\ registry' = registry
      BY StepFrame DEF HandlerStep, Save
    <2>4. pc[c] \notin Releasing /\ pc'[c] \notin Releasing
      BY GotoLabel DEF Save, Saves, Releasing
    <2>5. QED
      BY <2>1, <2>2, <2>3, <2>4, OnlineKept DEF OnlineDevices
  <1>2. PICK elapsed \in BOOLEAN : current[c] = AsOfNow(shared, elapsed)
    BY DEF Save, Saves, SerialInv, SerialOK
  <1> DEFINE now == AsOfNow(shared, elapsed)
  <1>3. now = current[c] /\ now = Room!AsOfNow(shared, elapsed)
    BY <1>2, RoomRequests
  <1>4. shared' = NextShared(c) /\ Accepted(c) /\ Room!InBounds(shared')
    BY DEF Save, Saves, SerialInv, SerialOK, InRoomBounds, Room!InBounds
  <1>5. /\ r \in Request
        /\ r.type \in {"command", "report"}
        /\ r.type = "command" => r.command \in HubCommands
    <2>1. HandlerOK(pc[c], r, current[c], outgoing[c]) /\ r \in Request
      BY InvParts, HandlerFields DEF HandlersOK
    <2>2. QED
      BY <2>1 DEF HandlerOK, Save, Saves, Request, NoRequest
  <1>6. \A cmd \in Command : cmd.op \notin {"transferPlayback", "play", "report"}
    BY DEF Command
  <1> HIDE DEF now
  <1>7. CASE Op(c) = "report"
    <2>1. r.type = "report"
      BY <1>5, <1>6, <1>7, CommandsAssumption DEF Op, HubCommands
    <2>2. r.report \in Reports
      BY <1>5, <2>1 DEF Request, NoRequest
    <2>3. ReportAccepted(now, r.report, d) /\ shared' = AfterReport(now, r.report, d)
      BY <1>3, <1>4, <1>7 DEF Accepted, NextShared
    <2> DEFINE report == r.report
    <2>4. Room!PlaybackReport(d, report, elapsed)
      <3> HIDE DEF report
      <3>1. /\ Room!ReportAccepted(now, report, d) <=> ReportAccepted(now, report, d)
            /\ Room!AfterReport(now, report, d) = AfterReport(now, report, d)
        BY RoomRequests
      <3>2. /\ Room!ReportAccepted(now, report, d)
            /\ shared' = Room!AfterReport(now, report, d)
        BY <2>3, <3>1 DEF report
      <3>3. QED
        BY <1>1, <1>3, <3>2 DEF Room!PlaybackReport
    <2>5. QED
      BY <1>1, <2>2, <2>4 DEF RoomStep, Room!Next
  <1>8. CASE Op(c) = "play"
    <2>1. pc[c] = "reduce" /\ now.active = NoDevice
      BY <1>3, <1>8, InvParts DEF Save, Saves, HandlersOK, HandlerOK, Op
    <2>2. shared' = AfterControl(now, d)
      BY <1>3, <1>4, <1>8 DEF NextShared
    <2>3. Room!ControlCommand(d, elapsed)
      BY <1>1, <1>3, <1>4, <2>1, <2>2, RoomRequests DEF Room!ControlCommand
    <2>4. QED
      BY <1>1, <2>3 DEF RoomStep, Room!Next
  <1>9. CASE Op(c) = "transferPlayback"
    <2>1. r.type = "command" /\ r.command.op = "transferPlayback"
      BY <1>9 DEF Op
    <2> DEFINE target == r.command.target
    <2>2. target \in Devices
      BY <1>5, <1>6, <2>1, CommandsAssumption DEF HubCommands
    <2>3. target \in OnlineDevices /\ TransferAccepted(now, target)
      BY <1>3, <1>4, <1>9, <2>2 DEF Accepted, OnlineDevices, RegisteredDevices
    <2>4. shared' = AfterTransfer(now, target)
      BY <1>3, <1>4, <1>9 DEF NextShared
    <2> HIDE DEF target
    <2>5. Room!TransferPlayback(d, target, elapsed)
      BY <1>1, <1>3, <1>4, <2>3, <2>4, RoomRequests DEF Room!TransferPlayback
    <2>6. QED
      BY <1>1, <2>2, <2>5 DEF RoomStep, Room!Next
  <1>10. CASE Op(c) \notin {"report", "play", "transferPlayback"}
    <2>1. r.type = "command" /\ r.command.op \notin {"play", "transferPlayback"}
      BY <1>5, <1>10 DEF Op
    <2>2. r.command \in Commands
      BY <1>5, <2>1 DEF HubCommands
    <2>3. Accepts(now.state, r.command) /\ shared' = AfterCommand(now, r.command, d)
      BY <1>3, <1>4, <1>10 DEF Accepted, NextShared
    <2>4. Room!QueueCommand(d, r.command, elapsed)
      BY <1>1, <1>3, <1>4, <2>3, RoomRequests DEF Room!QueueCommand
    <2>5. QED
      BY <1>1, <2>2, <2>4 DEF RoomStep, Room!Next
  <1>11. QED
    BY <1>7, <1>8, <1>9, <1>10

\* The disconnect takes effect where the freeze finds the room or saves it.
LEMMA ReleaseRefines ==
    ASSUME Serial, HubInv, SerialInv, NEW c \in Connections,
           Remove(c) \/ CheckOffline(c) \/ FreezeRead(c) \/ FreezeSave(c), InRoomBounds'
    PROVE  RoomStep
  <1> DEFINE d == DeviceOf[c]
  <1>0. d \in Devices /\ TableTyped
    BY DeviceOfAssumption, InvParts
  <1>1. Frame(c) /\ \A x \in Connections \ {c} : ~Busy(x)
    <2>1. HandlerStep(c)
      BY DEF HandlerStep
    <2>2. QED
      BY <2>1, StepFrame, OthersRest DEF SerialInv
  <1>2. \A x \in Connections \ {c} : pc[x] \notin Releasing /\ pc'[x] \notin Releasing
    BY <1>1 DEF Frame, Busy, Idle, Releasing
  <1>3. OnlineDevices = RegisteredDevices \cup (IF pc[c] \in Releasing THEN {d} ELSE {})
    BY <1>2 DEF OnlineDevices
  <1>4. OnlineDevices' = RegisteredDevices' \cup (IF pc'[c] \in Releasing THEN {d} ELSE {})
    BY <1>2 DEF OnlineDevices
  <1>5. CASE Remove(c)
    <2>1. registry' = WithoutClient(c) /\ shared' = shared
      BY <1>5 DEF Remove
    <2>2. CASE registry[d] = c
      <3>1. pc'[c] \in Releasing /\ d \in RegisteredDevices /\ pc[c] \notin Releasing
        <4>1. pc'[c] = "offline" /\ pc[c] = "unregister"
          BY <1>5, <2>2, GotoLabel DEF Remove
        <4>2. QED
          BY <1>0, <2>2, <4>1, NoClientAssumption DEF Releasing, RegisteredDevices
      <3>2. RegisteredDevices' = RegisteredDevices \ {d}
        BY <1>0, <2>1, <2>2 DEF WithoutClient, RegisteredDevices, TableTyped
      <3>3. QED
        BY <1>3, <1>4, <2>1, <3>1, <3>2 DEF RoomStep
    <2>3. CASE registry[d] # c
      <3>1. registry' = registry
        BY <1>0, <2>1, <2>3 DEF WithoutClient, TableTyped
      <3>2. pc'[c] = "gone" /\ pc[c] = "unregister"
        BY <1>5, <2>3, GotoLabel DEF Remove
      <3>3. OnlineDevices' = OnlineDevices
        BY <1>1, <3>1, <3>2, OnlineKept DEF Releasing
      <3>4. QED
        BY <2>1, <3>3 DEF RoomStep
    <2>4. QED
      BY <2>2, <2>3
  <1>6. CASE CheckOffline(c)
    <2>1. pc[c] = "offline" /\ pc'[c] = "freezeRead"
      BY <1>6, GotoLabel DEF CheckOffline, SerialInv, SerialOK, Releasing
    <2>2. OnlineDevices' = OnlineDevices
      BY <1>1, <1>6, <2>1, OnlineKept DEF CheckOffline, Releasing
    <2>3. QED
      BY <1>6, <2>2 DEF CheckOffline, RoomStep
  <1>7. ASSUME pc[c] \in Releasing, pc'[c] \notin Releasing, registry' = registry
        PROVE  d \in OnlineDevices /\ OnlineDevices' = OnlineDevices \ {d}
    <2>1. registry[d] = NoClient
      BY <1>7 DEF SerialInv, SerialOK
    <2>2. d \notin RegisteredDevices /\ RegisteredDevices' = RegisteredDevices
      BY <1>7, <2>1 DEF RegisteredDevices
    <2>3. QED
      BY <1>3, <1>4, <1>7, <2>2
  <1>8. CASE FreezeRead(c)
    <2>1. shared' = shared /\ registry' = registry /\ pc[c] \in Releasing
      BY <1>8 DEF FreezeRead, Releasing
    <2>2. CASE shared.active = d
      <3>1. pc'[c] = "freezeSave"
        BY <1>8, <2>2, GotoLabel DEF FreezeRead
      <3>2. OnlineDevices' = OnlineDevices
        BY <1>1, <2>1, <3>1, OnlineKept DEF Releasing
      <3>3. QED
        BY <2>1, <3>2 DEF RoomStep
    <2>3. CASE shared.active # d
      <3>1. pc'[c] = "leaving"
        BY <1>8, <2>3, GotoLabel DEF FreezeRead
      <3>2. d \in OnlineDevices /\ OnlineDevices' = OnlineDevices \ {d}
        BY <1>7, <2>1, <3>1 DEF Releasing
      <3>3. Room!InBounds(shared')
        BY DEF InRoomBounds, Room!InBounds
      <3>4. Room!Unregister(d, FALSE)
        BY <2>1, <2>3, <3>2, <3>3 DEF Room!Unregister
      <3>5. QED
        BY <1>0, <3>4 DEF RoomStep, Room!Next
    <2>4. QED
      BY <2>2, <2>3
  <1>9. CASE FreezeSave(c)
    <2>1. PICK elapsed \in BOOLEAN : current[c] = AsOfNow(shared, elapsed)
      BY <1>9 DEF FreezeSave, SerialInv, SerialOK
    <2>2. shared' = Room!AfterFreeze(Room!AsOfNow(shared, elapsed))
      BY <1>9, <2>1, RoomRequests DEF FreezeSave
    <2>3. shared.active = d
      BY <1>9 DEF FreezeSave, SerialInv, SerialOK
    <2>4. pc[c] = "freezeSave" /\ pc'[c] = "announce" /\ registry' = registry
      BY <1>9, GotoLabel DEF FreezeSave
    <2>5. d \in OnlineDevices /\ OnlineDevices' = OnlineDevices \ {d}
      BY <1>7, <2>4 DEF Releasing
    <2>6. Room!InBounds(shared')
      BY DEF InRoomBounds, Room!InBounds
    <2>7. Room!Unregister(d, elapsed)
      BY <2>2, <2>3, <2>5, <2>6 DEF Room!Unregister
    <2>8. QED
      BY <1>0, <2>7 DEF RoomStep, Room!Next
  <1>10. QED
    BY <1>5, <1>6, <1>8, <1>9

\* Register takes effect where the client enters the table.
LEMMA InstallRefines ==
    ASSUME HubInv, NEW c \in Connections, Install(c)
    PROVE  RoomStep
  <1> DEFINE d == DeviceOf[c]
  <1>1. d \in Devices /\ TableTyped /\ HandlersTyped
    BY DeviceOfAssumption, InvParts
  <1>2. Frame(c)
    BY StepFrame DEF Entering
  <1>3. pc[c] = "absent" /\ pc'[c] = "arriving"
    BY GotoLabel DEF Install
  <1>4. \A x \in Connections : pc'[x] \in Releasing <=> pc[x] \in Releasing
    BY <1>2, <1>3 DEF Frame, Releasing
  <1>5. {x \in Connections : pc'[x] \in Releasing} = {x \in Connections : pc[x] \in Releasing}
    BY <1>4
  <1>6. RegisteredDevices' = RegisteredDevices \cup {d}
    BY <1>1, NoClientAssumption DEF Install, RegisteredDevices, TableTyped
  <1>7. OnlineDevices' = OnlineDevices \cup {d}
    BY <1>5, <1>6 DEF OnlineDevices
  <1>8. Room!Register(d)
    BY <1>7 DEF Room!Register, Install
  <1>9. QED
    BY <1>1, <1>8 DEF RoomStep, Room!Next

\* Everything else is invisible to the room.
LEMMA RestStutters ==
    ASSUME Serial, HubInv, NEW c \in Connections,
           \/ Receive(c) \/ Disconnect(c) \/ Read(c) \/ CheckTarget(c)
           \/ SnapshotRead(c) \/ SnapshotSend(c) \/ BroadcastPresence(c)
           \/ \E to \in Connections : Send(c, to) \/ SendToClosed(c, to)
           \/ Sent(c) \/ Reject(c) \/ PlayOnActive(c) \/ Announce(c) \/ Apply(c)
           \/ StoreFails(c)
    PROVE  RoomStep
  <1>1. Frame(c)
    BY StepFrame DEF Entering, HandlerStep
  <1>2. shared' = shared /\ registry' = registry
    <2>1. CASE Receive(c) \/ Disconnect(c) \/ Read(c) \/ CheckTarget(c) \/ StoreFails(c)
      BY <2>1 DEF Receive, Disconnect, Read, CheckTarget, StoreFails
    <2>2. CASE SnapshotRead(c) \/ SnapshotSend(c) \/ BroadcastPresence(c) \/ Apply(c)
      BY <2>2 DEF SnapshotRead, SnapshotSend, BroadcastPresence, Apply
    <2>3. CASE \/ \E to \in Connections : Send(c, to) \/ SendToClosed(c, to)
               \/ Sent(c) \/ Reject(c) \/ PlayOnActive(c) \/ Announce(c)
      BY <2>3 DEF Send, SendToClosed, Sent, Reject, PlayOnActive, Announce
    <2>4. QED
      BY <2>1, <2>2, <2>3
  <1>3. pc[c] \notin Releasing
    <2>1. CASE Receive(c) \/ Disconnect(c) \/ Read(c) \/ CheckTarget(c) \/ StoreFails(c)
      BY <2>1 DEF Receive, Disconnect, Read, CheckTarget, StoreFails, Releasing, Serial
    <2>2. CASE SnapshotRead(c) \/ SnapshotSend(c) \/ BroadcastPresence(c) \/ Apply(c)
      BY <2>2 DEF SnapshotRead, SnapshotSend, BroadcastPresence, Apply, Releasing
    <2>3. CASE \/ \E to \in Connections : Send(c, to) \/ SendToClosed(c, to)
               \/ Sent(c) \/ Reject(c) \/ PlayOnActive(c) \/ Announce(c)
      BY <2>3 DEF Send, SendToClosed, Sent, Reject, PlayOnActive, Announce, Releasing
    <2>4. QED
      BY <2>1, <2>2, <2>3
  <1>4. pc'[c] \notin Releasing
    <2>1. CASE Receive(c) \/ Read(c) \/ CheckTarget(c)
      BY <2>1, GotoLabel DEF Receive, Read, CheckTarget, Releasing
    <2>2. QED
      BY <2>1, CarefreeStep
  <1>5. OnlineDevices' = OnlineDevices
    BY <1>1, <1>2, <1>3, <1>4, OnlineKept
  <1>6. QED
    BY <1>2, <1>5 DEF RoomStep

LEMMA NextRefines ==
    ASSUME Serial, HubInv, SerialInv, [Next]_vars, InRoomBounds'
    PROVE  RoomStep
  <1>1. CASE UNCHANGED vars
    BY <1>1 DEF vars, RoomStep, OnlineDevices, RegisteredDevices
  <1>2. ASSUME NEW c \in Connections, Deliver(c) PROVE RoomStep
    BY <1>2 DEF Deliver, RoomStep, OnlineDevices, RegisteredDevices
  <1>3. ASSUME NEW c \in Connections, Entering(c) \/ HandlerStep(c) PROVE RoomStep
    BY <1>3, InstallRefines, SaveRefines, ReleaseRefines, RestStutters DEF Entering, HandlerStep
  <1>4. QED
    BY <1>1, <1>2, <1>3 DEF Next, Entering

LEMMA InitRefines == Init => Room!Init
  <1>1. ASSUME Init PROVE OnlineDevices = {}
    BY <1>1 DEF Init, OnlineDevices, RegisteredDevices, Releasing
  <1>2. Room!NoShared = NoShared
    BY DEF Room!NoShared, NoShared, Room!EmptyPlaybackState, EmptyPlaybackState,
           Room!NoIndex, NoIndex, Room!AtStart, AtStart, Room!EmptyMap, EmptyMap
  <1>3. QED
    BY <1>1, <1>2 DEF Init, Room!Init

\* One handler at a time, each request and each disconnect, of however many
\* steps, is one atomic step of SharedPlayback: nothing it read is stale when it
\* saves.  So the theorems about SharedPlayback hold of a hub that would take
\* handlers one by one; what interleaving adds is what the runs look for.
THEOREM SerialHubIsRoom ==
    ASSUME Serial
    PROVE  Spec /\ []InRoomBounds => RoomSpec
  <1>1. Init => HubInv /\ SerialInv
    BY InitHub, SerialInit
  <1>2. HubInv /\ SerialInv /\ [Next]_vars => HubInv' /\ SerialInv'
    BY NextKeeps, SerialKeeps
  <1>3. HubInv /\ SerialInv /\ [Next]_vars /\ InRoomBounds' => [Room!Next]_Room!vars
    BY NextRefines DEF RoomStep, Room!vars
  <1>4. QED
    BY <1>1, <1>2, <1>3, InitRefines, PTL DEF Spec, RoomSpec, Room!Spec

\* A command that names a base is saved over that state, by a serial hub.
THEOREM SerialCommandsMeetTheirBase ==
    ASSUME Serial
    PROVE  Spec => CommandsMeetTheirBase
  <1>1. ASSUME HubInv, SerialInv, NEW c \in Connections, Save(c),
               request[c].type = "command", request[c].base # NoBase
        PROVE  shared.seq = request[c].base
    <2>1. /\ Accepted(c)
          /\ \E elapsed \in BOOLEAN : current[c] = AsOfNow(shared, elapsed)
      BY <1>1 DEF Save, Saves, SerialInv, SerialOK
    <2>2. current[c].seq = shared.seq
      BY <1>1, <2>1, AsOfNowSound DEF HubInv, TypeOK
    <2>3. request[c].command \in HubCommands
      <3>1. request[c] \in Request
        BY <1>1, InvParts, HandlerFields
      <3>2. QED
        BY <1>1, <3>1 DEF Request, NoRequest
    <2>4. request[c].command.op # "report"
      BY <2>3, CommandsAssumption DEF HubCommands, Command
    <2>5. ~Stale(c)
      BY <1>1, <2>1, <2>4 DEF Accepted, Op
    <2>6. QED
      BY <1>1, <2>2, <2>5 DEF Stale
  <1>2. HubInv /\ SerialInv /\ [Next]_vars =>
            [\A c \in Connections :
                /\ Save(c)
                /\ request[c].type = "command"
                /\ request[c].base # NoBase
                => shared.seq = request[c].base]_vars
    BY <1>1
  <1>3. Init => HubInv /\ SerialInv
    BY InitHub, SerialInit
  <1>4. HubInv /\ SerialInv /\ [Next]_vars => HubInv' /\ SerialInv'
    BY NextKeeps, SerialKeeps
  <1>5. QED
    BY <1>2, <1>3, <1>4, PTL DEF Spec, CommandsMeetTheirBase

-----------------------------------------------------------------------------
(* What the clients of a serial hub hold.                                  *)

Shareds(box) == {i \in DOMAIN box : box[i].kind = "shared"}

\* The last state under way to a client, or else the one it holds, is the room's.
UpToDate(box, held, sh) ==
    \/ Shareds(box) = {} /\ held # NoClient /\ SamePlayback(held, sh)
    \/ \E i \in Shareds(box) : /\ \A j \in Shareds(box) : j <= i
                               /\ SamePlayback(box[i].shared, sh)

Greeted(box, held) == held # NoClient \/ Shareds(box) # {}

\* No state is ahead of the room's, the first one is the snapshot, and a device
\* is told to play after the state it is to play from.
BoxOK(box, held, sh) ==
    /\ held # NoClient => held.seq <= sh.seq
    /\ \A i \in Shareds(box) : box[i].shared.seq <= sh.seq
    /\ held = NoClient => \A i \in Shareds(box) :
          box[i].reason = "snapshot" \/ \E j \in Shareds(box) : j < i
    /\ \A i \in DOMAIN box : box[i].kind = "apply" =>
          \/ held # NoClient /\ held.seq >= box[i].seq
          \/ \E j \in Shareds(box) : j < i /\ box[j].shared.seq >= box[i].seq

\* The messages that may be sent.
Sendable(message, box, held, sh) ==
    /\ message.kind = "shared" =>
          /\ SamePlayback(message.shared, sh)
          /\ message.reason = "snapshot" \/ Greeted(box, held)
    /\ message.kind = "apply" => message.seq = sh.seq /\ UpToDate(box, held, sh)

LEMMA MessageFields ==
    ASSUME NEW m \in Message
    PROVE  /\ m.kind = "shared" => m.shared \in SharedState
           /\ m.kind = "apply" => m.seq \in Nat
  BY DEF Message, Presence, Error

LEMMA SameSeq ==
    ASSUME NEW a \in SharedState, NEW b \in SharedState, SamePlayback(a, b)
    PROVE  a.seq = b.seq
  <1>1. [a EXCEPT !.state.position = AtStart].seq = a.seq
    BY DEF SharedState
  <1>2. [b EXCEPT !.state.position = AtStart].seq = b.seq
    BY DEF SharedState
  <1>3. QED
    BY <1>1, <1>2 DEF SamePlayback

\* The state as of now is the stored one but for the position.
LEMMA SameAsOfNow ==
    ASSUME NEW sh \in SharedState, NEW elapsed
    PROVE  SamePlayback(AsOfNow(sh, elapsed), sh)
  BY DEF SamePlayback, AsOfNow, SharedState, PlaybackState

\* Appending a message that may be sent.
LEMMA AppendKeeps ==
    ASSUME NEW box \in Seq(Message), NEW held \in SharedState \cup {NoClient},
           NEW sh \in SharedState, NEW m \in Message,
           BoxOK(box, held, sh), Sendable(m, box, held, sh)
    PROVE  LET new == Append(box, m)
           IN  /\ new \in Seq(Message)
               /\ BoxOK(new, held, sh)
               /\ Greeted(box, held) \/ m.kind = "shared" => Greeted(new, held)
               /\ UpToDate(box, held, sh) \/ m.kind = "shared" => UpToDate(new, held, sh)
  <1> DEFINE new == Append(box, m)
             n == Len(box)
  <1>1. /\ new \in Seq(Message) /\ n \in Nat
        /\ DOMAIN box = 1 .. n /\ DOMAIN new = 1 .. n + 1
        /\ new[n + 1] = m /\ \A i \in 1 .. n : new[i] = box[i]
    OBVIOUS
  <1> HIDE DEF new, n
  <1>2. Shareds(box) \subseteq 1 .. n
    BY <1>1 DEF Shareds
  <1>3. Shareds(new) = Shareds(box) \cup (IF m.kind = "shared" THEN {n + 1} ELSE {})
    BY <1>1 DEF Shareds
  <1>4. \A i \in Shareds(box) : new[i] = box[i] /\ i < n + 1
    BY <1>1, <1>2
  <1>5. \A i \in 1 .. n : box[i] \in Message
    BY <1>1, ElementOfSeq DEF n
  <1>6. Greeted(box, held) \/ m.kind = "shared" => Greeted(new, held)
    BY <1>3 DEF Greeted
  <1>7. UpToDate(box, held, sh) \/ m.kind = "shared" => UpToDate(new, held, sh)
    <2>1. CASE m.kind = "shared"
      <3>1. n + 1 \in Shareds(new) /\ \A j \in Shareds(new) : j <= n + 1
        BY <1>1, <1>2, <1>3, <2>1
      <3>2. SamePlayback(new[n + 1].shared, sh)
        BY <1>1, <2>1 DEF Sendable
      <3>3. QED
        BY <3>1, <3>2 DEF UpToDate
    <2>2. CASE m.kind # "shared"
      <3>1. Shareds(new) = Shareds(box)
        BY <1>3, <2>2
      <3>2. QED
        BY <1>4, <2>2, <3>1 DEF UpToDate
    <2>3. QED
      BY <2>1, <2>2
  <1>8. \A i \in Shareds(new) : new[i].shared.seq <= sh.seq
    <2>1. \A i \in Shareds(box) : new[i].shared.seq <= sh.seq
      BY <1>4 DEF BoxOK
    <2>2. m.kind = "shared" => m.shared.seq <= sh.seq
      BY MessageFields, SameSeq DEF Sendable, SharedState
    <2>3. QED
      BY <1>1, <1>3, <2>1, <2>2
  <1>9. held = NoClient => \A i \in Shareds(new) :
            new[i].reason = "snapshot" \/ \E j \in Shareds(new) : j < i
    <2> SUFFICES ASSUME held = NoClient, NEW i \in Shareds(new), new[i].reason # "snapshot"
                 PROVE  \E j \in Shareds(new) : j < i
      OBVIOUS
    <2>1. CASE i \in Shareds(box)
      BY <1>3, <1>4, <2>1 DEF BoxOK
    <2>2. CASE i \notin Shareds(box)
      <3>1. i = n + 1 /\ m.kind = "shared" /\ m.reason # "snapshot"
        BY <1>1, <1>3, <2>2
      <3>2. Shareds(box) # {}
        BY <3>1 DEF Sendable, Greeted
      <3>3. QED
        BY <1>3, <1>4, <3>1, <3>2
    <2>3. QED
      BY <2>1, <2>2
  <1>10. ASSUME NEW i \in DOMAIN new, new[i].kind = "apply"
         PROVE  \/ held # NoClient /\ held.seq >= new[i].seq
                \/ \E j \in Shareds(new) : j < i /\ new[j].shared.seq >= new[i].seq
    <2>1. CASE i \in 1 .. n
      <3>1. \/ held # NoClient /\ held.seq >= box[i].seq
            \/ \E j \in Shareds(box) : j < i /\ box[j].shared.seq >= box[i].seq
        BY <1>1, <1>10, <2>1 DEF BoxOK
      <3>2. QED
        BY <1>1, <1>3, <1>4, <2>1, <3>1
    <2>2. CASE i \notin 1 .. n
      <3>1. i = n + 1 /\ m.kind = "apply" /\ new[i] = m
        BY <1>1, <1>10, <2>2
      <3>2. m.seq = sh.seq /\ UpToDate(box, held, sh) /\ sh.seq \in Nat
        BY <3>1 DEF Sendable, SharedState
      <3>3. CASE held # NoClient /\ SamePlayback(held, sh)
        BY <3>1, <3>2, <3>3, SameSeq
      <3>4. ASSUME NEW j \in Shareds(box), SamePlayback(box[j].shared, sh)
            PROVE  \E k \in Shareds(new) : k < i /\ new[k].shared.seq >= new[i].seq
        <4>1. box[j] \in Message /\ box[j].kind = "shared"
          BY <1>1, <1>5 DEF Shareds
        <4>2. box[j].shared.seq = sh.seq
          BY <3>4, <4>1, MessageFields, SameSeq
        <4>3. QED
          BY <1>3, <1>4, <3>1, <3>2, <4>2
      <3>5. QED
        BY <3>2, <3>3, <3>4 DEF UpToDate
    <2>3. QED
      BY <2>1, <2>2
  <1>11. BoxOK(new, held, sh)
    BY <1>8, <1>9, <1>10 DEF BoxOK
  <1>12. QED
    BY <1>1, <1>6, <1>7, <1>11 DEF new

\* Taking the first message of a channel.
LEMMA DeliverKeepsBox ==
    ASSUME NEW box \in Seq(Message), box # <<>>, NEW held \in SharedState \cup {NoClient},
           NEW sh \in SharedState, BoxOK(box, held, sh)
    PROVE  LET rest == Tail(box)
               now == IF Head(box).kind = "shared" THEN Adopted(held, Head(box).shared)
                      ELSE held
           IN  /\ BoxOK(rest, now, sh)
               /\ Greeted(box, held) => Greeted(rest, now)
               /\ UpToDate(box, held, sh) => UpToDate(rest, now, sh)
  <1> DEFINE rest == Tail(box)
             m == Head(box)
             now == IF m.kind = "shared" THEN Adopted(held, m.shared) ELSE held
             n == Len(box)
  <1>1. /\ n \in Nat \ {0} /\ DOMAIN box = 1 .. n /\ m = box[1]
        /\ DOMAIN rest = 1 .. n - 1 /\ \A i \in 1 .. n - 1 : rest[i] = box[i + 1]
    BY EmptySeq
  <1>2. \A i \in 1 .. n : box[i] \in Message
    BY <1>1, ElementOfSeq
  <1> HIDE DEF rest, m, n
  <1>3. \A i \in Shareds(rest) : i + 1 \in Shareds(box) /\ rest[i] = box[i + 1]
    BY <1>1 DEF Shareds
  <1>4. \A i \in Shareds(box) : i # 1 => i - 1 \in Shareds(rest) /\ rest[i - 1] = box[i]
    BY <1>1 DEF Shareds
  <1>5. 1 \in Shareds(box) <=> m.kind = "shared"
    BY <1>1 DEF Shareds
  <1>6. m.kind = "shared" => m.shared \in SharedState /\ m.shared.seq <= sh.seq
    BY <1>1, <1>2, <1>5, MessageFields DEF BoxOK
  <1>7. Shareds(box) \subseteq Nat /\ Shareds(rest) \subseteq Nat
    BY <1>1 DEF Shareds
  <1>8. /\ m.kind = "shared" => now # NoClient /\ now.seq >= m.shared.seq
        /\ held # NoClient => now # NoClient /\ now.seq >= held.seq
        /\ now # NoClient => now \in SharedState /\ now.seq <= sh.seq
    <2>1. NoClient \notin SharedState
      BY NoClientIsNoState
    <2>2. held # NoClient => held.seq <= sh.seq
      BY DEF BoxOK
    <2>3. \A a \in SharedState : a.seq \in Nat
      BY DEF SharedState
    <2>4. QED
      BY <1>6, <2>1, <2>2, <2>3 DEF Adopted
  <1>9. m.kind # "shared" => now = held
    OBVIOUS
  <1> HIDE DEF now
  <1>10. Greeted(box, held) => Greeted(rest, now)
    BY <1>4, <1>5, <1>8 DEF Greeted
  <1>11. UpToDate(box, held, sh) => UpToDate(rest, now, sh)
    <2>1. CASE Shareds(box) = {} /\ held # NoClient /\ SamePlayback(held, sh)
      <3>1. Shareds(rest) = {} /\ m.kind # "shared"
        BY <1>3, <1>5, <2>1
      <3>2. QED
        BY <1>9, <2>1, <3>1 DEF UpToDate
    <2>2. ASSUME NEW i \in Shareds(box), \A j \in Shareds(box) : j <= i,
                 SamePlayback(box[i].shared, sh)
          PROVE  UpToDate(rest, now, sh)
      <3>1. CASE i = 1
        <4>1. Shareds(rest) = {}
          <5>1. ASSUME NEW j \in Shareds(rest) PROVE FALSE
            <6>1. j \in Nat /\ j # 0 /\ j + 1 <= 1
              BY <1>1, <1>3, <2>2, <3>1, <5>1 DEF Shareds
            <6>2. QED
              BY <6>1
          <5>2. QED
            BY <5>1
        <4>2. m.kind = "shared" /\ SamePlayback(m.shared, sh)
          BY <1>1, <1>5, <2>2, <3>1
        <4>3. m.shared.seq = sh.seq
          BY <1>6, <4>2, SameSeq
        <4>4. held # NoClient => held.seq <= sh.seq /\ held.seq \in Nat
          BY DEF BoxOK, SharedState
        <4>5. now = m.shared
          BY <4>2, <4>3, <4>4 DEF Adopted, SharedState, now
        <4>6. QED
          BY <1>8, <4>1, <4>2, <4>5 DEF UpToDate
      <3>2. CASE i # 1
        <4>1. i - 1 \in Shareds(rest) /\ SamePlayback(rest[i - 1].shared, sh)
          BY <1>4, <2>2, <3>2
        <4>2. \A j \in Shareds(rest) : j <= i - 1
          BY <1>3, <1>7, <2>2
        <4>3. QED
          BY <4>1, <4>2 DEF UpToDate
      <3>3. QED
        BY <3>1, <3>2
    <2>3. QED
      BY <2>1, <2>2 DEF UpToDate
  <1>12. \A i \in Shareds(rest) : rest[i].shared.seq <= sh.seq
    BY <1>3 DEF BoxOK
  <1>13. now = NoClient => \A i \in Shareds(rest) :
             rest[i].reason = "snapshot" \/ \E j \in Shareds(rest) : j < i
    <2> SUFFICES ASSUME now = NoClient, NEW i \in Shareds(rest), rest[i].reason # "snapshot"
                 PROVE  \E j \in Shareds(rest) : j < i
      OBVIOUS
    <2>1. m.kind # "shared" /\ held = NoClient
      BY <1>8
    <2>2. PICK j \in Shareds(box) : j < i + 1
      BY <1>3, <2>1 DEF BoxOK
    <2>3. j # 1
      BY <1>5, <2>1
    <2>4. QED
      BY <1>4, <1>7, <2>2, <2>3
  <1>14. ASSUME NEW i \in DOMAIN rest, rest[i].kind = "apply"
         PROVE  \/ now # NoClient /\ now.seq >= rest[i].seq
                \/ \E j \in Shareds(rest) : j < i /\ rest[j].shared.seq >= rest[i].seq
    <2>1. rest[i] = box[i + 1] /\ i + 1 \in 1 .. n /\ rest[i].seq \in Nat
      <3>1. rest[i] = box[i + 1] /\ i + 1 \in 1 .. n
        BY <1>1
      <3>2. QED
        BY <1>2, <1>14, <3>1, MessageFields
    <2>2. \A a \in SharedState : a.seq \in Nat
      BY DEF SharedState
    <2>3. CASE held # NoClient /\ held.seq >= box[i + 1].seq
      BY <1>8, <2>1, <2>2, <2>3
    <2>4. ASSUME NEW j \in Shareds(box), j < i + 1, box[j].shared.seq >= box[i + 1].seq
          PROVE  \/ now # NoClient /\ now.seq >= rest[i].seq
                 \/ \E k \in Shareds(rest) : k < i /\ rest[k].shared.seq >= rest[i].seq
      <3>1. CASE j = 1
        <4>1. m.kind = "shared" /\ box[j] = m
          BY <1>1, <1>5, <2>4, <3>1
        <4>2. now # NoClient /\ now.seq >= m.shared.seq /\ m.shared.seq >= rest[i].seq
          BY <1>8, <2>1, <2>4, <4>1
        <4>3. now.seq \in Nat /\ m.shared.seq \in Nat
          BY <1>6, <1>8, <2>2, <4>1, <4>2
        <4>4. QED
          BY <2>1, <4>2, <4>3
      <3>2. CASE j # 1
        <4>1. j - 1 \in Shareds(rest) /\ rest[j - 1] = box[j]
          BY <1>4, <2>4, <3>2
        <4>2. j - 1 < i /\ rest[j - 1].shared.seq >= rest[i].seq
          BY <1>1, <1>7, <2>1, <2>4, <4>1
        <4>3. QED
          BY <4>1, <4>2
      <3>3. QED
        BY <3>1, <3>2
    <2>5. \/ held # NoClient /\ held.seq >= box[i + 1].seq
          \/ \E j \in Shareds(box) : j < i + 1 /\ box[j].shared.seq >= box[i + 1].seq
      BY <1>1, <1>14, <2>1 DEF BoxOK
    <2>6. QED
      BY <2>3, <2>4, <2>5
  <1>15. BoxOK(rest, now, sh)
    BY <1>8, <1>12, <1>13, <1>14 DEF BoxOK
  <1>16. QED
    BY <1>10, <1>11, <1>15 DEF rest, m, now

-----------------------------------------------------------------------------
(* The invariant of the clients' views.                                    *)

OnTable == {registry[d] : d \in RegisteredDevices}

\* What a handler carries to the clients is the stored state.
HandsOn(c) ==
    /\ pc[c] \in {"snapshotSend", "announce"} => SamePlayback(current[c], shared)
    /\ pc[c] = "apply" => current[c].seq = shared.seq
    /\ pc[c] = "sending" =>
          LET out == outgoing[c]
          IN  /\ out.to \subseteq OnTable
              /\ out.message.kind = "shared" => SamePlayback(out.message.shared, shared)
              /\ out.message.kind = "apply" => out.message.seq = shared.seq
              /\ out.then = "snapshotRead" => out.message = Presence
              /\ out.then = "apply" => current[c].seq = shared.seq

\* The snapshot is still to come.
Arrives(x) ==
    \/ pc[x] \in {"arriving", "snapshotRead", "snapshotSend"}
    \/ pc[x] = "sending" /\ outgoing[x].then = "snapshotRead"

\* c has still to send x the state it saved.
Announces(c, x) ==
    \/ pc[c] = "announce"
    \/ pc[c] = "sending" /\ x \in outgoing[c].to /\ outgoing[c].message.kind = "shared"

Knows(x) == Greeted(outbox[x], view[x])
InStep(x) == UpToDate(outbox[x], view[x], shared)

ChannelOK(x) == x \notin lost => BoxOK(outbox[x], view[x], shared)

TableOK(x) ==
    \/ x \in lost
    \/ Arrives(x)
    \/ Knows(x) /\ (InStep(x) \/ \E c \in Connections : Announces(c, x))

ViewInv ==
    /\ \A c \in Connections : HandsOn(c) /\ ChannelOK(c)
    /\ \A x \in OnTable : TableOK(x)

\* A step takes nothing back from x: what it knew, and that it was in step.
Holds(x) == x \notin lost' => /\ x \notin lost
                              /\ Knows(x) => Knows(x)'
                              /\ InStep(x) => InStep(x)'

LEMMA ChannelFields ==
    ASSUME HubInv, NEW x \in Connections
    PROVE  /\ outbox[x] \in Seq(Message)
           /\ view[x] \in SharedState \cup {NoClient}
           /\ shared \in SharedState
  BY InvParts DEF ChannelsTyped, ClientsTyped, WellFormedShared

LEMMA TableMembers ==
    ASSUME HubInv
    PROVE  /\ OnTable \subseteq Connections
           /\ \A x \in OnTable : x \notin closed
           /\ \A x \in OnTable : registry[DeviceOf[x]] = x
           /\ \A d \in Devices : registry[d] # NoClient => registry[d] \in OnTable
  <1>1. TableTyped /\ RegistryOK
    BY InvParts
  <1>2. OnTable \subseteq Connections
    BY <1>1, RegisteredAreConnections DEF OnTable
  <1>3. QED
    BY <1>1, <1>2 DEF RegistryOK, OnTable, RegisteredDevices

LEMMA MessageSent ==
    ASSUME HubInv, NEW c \in Connections, pc[c] = "sending"
    PROVE  /\ outgoing[c].message \in Message
           /\ outgoing[c].then \in Returns
           /\ outgoing[c].to \subseteq Connections
  <1>1. outgoing[c] \in Outgoing /\ outgoing[c] # NoOutgoing
    BY InvParts DEF HandlersTyped, HandlersOK, HandlerOK
  <1>2. QED
    BY <1>1 DEF Outgoing

\* A step of a serial hub keeps ViewInv if it takes nothing back, unless what
\* it took is on its way.
LEMMA ViewStep ==
    ASSUME Serial, HubInv, SerialInv, ViewInv, NEW c \in Connections,
           Entering(c) \/ HandlerStep(c), HandsOn(c)',
           \A x \in Connections : ChannelOK(x)',
           OnTable' \subseteq OnTable \cup {c},
           \A x \in OnTable' \cap OnTable : Holds(x),
           c \in OnTable' /\ (c \in OnTable => Arrives(c)) =>
              c \in lost' \/ Arrives(c)' \/ (Knows(c)' /\ InStep(c)'),
           \A x \in OnTable' \cap OnTable :
              Announces(c, x) => Announces(c, x)' \/ x \in lost' \/ InStep(x)'
    PROVE  ViewInv'
  <1>1. \A x \in Connections \ {c} :
            /\ pc'[x] = pc[x] /\ outgoing'[x] = outgoing[x]
            /\ pc[x] \in Idle
    BY StepFrame, OthersRest DEF Frame, SerialInv, Busy
  <1>2. ASSUME NEW x \in Connections PROVE HandsOn(x)'
    <2>1. CASE x # c
      BY <1>1, <2>1 DEF HandsOn, Idle
    <2>2. QED
      BY <2>1
  <1>3. \A x \in Connections \ {c} : ~Arrives(x) /\ \A y \in Connections : ~Announces(x, y)
    BY <1>1 DEF Arrives, Announces, Idle
  <1>4. ASSUME NEW x \in OnTable' PROVE TableOK(x)'
    <2>1. x \in OnTable \/ x = c
      OBVIOUS
    <2>2. CASE x = c /\ (c \in OnTable => Arrives(c))
      BY <2>2 DEF TableOK
    <2>3. CASE x \in OnTable /\ ~Arrives(x)
      <3>1. x \in Connections /\ Holds(x)
        BY <2>3, TableMembers
      <3>2. x \in lost \/ (Knows(x) /\ (InStep(x) \/ Announces(c, x)))
        BY <1>3, <2>3, <3>1 DEF ViewInv, TableOK
      <3>3. Announces(c, x) => Announces(c, x)' \/ x \in lost' \/ InStep(x)'
        BY <2>3
      <3>4. QED
        BY <3>1, <3>2, <3>3 DEF Holds, TableOK
    <2>4. x \in OnTable /\ x # c => ~Arrives(x)
      BY <1>3, TableMembers
    <2>5. QED
      BY <2>1, <2>2, <2>3, <2>4
  <1>5. QED
    BY <1>2, <1>4 DEF ViewInv

\* A step that leaves the table, the channels, the views and the room alone.
LEMMA QuietStep ==
    ASSUME Serial, HubInv, SerialInv, ViewInv, NEW c \in Connections,
           Entering(c) \/ HandlerStep(c), HandsOn(c)',
           UNCHANGED <<shared, registry, outbox, lost, view>>,
           Arrives(c) => Arrives(c)',
           \A x \in OnTable : Announces(c, x) => Announces(c, x)'
    PROVE  ViewInv'
  <1>1. OnTable' = OnTable
    BY DEF OnTable, RegisteredDevices
  <1>2. ASSUME NEW x \in Connections PROVE ChannelOK(x)' /\ Holds(x)
    BY DEF ViewInv, ChannelOK, Holds, Knows, InStep
  <1>3. c \in OnTable' /\ (c \in OnTable => Arrives(c)) =>
            c \in lost' \/ Arrives(c)' \/ (Knows(c)' /\ InStep(c)')
    BY <1>1
  <1>4. \A x \in OnTable : x \in Connections
    BY TableMembers
  <1>5. QED
    BY <1>1, <1>2, <1>3, <1>4, ViewStep

\* A message that finds room is appended.
LEMMA PostAppends ==
    ASSUME HubInv, NEW c \in Connections, NEW messages \in Seq(Message), Post(c, messages)
    PROVE  /\ lost \subseteq lost'
           /\ \A x \in Connections \ {c} : outbox'[x] = outbox[x] /\ (x \in lost' <=> x \in lost)
           /\ c \notin lost' => outbox'[c] = outbox[c] \o messages
  <1> DEFINE all == outbox[c] \o messages
  <1>1. all \in Seq(Message) /\ outbox \in [Connections -> Seq(Message)]
    <2>1. outbox \in [Connections -> Seq(Message)]
      BY InvParts DEF ChannelsTyped
    <2>2. QED
      BY <2>1, ConcatProperties
  <1>2. SubSeq(all, 1, Len(all)) = all
    BY <1>1
  <1>3. c \notin lost' => Len(all) <= Capacity
    BY DEF Post
  <1>4. c \notin lost' => outbox'[c] = all
    BY <1>1, <1>2, <1>3 DEF Post
  <1>5. QED
    BY <1>1, <1>4 DEF Post

\* What a post does to the channels.
LEMMA PostHolds ==
    ASSUME HubInv, ViewInv, NEW c \in Connections, NEW messages \in Seq(Message),
           Post(c, messages), UNCHANGED <<shared, view>>,
           c \notin lost =>
              LET box == outbox[c] \o messages
              IN  /\ BoxOK(box, view[c], shared)
                  /\ Knows(c) => Greeted(box, view[c])
                  /\ InStep(c) => UpToDate(box, view[c], shared)
    PROVE  \A x \in Connections : ChannelOK(x)' /\ Holds(x)
  <1>1. ASSUME NEW x \in Connections, x # c PROVE ChannelOK(x)' /\ Holds(x)
    <2>1. outbox'[x] = outbox[x] /\ (x \in lost' <=> x \in lost)
      BY <1>1, PostAppends
    <2>2. QED
      BY <2>1 DEF ViewInv, ChannelOK, Holds, Knows, InStep
  <1>2. ChannelOK(c)' /\ Holds(c)
    <2>1. /\ lost \subseteq lost'
          /\ c \notin lost' => outbox'[c] = outbox[c] \o messages
      BY PostAppends
    <2> DEFINE box == outbox[c] \o messages
    <2>2. c \notin lost' => outbox'[c] = box /\ c \notin lost
      BY <2>1
    <2>3. c \notin lost => /\ BoxOK(box, view[c], shared)
                           /\ Knows(c) => Greeted(box, view[c])
                           /\ InStep(c) => UpToDate(box, view[c], shared)
      OBVIOUS
    <2> HIDE DEF box
    <2>4. QED
      BY <2>2, <2>3 DEF ChannelOK, Holds, Knows, InStep
  <1>3. QED
    BY <1>1, <1>2

\* One message that may be sent.
LEMMA PostOne ==
    ASSUME HubInv, ViewInv, NEW c \in Connections, NEW m \in Message,
           Post(c, <<m>>), UNCHANGED <<shared, view>>,
           c \notin lost => Sendable(m, outbox[c], view[c], shared)
    PROVE  /\ \A x \in Connections : ChannelOK(x)' /\ Holds(x)
           /\ m.kind = "shared" => c \in lost' \/ (Knows(c)' /\ InStep(c)')
  <1> DEFINE messages == <<m>>
             box == outbox[c]
             new == box \o messages
  <1>1. messages \in Seq(Message) /\ box \in Seq(Message) /\ new = Append(box, m)
    BY ChannelFields
  <1>2. Post(c, messages)
    OBVIOUS
  <1>3. c \notin lost =>
            /\ BoxOK(new, view[c], shared)
            /\ Greeted(box, view[c]) \/ m.kind = "shared" => Greeted(new, view[c])
            /\ UpToDate(box, view[c], shared) \/ m.kind = "shared" => UpToDate(new, view[c], shared)
    <2> HIDE DEF messages
    <2>1. SUFFICES ASSUME c \notin lost
                   PROVE  LET a == Append(box, m)
                          IN  /\ BoxOK(a, view[c], shared)
                              /\ Greeted(box, view[c]) \/ m.kind = "shared" => Greeted(a, view[c])
                              /\ UpToDate(box, view[c], shared) \/ m.kind = "shared"
                                    => UpToDate(a, view[c], shared)
      BY <1>1
    <2>2. BoxOK(box, view[c], shared) /\ Sendable(m, box, view[c], shared)
      BY <2>1 DEF ViewInv, ChannelOK
    <2> HIDE DEF box, new
    <2>3. box \in Seq(Message)
      BY <1>1
    <2>4. QED
      BY <2>2, <2>3, AppendKeeps, ChannelFields
  <1>4. c \notin lost' => outbox'[c] = new /\ c \notin lost
    <2> HIDE DEF messages
    <2>1. QED
      BY <1>1, <1>2, PostAppends
  <1> HIDE DEF messages
  <1>5. \A x \in Connections : ChannelOK(x)' /\ Holds(x)
    BY <1>1, <1>2, <1>3, PostHolds DEF Knows, InStep
  <1> HIDE DEF new
  <1>6. m.kind = "shared" => c \in lost' \/ (Knows(c)' /\ InStep(c)')
    BY <1>3, <1>4 DEF Knows, InStep
  <1>7. QED
    BY <1>5, <1>6

\* Steps of a handler that send nothing and save nothing.
LEMMA QuietViews ==
    ASSUME Serial, HubInv, SerialInv, ViewInv, NEW c \in Connections,
           \/ Receive(c) \/ Disconnect(c) \/ SnapshotRead(c) \/ Sent(c) \/ Read(c)
           \/ CheckTarget(c) \/ PlayOnActive(c) \/ CheckOffline(c) \/ FreezeRead(c)
    PROVE  ViewInv'
  <1>1. HandlersTyped /\ HandsOn(c)
    BY InvParts DEF ViewInv
  <1>2. ASSUME pc'[c] \notin {"snapshotSend", "announce", "apply", "sending"},
               ~Arrives(c), \A x \in OnTable : ~Announces(c, x),
               Entering(c) \/ HandlerStep(c),
               UNCHANGED <<shared, registry, outbox, lost, view>>
        PROVE  ViewInv'
    <2>1. HandsOn(c)'
      BY <1>2 DEF HandsOn
    <2>2. QED
      BY <1>2, <2>1, QuietStep
  <1>3. CASE Receive(c) \/ Disconnect(c)
    <2>1. pc[c] = "serving" /\ pc'[c] \in {"greeting", "read", "unregister"}
      BY <1>3, GotoLabel DEF Receive, Disconnect
    <2>2. UNCHANGED <<shared, registry, outbox, lost, view>> /\ Entering(c)
      BY <1>3 DEF Receive, Disconnect, Entering
    <2>3. QED
      BY <1>2, <2>1, <2>2 DEF Arrives, Announces
  <1>4. CASE Read(c) \/ CheckTarget(c) \/ CheckOffline(c)
    <2>1. /\ pc[c] \in {"read", "reduce", "offline"}
          /\ pc'[c] \in {"reduce", "save", "freezeRead", "leaving"}
      BY <1>4, GotoLabel DEF Read, CheckTarget, CheckOffline
    <2>2. UNCHANGED <<shared, registry, outbox, lost, view>> /\ HandlerStep(c)
      BY <1>4 DEF Read, CheckTarget, CheckOffline, HandlerStep
    <2>3. QED
      BY <1>2, <2>1, <2>2 DEF Arrives, Announces
  <1>5. CASE FreezeRead(c)
    <2>1. pc[c] = "freezeRead" /\ pc'[c] \in {"freezeSave", "leaving"}
      BY <1>5, GotoLabel DEF FreezeRead
    <2>2. UNCHANGED <<shared, registry, outbox, lost, view>> /\ HandlerStep(c)
      BY <1>5 DEF FreezeRead, HandlerStep
    <2>3. QED
      BY <1>2, <2>1, <2>2 DEF Arrives, Announces
  <1>6. CASE SnapshotRead(c)
    <2>1. pc[c] = "snapshotRead" /\ pc'[c] = "snapshotSend"
      BY <1>6, GotoLabel DEF SnapshotRead
    <2>2. UNCHANGED <<shared, registry, outbox, lost, view>> /\ HandlerStep(c)
      BY <1>6 DEF SnapshotRead, HandlerStep
    <2>3. PICK elapsed \in BOOLEAN : current'[c] = AsOfNow(shared, elapsed)
      BY <1>1, <1>6 DEF SnapshotRead, ReadShared, HandlersTyped
    <2>4. SamePlayback(current'[c], shared')
      BY <2>2, <2>3, ChannelFields, SameAsOfNow
    <2>5. HandsOn(c)'
      BY <2>1, <2>4 DEF HandsOn, SamePlayback
    <2>6. QED
      BY <2>1, <2>2, <2>5, QuietStep DEF Arrives, Announces
  <1>7. CASE PlayOnActive(c)
    <2>1. pc[c] = "reduce" /\ pc'[c] = "apply" /\ current' = current
      BY <1>7, GotoLabel DEF PlayOnActive
    <2>2. UNCHANGED <<shared, registry, outbox, lost, view>> /\ HandlerStep(c)
      BY <1>7 DEF PlayOnActive, HandlerStep
    <2>3. current[c].seq = shared.seq
      BY <2>1, AsOfNowSound DEF SerialInv, SerialOK, HubInv, TypeOK
    <2>4. HandsOn(c)'
      BY <2>1, <2>2, <2>3 DEF HandsOn
    <2>5. QED
      BY <2>1, <2>2, <2>4, QuietStep DEF Arrives, Announces
  <1>8. CASE Sent(c)
    <2>1. pc[c] = "sending" /\ outgoing[c].to = {} /\ outgoing[c].then \in Returns
      BY <1>8, MessageSent DEF Sent
    <2>2. /\ pc'[c] = outgoing[c].then
          /\ outgoing[c].then = "apply" => current' = current
      BY <1>8, GotoLabel, DoneServes DEF Sent
    <2>3. UNCHANGED <<shared, registry, outbox, lost, view>> /\ HandlerStep(c)
      BY <1>8 DEF Sent, HandlerStep
    <2>4. HandsOn(c)'
      BY <1>1, <2>1, <2>2, <2>3 DEF HandsOn, Returns
    <2>5. Arrives(c) => Arrives(c)'
      BY <2>1, <2>2 DEF Arrives
    <2>6. \A x \in OnTable : ~Announces(c, x)
      BY <2>1 DEF Announces
    <2>7. QED
      BY <2>3, <2>4, <2>5, <2>6, QuietStep
  <1>9. QED
    BY <1>3, <1>4, <1>5, <1>6, <1>7, <1>8

\* Starting to send.
LEMMA BroadcastViews ==
    ASSUME Serial, HubInv, SerialInv, ViewInv, NEW c \in Connections,
           BroadcastPresence(c) \/ Announce(c)
    PROVE  ViewInv'
  <1>1. HandlersTyped /\ HandsOn(c)
    BY InvParts DEF ViewInv
  <1>2. OnTable' = OnTable
    BY DEF BroadcastPresence, Announce, OnTable, RegisteredDevices
  <1>3. /\ UNCHANGED <<shared, registry, outbox, lost, view>> /\ HandlerStep(c)
        /\ current' = current /\ pc'[c] = "sending"
    BY GotoLabel DEF BroadcastPresence, Announce, Broadcast, HandlerStep
  <1>4. CASE BroadcastPresence(c)
    <2>1. outgoing'[c] = [message |-> Presence, then |-> AfterPresence(pc[c]), to |-> OnTable]
      BY <1>1, <1>4 DEF BroadcastPresence, Broadcast, HandlersTyped, OnTable
    <2>2. pc[c] \in {"arriving", "greeting", "leaving"}
      BY <1>4 DEF BroadcastPresence
    <2>3. /\ AfterPresence(pc[c]) # "apply"
          /\ pc[c] = "arriving" => AfterPresence(pc[c]) = "snapshotRead"
      BY <2>2 DEF AfterPresence
    <2>4. HandsOn(c)'
      BY <1>2, <1>3, <2>1, <2>3 DEF HandsOn, Presence
    <2>5. Arrives(c) => Arrives(c)'
      BY <1>3, <2>1, <2>2, <2>3 DEF Arrives
    <2>6. \A x \in OnTable : ~Announces(c, x)
      BY <2>2 DEF Announces
    <2>7. QED
      BY <1>3, <2>4, <2>5, <2>6, QuietStep
  <1>5. CASE Announce(c)
    <2> DEFINE then == IF request[c] = NoRequest THEN "leaving"
                       ELSE IF Applies(c) THEN "apply" ELSE "serving"
               message == SharedMessage(current[c], "update")
    <2>1. outgoing'[c] = [message |-> message, then |-> then, to |-> OnTable]
      BY <1>1, <1>5 DEF Announce, Broadcast, HandlersTyped, OnTable
    <2>2. pc[c] = "announce" /\ then # "snapshotRead"
      BY <1>5 DEF Announce
    <2> HIDE DEF then
    <2>3. SamePlayback(current[c], shared) /\ current[c] \in SharedState
      BY <1>1, <2>2, InvParts DEF HandsOn, HandlersOK, HandlerOK, WellFormedShared
    <2>4. current[c].seq = shared.seq
      BY <2>3, SameSeq, ChannelFields
    <2>5. message.kind = "shared" /\ message.shared = current[c]
      BY DEF SharedMessage
    <2> HIDE DEF message
    <2>6. HandsOn(c)'
      <3> DEFINE out == outgoing'[c]
      <3>1. out.to = OnTable /\ out.message = message /\ out.then = then
        BY <2>1
      <3> HIDE DEF out
      <3>2. SamePlayback(out.message.shared, shared')
        BY <1>3, <2>3, <2>5, <3>1
      <3>3. QED
        BY <1>2, <1>3, <2>2, <2>4, <2>5, <3>1, <3>2 DEF HandsOn, out
    <2>7. ~Arrives(c) /\ \A x \in OnTable : Announces(c, x)'
      BY <1>3, <2>1, <2>2, <2>5 DEF Arrives, Announces
    <2>8. QED
      BY <1>3, <2>6, <2>7, QuietStep
  <1>6. QED
    BY <1>4, <1>5

\* Sending to one of the recipients.
LEMMA SendViews ==
    ASSUME Serial, HubInv, SerialInv, ViewInv, NEW c \in Connections,
           NEW to \in Connections, Send(c, to)
    PROVE  ViewInv'
  <1> DEFINE out == outgoing[c]
             m == out.message
  <1>1. HandlersTyped /\ HandsOn(c)
    BY InvParts DEF ViewInv
  <1>2. /\ pc[c] = "sending" /\ to \in out.to /\ Post(to, <<m>>)
        /\ UNCHANGED <<shared, registry, view, pc, current>>
        /\ HandlerStep(c)
    BY DEF Send, HandlerStep
  <1>3. outgoing'[c] = [out EXCEPT !.to = @ \ {to}] /\ out # NoOutgoing /\ out \in Outgoing
    BY <1>1, InvParts DEF Send, HandlersTyped, HandlersOK, HandlerOK
  <1>4. m \in Message /\ out.then \in Returns
    BY <1>2, MessageSent
  <1>5. outgoing'[c].message = m /\ outgoing'[c].then = out.then /\ outgoing'[c].to = out.to \ {to}
    BY <1>3 DEF Outgoing
  <1>6. to \in OnTable
    BY <1>1, <1>2 DEF HandsOn
  <1>7. OnTable' = OnTable
    BY <1>2 DEF OnTable, RegisteredDevices
  <1>8. HandsOn(c)'
    <2> HIDE DEF m
    <2>1. out.message = m
      BY DEF m
    <2>2. m.kind = "shared" => SamePlayback(m.shared, shared')
      BY <1>1, <1>2, <2>1 DEF HandsOn
    <2>3. QED
      BY <1>1, <1>2, <1>5, <1>7, <2>1, <2>2 DEF HandsOn
  <1>9. to \in lost \/ Sendable(m, outbox[to], view[to], shared)
    <2>1. m.kind \in {"shared", "apply"} => ~Arrives(to)
      <3>1. to # c => pc[to] \in Idle
        BY <1>2, OthersRest DEF SerialInv, Busy
      <3>2. m.kind \in {"shared", "apply"} => out.then # "snapshotRead"
        BY <1>1, <1>2 DEF HandsOn, Presence
      <3>3. QED
        BY <1>2, <3>1, <3>2 DEF Arrives, Idle
    <2>2. m.kind = "apply" => \A x \in Connections : ~Announces(x, to)
      <3>1. \A x \in Connections \ {c} : pc[x] \in Idle
        BY <1>2, OthersRest DEF SerialInv, Busy
      <3>2. QED
        BY <1>2, <3>1 DEF Announces, Idle
    <2>3. m.kind \in {"shared", "apply"} =>
              to \in lost \/ (Knows(to) /\ (InStep(to) \/ \E x \in Connections : Announces(x, to)))
      BY <1>6, <2>1 DEF ViewInv, TableOK
    <2>4. /\ m.kind = "shared" => SamePlayback(m.shared, shared)
          /\ m.kind = "apply" => m.seq = shared.seq
      BY <1>1, <1>2 DEF HandsOn
    <2>5. QED
      BY <2>2, <2>3, <2>4 DEF Sendable, Knows, InStep
  <1> HIDE DEF m
  <1>10. /\ \A x \in Connections : ChannelOK(x)' /\ Holds(x)
         /\ m.kind = "shared" => to \in lost' \/ (Knows(to)' /\ InStep(to)')
    BY <1>2, <1>4, <1>9, PostOne
  <1>11. Arrives(c) => Arrives(c)'
    BY <1>2, <1>5 DEF Arrives
  <1>12. ASSUME NEW x \in OnTable, Announces(c, x)
         PROVE  Announces(c, x)' \/ x \in lost' \/ InStep(x)'
    <2>1. x \in out.to /\ m.kind = "shared"
      BY <1>2, <1>12 DEF Announces, m
    <2>2. CASE x = to
      BY <1>10, <2>1, <2>2
    <2>3. CASE x # to
      BY <1>2, <1>5, <2>1, <2>3 DEF Announces
    <2>4. QED
      BY <2>2, <2>3
  <1>13. \A x \in OnTable : x \in Connections
    BY TableMembers
  <1>14. QED
    BY <1>2, <1>7, <1>8, <1>10, <1>11, <1>12, <1>13, ViewStep

\* The handler's own client gets the snapshot or an answer.
LEMMA AnswerViews ==
    ASSUME Serial, HubInv, SerialInv, ViewInv, NEW c \in Connections,
           SnapshotSend(c) \/ Reject(c) \/ (Apply(c) /\ Done(c))
    PROVE  ViewInv'
  <1>1. HandsOn(c) /\ Error \in Message /\ Error.kind = "error"
    BY MessageTypes DEF ViewInv, Error
  <1>2. /\ UNCHANGED <<shared, registry, view>> /\ HandlerStep(c) /\ Done(c)
        /\ pc[c] \in {"snapshotSend", "reduce", "apply"}
    BY DEF SnapshotSend, Reject, Apply, HandlerStep
  <1>3. OnTable' = OnTable
    BY <1>2 DEF OnTable, RegisteredDevices
  <1>4. HandsOn(c)'
    BY <1>2, DoneServes DEF HandsOn
  <1>5. \A x \in OnTable : x \in Connections /\ ~Announces(c, x)
    BY <1>2, TableMembers DEF Announces
  <1>6. ASSUME \A x \in Connections : ChannelOK(x)' /\ Holds(x),
               Arrives(c) => c \in lost' \/ (Knows(c)' /\ InStep(c)')
        PROVE  ViewInv'
    BY <1>2, <1>3, <1>4, <1>5, <1>6, ViewStep
  <1>7. CASE SnapshotSend(c)
    <2> DEFINE m == SharedMessage(current[c], "snapshot")
    <2>1. current[c] \in SharedState /\ SamePlayback(current[c], shared)
      BY <1>1, <1>7, InvParts DEF SnapshotSend, HandsOn, HandlersOK, HandlerOK, WellFormedShared
    <2>2. /\ m \in Message /\ m.kind = "shared" /\ m.shared = current[c]
          /\ m.reason = "snapshot"
      BY <2>1, MessageTypes DEF SharedMessage
    <2>3. Post(c, <<m>>)
      BY <1>7 DEF SnapshotSend
    <2> HIDE DEF m
    <2>4. Sendable(m, outbox[c], view[c], shared)
      BY <2>1, <2>2 DEF Sendable
    <2>5. QED
      BY <1>2, <1>6, <2>2, <2>3, <2>4, PostOne
  <1>8. ASSUME pc[c] # "snapshotSend", Post(c, <<Error>>) PROVE ViewInv'
    <2>1. ~Arrives(c)
      BY <1>2, <1>8 DEF Arrives
    <2>2. Sendable(Error, outbox[c], view[c], shared)
      BY <1>1 DEF Sendable
    <2>3. QED
      BY <1>1, <1>2, <1>6, <1>8, <2>1, <2>2, PostOne
  <1>9. CASE Apply(c) /\ Done(c)
    <2>1. pc[c] = "apply" /\ pc'[c] = "serving"
      BY <1>2, <1>9, DoneServes DEF Apply
    <2>2. Post(c, <<Error>>)
      BY <1>9, <2>1, GotoLabel DEF Apply
    <2>3. QED
      BY <1>8, <2>1, <2>2
  <1>10. CASE Reject(c)
    <2>1. pc[c] = "reduce" /\ ~Arrives(c)
      BY <1>10 DEF Reject, Arrives
    <2>2. CASE Ignored(c)
      <3>1. Post(c, <<>>)
        BY <1>10, <2>2 DEF Reject
      <3> DEFINE none == <<>>
      <3>2. none \in Seq(Message) /\ outbox[c] \o none = outbox[c]
        BY ChannelFields
      <3>3. Post(c, none)
        BY <3>1
      <3> HIDE DEF none
      <3>4. \A x \in Connections : ChannelOK(x)' /\ Holds(x)
        BY <1>2, <3>2, <3>3, PostHolds DEF ViewInv, ChannelOK, Knows, InStep
      <3>5. QED
        BY <1>6, <2>1, <3>4
    <2>3. CASE ~Ignored(c) /\ ~Stale(c)
      <3>1. Post(c, <<Error>>)
        BY <1>10, <2>3 DEF Reject
      <3>2. QED
        BY <1>8, <2>1, <3>1
    <2>4. CASE ~Ignored(c) /\ Stale(c)
      <3> DEFINE m == SharedMessage(current[c], "stale")
                 both == <<Error, m>>
                 box == outbox[c]
                 one == Append(box, Error)
                 two == Append(one, m)
      <3>1. PICK elapsed \in BOOLEAN : current[c] = AsOfNow(shared, elapsed)
        BY <2>1 DEF SerialInv, SerialOK
      <3>2. current[c] \in SharedState /\ SamePlayback(current[c], shared)
        <4>1. current[c] \in SharedState
          BY <2>1, InvParts DEF HandlersOK, HandlerOK, WellFormedShared
        <4>2. QED
          BY <3>1, <4>1, ChannelFields, SameAsOfNow
      <3>3. m \in Message /\ m.kind = "shared" /\ m.shared = current[c]
        BY <3>2, MessageTypes DEF SharedMessage
      <3>4. /\ both \in Seq(Message) /\ box \in Seq(Message)
            /\ box \o both = two
        <4> HIDE DEF m
        <4>1. QED
          BY <1>1, <3>3, ChannelFields
      <3>5. Post(c, both)
        BY <1>10, <2>4 DEF Reject
      <3>6. c \notin lost => Knows(c)
        <4>1. registry[DeviceOf[c]] = c
          BY <2>1 DEF SerialInv, SerialOK
        <4>2. c \in OnTable
          BY <4>1, DeviceOfAssumption, NoClientAssumption, TableMembers
        <4>3. QED
          BY <2>1, <4>2 DEF ViewInv, TableOK
      <3>7. c \notin lost =>
                /\ BoxOK(two, view[c], shared)
                /\ Knows(c) => Greeted(two, view[c])
                /\ InStep(c) => UpToDate(two, view[c], shared)
        <4> SUFFICES ASSUME c \notin lost
                     PROVE  /\ BoxOK(two, view[c], shared)
                            /\ Knows(c) => Greeted(two, view[c])
                            /\ InStep(c) => UpToDate(two, view[c], shared)
          OBVIOUS
        <4>1. BoxOK(box, view[c], shared) /\ Sendable(Error, box, view[c], shared)
          BY <1>1 DEF ViewInv, ChannelOK, Sendable
        <4>2. Greeted(box, view[c])
          BY <3>6 DEF Knows
        <4>3. InStep(c) => UpToDate(box, view[c], shared)
          BY DEF InStep
        <4> HIDE DEF box, m
        <4>4. /\ one \in Seq(Message) /\ BoxOK(one, view[c], shared)
              /\ Greeted(one, view[c])
              /\ UpToDate(box, view[c], shared) => UpToDate(one, view[c], shared)
          BY <1>1, <3>4, <4>1, <4>2, AppendKeeps, ChannelFields
        <4> HIDE DEF one
        <4>5. Sendable(m, one, view[c], shared)
          BY <3>2, <3>3, <4>4 DEF Sendable
        <4>6. /\ BoxOK(two, view[c], shared)
              /\ Greeted(two, view[c])
              /\ UpToDate(one, view[c], shared) => UpToDate(two, view[c], shared)
          BY <3>3, <4>4, <4>5, AppendKeeps, ChannelFields
        <4>7. QED
          BY <4>3, <4>4, <4>6
      <3> HIDE DEF two, one
      <3>8. c \notin lost =>
               LET all == outbox[c] \o both
               IN  /\ BoxOK(all, view[c], shared)
                   /\ Knows(c) => Greeted(all, view[c])
                   /\ InStep(c) => UpToDate(all, view[c], shared)
        BY <3>4, <3>7
      <3> HIDE DEF both, box
      <3>9. \A x \in Connections : ChannelOK(x)' /\ Holds(x)
        BY <1>2, <3>4, <3>5, <3>8, PostHolds
      <3>10. QED
        BY <1>6, <2>1, <3>9
    <2>5. QED
      BY <2>2, <2>3, <2>4
  <1>11. QED
    BY <1>7, <1>9, <1>10

\* Looking up the client that is told to play.
LEMMA ApplyViews ==
    ASSUME Serial, HubInv, SerialInv, ViewInv, NEW c \in Connections, Apply(c)
    PROVE  ViewInv'
  <1> DEFINE active == current[c].active
  <1>1. HandlersTyped /\ HandsOn(c)
    BY InvParts DEF ViewInv
  <1>2. CASE active # NoDevice /\ registry[active] # NoClient
    <2>1. /\ UNCHANGED <<shared, registry, outbox, lost, view>> /\ HandlerStep(c)
          /\ pc[c] = "apply" /\ pc'[c] = "sending"
      BY <1>2, GotoLabel DEF Apply, HandlerStep
    <2>2. outgoing'[c] = [message |-> ApplyMessage(current[c]), to |-> {registry[active]},
                          then |-> "serving"]
      BY <1>1, <1>2 DEF Apply, HandlersTyped
    <2>3. registry[active] \in OnTable
      <3>1. active \in Devices
        BY <1>2, <2>1, InvParts, SharedFields DEF HandlersOK, HandlerOK, WellFormedShared
      <3>2. QED
        BY <1>2, <3>1, TableMembers
    <2>4. OnTable' = OnTable
      BY <2>1 DEF OnTable, RegisteredDevices
    <2>5. HandsOn(c)'
      BY <1>1, <2>1, <2>2, <2>3, <2>4 DEF HandsOn, ApplyMessage
    <2>6. QED
      BY <2>1, <2>5, QuietStep DEF Arrives, Announces
  <1>3. CASE ~(active # NoDevice /\ registry[active] # NoClient)
    BY <1>3, AnswerViews DEF Apply
  <1>4. QED
    BY <1>2, <1>3

\* Saving: nobody is ahead of the new state, and it will be announced to all.
LEMMA StoreViews ==
    ASSUME Serial, HubInv, SerialInv, ViewInv, NEW c \in Connections,
           Save(c) \/ FreezeSave(c)
    PROVE  ViewInv'
  <1>1. PICK elapsed \in BOOLEAN : current[c] = AsOfNow(shared, elapsed)
    BY DEF Save, Saves, FreezeSave, SerialInv, SerialOK
  <1>2. WellFormedShared(shared) /\ WellFormedShared(current[c])
    BY <1>1, AsOfNowSound DEF HubInv, TypeOK
  <1>3. SoundChange(current[c], shared')
    BY <1>2, NextSharedSound, FreezeSound DEF Save, FreezeSave
  <1>4. SoundChange(shared, shared')
    BY <1>1, <1>2, <1>3, SoundAsOfNow
  <1>5. shared \in SharedState /\ shared' \in SharedState /\ shared'.seq >= shared.seq
    BY <1>2, <1>4 DEF SoundChange, Sequenced, WellFormedShared
  <1>6. /\ UNCHANGED <<registry, outbox, lost, view>> /\ HandlerStep(c)
        /\ pc[c] \in {"reduce", "save", "freezeSave"} /\ pc'[c] = "announce"
    BY GotoLabel DEF Save, Saves, FreezeSave, HandlerStep
  <1>7. HandsOn(c)'
    <2>1. current'[c] = shared'
      BY InvParts DEF Save, FreezeSave, HandlersTyped
    <2>2. SamePlayback(current'[c], shared')
      BY <2>1 DEF SamePlayback
    <2>3. QED
      BY <1>6, <2>2 DEF HandsOn
  <1>8. ASSUME NEW x \in Connections PROVE ChannelOK(x)'
    <2> SUFFICES ASSUME x \notin lost PROVE BoxOK(outbox[x], view[x], shared')
      BY <1>6 DEF ChannelOK
    <2> DEFINE box == outbox[x]
               held == view[x]
    <2>1. BoxOK(box, held, shared) /\ box \in Seq(Message) /\ held \in SharedState \cup {NoClient}
      BY ChannelFields DEF ViewInv, ChannelOK
    <2> HIDE DEF box, held
    <2>2. shared.seq \in Nat /\ shared'.seq \in Nat
      BY <1>5, SharedFields
    <2>3. held # NoClient => held.seq \in Nat
      BY <2>1, SharedFields
    <2>4. \A i \in Shareds(box) : box[i].shared.seq \in Nat
      <3>1. \A i \in Shareds(box) : box[i] \in Message /\ box[i].kind = "shared"
        BY <2>1, ElementOfSeq DEF Shareds
      <3>2. QED
        BY <3>1, MessageFields, SharedFields
    <2>5. BoxOK(box, held, shared')
      BY <1>5, <2>1, <2>2, <2>3, <2>4 DEF BoxOK
    <2>6. QED
      BY <2>5 DEF box, held
  <1>9. \A x \in Connections \ {c} : /\ pc'[x] = pc[x] /\ outgoing'[x] = outgoing[x]
                                     /\ pc[x] \in Idle
    BY <1>6, StepFrame, OthersRest DEF Frame, SerialInv, Busy
  <1>10. ASSUME NEW x \in Connections PROVE HandsOn(x)'
    <2>1. CASE x # c
      BY <1>9, <2>1 DEF HandsOn, Idle
    <2>2. QED
      BY <1>7, <2>1
  <1>11. OnTable' = OnTable
    BY <1>6 DEF OnTable, RegisteredDevices
  <1>12. ASSUME NEW x \in OnTable PROVE TableOK(x)'
    <2>1. x \in Connections /\ ~Arrives(x)
      BY <1>6, <1>9, TableMembers DEF Arrives, Idle
    <2>2. x \in lost \/ Knows(x)
      BY <2>1 DEF ViewInv, TableOK
    <2>3. x \in lost' \/ Knows(x)'
      BY <1>6, <2>2 DEF Knows
    <2>4. Announces(c, x)'
      BY <1>6 DEF Announces
    <2>5. QED
      BY <2>3, <2>4 DEF TableOK
  <1>13. QED
    BY <1>8, <1>10, <1>11, <1>12 DEF ViewInv

\* Entering the table, where the snapshot is to come.
LEMMA InstallViews ==
    ASSUME Serial, HubInv, SerialInv, ViewInv, NEW c \in Connections, Install(c)
    PROVE  ViewInv'
  <1>1. /\ pc[c] = "absent" /\ pc'[c] = "arriving" /\ Entering(c)
        /\ UNCHANGED <<shared, outbox, lost, view>>
    BY GotoLabel DEF Install, Entering
  <1>2. OnTable' \subseteq OnTable \cup {c}
    <2>1. registry' = [registry EXCEPT ![DeviceOf[c]] = c] /\ TableTyped
      BY InvParts DEF Install
    <2>2. QED
      BY <2>1 DEF OnTable, RegisteredDevices, TableTyped
  <1>3. HandsOn(c)'
    BY <1>1 DEF HandsOn
  <1>4. ASSUME NEW x \in Connections PROVE ChannelOK(x)' /\ Holds(x)
    BY <1>1 DEF ViewInv, ChannelOK, Holds, Knows, InStep
  <1>5. Arrives(c)' /\ \A x \in OnTable : ~Announces(c, x)
    BY <1>1 DEF Arrives, Announces
  <1>6. \A x \in OnTable : x \in Connections
    BY TableMembers
  <1>7. QED
    BY <1>1, <1>2, <1>3, <1>4, <1>5, <1>6, ViewStep

\* Leaving the table and closing the channel.
LEMMA RemoveViews ==
    ASSUME Serial, HubInv, SerialInv, ViewInv, NEW c \in Connections, Remove(c)
    PROVE  ViewInv'
  <1>1. /\ pc[c] = "unregister" /\ pc'[c] \in {"offline", "gone"} /\ HandlerStep(c)
        /\ UNCHANGED <<shared, lost>>
    BY GotoLabel DEF Remove, HandlerStep
  <1>2. /\ \A x \in Connections \ {c} : outbox'[x] = outbox[x] /\ view'[x] = view[x]
        /\ outbox'[c] = <<>> /\ view'[c] = NoClient
    BY InvParts DEF Remove, ChannelsTyped, ClientsTyped
  <1>3. OnTable' \subseteq OnTable /\ c \notin OnTable'
    <2>1. registry' = WithoutClient(c) /\ TableTyped
      BY InvParts DEF Remove
    <2>2. \A d \in Devices : registry'[d] = IF d = DeviceOf[c] /\ registry[d] = c THEN NoClient
                                            ELSE registry[d]
      BY <2>1 DEF WithoutClient, TableTyped
    <2>3. \A d \in Devices : registry[d] = c => d = DeviceOf[c]
      BY InvParts, NoClientAssumption DEF RegistryOK, RegisteredDevices
    <2>4. QED
      BY <2>2, <2>3, NoClientAssumption DEF OnTable, RegisteredDevices
  <1>4. HandsOn(c)'
    BY <1>1 DEF HandsOn
  <1>5. ASSUME NEW x \in Connections PROVE ChannelOK(x)'
    <2>1. CASE x # c
      BY <1>1, <1>2, <2>1 DEF ViewInv, ChannelOK
    <2>2. CASE x = c
      <3>1. BoxOK(<<>>, NoClient, shared)
        BY DEF BoxOK, Shareds
      <3>2. QED
        BY <1>1, <1>2, <2>2, <3>1 DEF ChannelOK
    <2>3. QED
      BY <2>1, <2>2
  <1>6. \A x \in Connections \ {c} : Holds(x)
    BY <1>1, <1>2 DEF Holds, Knows, InStep
  <1>7. \A x \in OnTable : x \in Connections /\ ~Announces(c, x)
    BY <1>1, TableMembers DEF Announces
  <1>8. QED
    BY <1>1, <1>3, <1>4, <1>5, <1>6, <1>7, ViewStep

\* A client takes a message from its channel.
LEMMA DeliverViews ==
    ASSUME HubInv, ViewInv, NEW c \in Connections, Deliver(c)
    PROVE  ViewInv'
  <1> DEFINE box == outbox[c]
             held == view[c]
             now == IF Head(box).kind = "shared" THEN Adopted(held, Head(box).shared) ELSE held
  <1>1. /\ outbox[c] # <<>>
        /\ UNCHANGED <<shared, registry, lost, pc, current, outgoing>>
    BY DEF Deliver
  <1>2. /\ outbox'[c] = Tail(box) /\ view'[c] = now
        /\ \A x \in Connections \ {c} : outbox'[x] = outbox[x] /\ view'[x] = view[x]
    BY InvParts DEF Deliver, ChannelsTyped, ClientsTyped
  <1>3. c \notin lost => /\ BoxOK(Tail(box), now, shared)
                         /\ Greeted(box, held) => Greeted(Tail(box), now)
                         /\ UpToDate(box, held, shared) => UpToDate(Tail(box), now, shared)
    <2> SUFFICES ASSUME c \notin lost
                 PROVE  /\ BoxOK(Tail(box), now, shared)
                        /\ Greeted(box, held) => Greeted(Tail(box), now)
                        /\ UpToDate(box, held, shared) => UpToDate(Tail(box), now, shared)
      OBVIOUS
    <2>1. /\ BoxOK(box, held, shared) /\ box \in Seq(Message) /\ box # <<>>
          /\ held \in SharedState \cup {NoClient} /\ shared \in SharedState
      BY <1>1, ChannelFields DEF ViewInv, ChannelOK
    <2> HIDE DEF box, held
    <2>2. QED
      BY <2>1, DeliverKeepsBox
  <1> HIDE DEF now
  <1>4. ASSUME NEW x \in Connections PROVE ChannelOK(x)' /\ Holds(x) /\ HandsOn(x)'
    <2>1. HandsOn(x)'
      BY <1>1 DEF ViewInv, HandsOn, OnTable, RegisteredDevices
    <2>2. CASE x = c
      BY <1>1, <1>2, <1>3, <2>1, <2>2 DEF ChannelOK, Holds, Knows, InStep
    <2>3. CASE x # c
      BY <1>1, <1>2, <2>1, <2>3 DEF ViewInv, ChannelOK, Holds, Knows, InStep
    <2>4. QED
      BY <2>2, <2>3
  <1>5. OnTable' = OnTable
    BY <1>1 DEF OnTable, RegisteredDevices
  <1>6. ASSUME NEW x \in OnTable PROVE TableOK(x)'
    <2>1. x \in Connections /\ TableOK(x)
      BY TableMembers DEF ViewInv
    <2>2. Arrives(x) => Arrives(x)'
      BY <1>1 DEF Arrives
    <2>3. \A y \in Connections : Announces(y, x) => Announces(y, x)'
      BY <1>1 DEF Announces
    <2>4. QED
      BY <1>1, <1>4, <2>1, <2>2, <2>3 DEF TableOK, Holds
  <1>7. QED
    BY <1>4, <1>5, <1>6 DEF ViewInv

LEMMA ViewKeeps ==
    ASSUME Serial, HubInv, SerialInv, ViewInv, [Next]_vars
    PROVE  ViewInv'
  <1>1. CASE UNCHANGED vars
    BY <1>1 DEF vars, ViewInv, HandsOn, ChannelOK, TableOK, OnTable, RegisteredDevices,
                Arrives, Announces, Knows, InStep
  <1>2. ASSUME NEW c \in Connections, Deliver(c) PROVE ViewInv'
    BY <1>2, DeliverViews
  <1>3. ASSUME NEW c \in Connections, Entering(c) PROVE ViewInv'
    BY <1>3, InstallViews, QuietViews DEF Entering
  <1>4. ASSUME NEW c \in Connections, NEW to \in Connections, SendToClosed(c, to)
        PROVE  FALSE
    <2>1. to \in OnTable
      BY <1>4 DEF SendToClosed, ViewInv, HandsOn
    <2>2. QED
      BY <1>4, <2>1, TableMembers DEF SendToClosed
  <1>5. ASSUME NEW c \in Connections, HandlerStep(c) PROVE ViewInv'
    <2>1. ~StoreFails(c)
      BY DEF StoreFails, Serial
    <2>2. QED
      BY <1>4, <1>5, <2>1, QuietViews, BroadcastViews, SendViews, AnswerViews, ApplyViews,
         StoreViews, RemoveViews DEF HandlerStep
  <1>6. QED
    BY <1>1, <1>2, <1>3, <1>5 DEF Next, Entering

LEMMA ViewInit == Init => ViewInv
  <1> SUFFICES ASSUME Init PROVE ViewInv
    OBVIOUS
  <1>1. OnTable = {}
    BY DEF Init, OnTable, RegisteredDevices
  <1>2. ASSUME NEW c \in Connections PROVE HandsOn(c) /\ ChannelOK(c)
    <2>1. pc[c] = "absent" /\ outbox[c] = <<>> /\ view[c] = NoClient
      BY DEF Init
    <2>2. BoxOK(<<>>, NoClient, shared)
      BY DEF BoxOK, Shareds
    <2>3. QED
      BY <2>1, <2>2 DEF HandsOn, ChannelOK
  <1>3. QED
    BY <1>1, <1>2 DEF ViewInv

LEMMA SerialViews ==
    ASSUME Serial
    PROVE  Spec => [](HubInv /\ SerialInv /\ ViewInv)
  <1>1. Init => HubInv /\ SerialInv /\ ViewInv
    BY InitHub, SerialInit, ViewInit
  <1>2. HubInv /\ SerialInv /\ ViewInv /\ [Next]_vars => HubInv' /\ SerialInv' /\ ViewInv'
    BY NextKeeps, SerialKeeps, ViewKeeps
  <1>3. QED
    BY <1>1, <1>2, PTL DEF Spec

\* When nothing is under way, the clients of a serial hub hold the room's state,
\* but those a full channel dropped a message of.
THEOREM SerialViewsInSync ==
    ASSUME Serial
    PROVE  Spec => []ViewsInSync
  <1>1. ASSUME HubInv, ViewInv, NobodyBusy, NEW d \in RegisteredDevices,
               outbox[registry[d]] = <<>>, registry[d] \notin lost
        PROVE  SamePlayback(view[registry[d]], shared)
    <2> DEFINE x == registry[d]
    <2>1. x \in OnTable /\ x \in Connections
      BY <1>1, TableMembers DEF RegisteredDevices
    <2>2. \A c \in Connections : ~Arrives(c) /\ ~Announces(c, x)
      BY <1>1 DEF NobodyBusy, Busy, Idle, Arrives, Announces
    <2>3. UpToDate(<<>>, view[x], shared)
      BY <1>1, <2>1, <2>2 DEF ViewInv, TableOK, InStep
    <2>4. QED
      BY <2>3 DEF UpToDate, Shareds
  <1>2. HubInv /\ ViewInv => ViewsInSync
    BY <1>1 DEF ViewsInSync
  <1>3. QED
    BY SerialViews, <1>2, PTL

\* Their first state is the snapshot, and a device is told to play after it got
\* the state it is to play from.
THEOREM SerialDeliveredInOrder ==
    ASSUME Serial
    PROVE  Spec => DeliveredInOrder
  <1>1. ASSUME HubInv, ViewInv, NEW c \in Connections \ lost, Deliver(c)
        PROVE  LET message == Head(outbox[c])
               IN  /\ message.kind = "shared" /\ view[c] = NoClient => message.reason = "snapshot"
                   /\ message.kind = "apply" => view[c] # NoClient /\ view[c].seq >= message.seq
    <2> DEFINE box == outbox[c]
    <2>1. /\ box \in Seq(Message) /\ box # <<>>
          /\ BoxOK(box, view[c], shared)
      BY <1>1, ChannelFields DEF Deliver, ViewInv, ChannelOK
    <2> HIDE DEF box
    <2>2. 1 \in DOMAIN box /\ Head(box) = box[1] /\ DOMAIN box \subseteq Nat \ {0}
      BY <2>1, EmptySeq
    <2>3. \A j \in Shareds(box) : ~(j < 1)
      BY <2>2 DEF Shareds
    <2>4. box[1].kind = "shared" /\ view[c] = NoClient => box[1].reason = "snapshot"
      BY <2>1, <2>2, <2>3 DEF BoxOK, Shareds
    <2>5. box[1].kind = "apply" => view[c] # NoClient /\ view[c].seq >= box[1].seq
      BY <2>1, <2>2, <2>3 DEF BoxOK
    <2>6. QED
      BY <2>2, <2>4, <2>5 DEF box
  <1>2. HubInv /\ ViewInv /\ [Next]_vars =>
          [\A c \in Connections \ lost :
              LET message == Head(outbox[c]) IN
              Deliver(c) =>
                /\ message.kind = "shared" /\ view[c] = NoClient => message.reason = "snapshot"
                /\ message.kind = "apply" => view[c] # NoClient /\ view[c].seq >= message.seq]_vars
    BY <1>1
  <1>3. QED
    BY SerialViews, <1>2, PTL DEF Spec, DeliveredInOrder
=============================================================================
