---------------------------- MODULE ConnectSession ---------------------------
(***************************************************************************)
(* The Connect session of one device (src-tauri/src/connect.rs) against a  *)
(* server that serves this device and others.  The session keeps the       *)
(* shared state it was last sent, and a gate between that state and the    *)
(* local queue: after connecting, a local queue of the user's own is held  *)
(* until the user chooses which of the two queues stays.                   *)
(*                                                                         *)
(* Tasks run concurrently: one connection loop per restart (a loop of an   *)
(* old generation goes on until it notices), and the command that resolves *)
(* a conflict.  Each step of a task is what it does under one lock of the  *)
(* session or of the playback controller.  at[t] is its next step:         *)
(*   a loop    offline, connecting, ready, classify, asking, reading,      *)
(*             closing, pushing, deliver, begin, applying, applied,        *)
(*             failed, flush, over                                         *)
(*   Chooser   ready, closing, pushing, begin, applying, applied, failed   *)
(*                                                                         *)
(* A queue is one of a few; a shared state is its number, active device,   *)
(* queue and last author.  Commands that change none of these, presence    *)
(* and status texts are left out.                                          *)
(***************************************************************************)
EXTENDS Integers, Sequences, FiniteSets

CONSTANTS
    Mine, Theirs,   \* queues made here and elsewhere, by the songs in them
    Empty,          \* the empty queue
    Resumes,        \* what a resumed app may have been doing
    MaxGeneration,  \* bound: restarts of the session
    MaxSeq,         \* bound: sequence numbers the server gives
    MaxWaiting,     \* bound: messages that wait when another is added
    Races           \* what may overlap

\* restart   the session is restarted while one of its tasks handles something
\* choice    messages, edits or a disconnect while the user's choice is carried out
\* push      a push the user was not asked about is overtaken, or not saved
\* replaced  the device reconnects before the server noticed that it was gone
\* backend   the audio backend fails to stop, or to tell its position
Race == {"restart", "choice", "push", "replaced", "backend"}

ASSUME EmptyAssumption == Empty \in Mine \cap Theirs
ASSUME ResumesAssumption == Resumes \subseteq {"playing", "paused"}
ASSUME SessionBoundsAssumption ==
    /\ MaxGeneration \in Nat \ {0} /\ MaxSeq \in Nat \ {0} /\ MaxWaiting \in Nat
    /\ Races \subseteq Race

VARIABLES
    enabled,    \* the setting
    forgetting, \* it was turned off, and the restart is still to come
    generation, connected, gate, shared, applying, synced, resume,
    local,      \* the queue of the playback controller
    own,        \* whether it is the user's, and no shared queue (a history)
    at, held,   \* per task: its next step, and what it works on
    room,       \* the server's row
    registered, \* the loop whose connection is in the server's table
    inbox, outbox

settingVars == <<enabled, forgetting>>
localVars == <<local, own>>
serverVars == <<room, registered>>
vars == <<settingVars, generation, connected, gate, shared, applying, synced,
          resume, localVars, at, held, serverVars, inbox, outbox>>

Queues == Mine \cup Theirs

Me == "me"
Other == "other"
Nobody == "nobody"

Loops == 1 .. MaxGeneration
Chooser == 0
Tasks == Loops \cup {Chooser}
Idle == {"offline", "connecting", "ready", "over"}
Disconnected == {"offline", "connecting", "over"}

Unknown == "unknown"
ASSUME UnknownAssumption == Unknown \notin Queues
NoSeq == -1
Row == [seq: Nat, active: {Me, Other, Nobody}, queue: Queues, by: {Me, Other, Nobody}]
NoRow == [seq |-> NoSeq]
NothingHeld == [row |-> NoRow]

\* What a task works on: a shared state it was sent, or a push.
Handled(row, reason, g) == [row |-> row, reason |-> reason, generation |-> g]
Pushed(id, queue) == [id |-> id, queue |-> queue]
NoId == 0

Open == [kind |-> "open"]
AwaitingChoice == [kind |-> "awaitingChoice"]
Pushing(id, user) == [kind |-> "pushing", id |-> id, user |-> user]

SharedMessage(row, reason) == [kind |-> "shared", row |-> row, reason |-> reason]
ErrorMessage(id) == [kind |-> "error", id |-> id]

Goto(t, label) == at' = [at EXCEPT ![t] = label]
Hold(t, work) == held' = [held EXCEPT ![t] = work]

\* What leaves through the sender of the current connection.
SendOut(message) == outbox' = [outbox EXCEPT ![generation] = Append(@, message)]

\* The sequence number a command is based on.
BaseSeq == IF shared = NoRow THEN 0 ELSE shared.seq

ChoiceCarriedOut == at[Chooser] # "ready"
MayHandle == "choice" \in Races \/ ~ChoiceCarriedOut
MayInterrupt == "restart" \in Races \/ \A t \in Tasks : at[t] \in Idle

-----------------------------------------------------------------------------
(* Restarting, connecting and losing the connection.                       *)

\* Mutant: nothing is forgotten.
TurnOffOnly ==
    /\ enabled /\ ~forgetting
    /\ generation < MaxGeneration
    /\ MayInterrupt
    /\ enabled' = FALSE /\ forgetting' = TRUE
    /\ own' = (local # Empty)
    /\ UNCHANGED <<generation, connected, gate, shared, applying, synced, resume, local,
                   at, held, serverVars, inbox, outbox>>

\* The user turns Connect off: forget_synced_queue; restart follows.
TurnOff ==
    /\ enabled /\ ~forgetting
    /\ generation < MaxGeneration
    /\ MayInterrupt
    /\ enabled' = FALSE /\ forgetting' = TRUE
    /\ synced' = Unknown
    /\ own' = (local # Empty)
    /\ UNCHANGED <<generation, connected, gate, shared, applying, resume, local,
                   at, held, serverVars, inbox, outbox>>

\* begin_restart.  A resumed app notes what it was playing before.
Restart ==
    /\ generation < MaxGeneration
    /\ MayInterrupt
    /\ generation' = generation + 1
    /\ connected' = FALSE /\ shared' = NoRow /\ gate' = Open
    /\ enabled' \in IF forgetting THEN {FALSE} ELSE {enabled, TRUE}
    /\ forgetting' = FALSE
    /\ resume' \in {resume} \cup IF enabled /\ local # Empty THEN Resumes ELSE {}
    /\ Goto(generation + 1, "offline")
    /\ UNCHANGED <<applying, synced, localVars, held, serverVars, inbox, outbox>>

\* is_current, and the setting, before a connection is made.
EndLoop(g) ==
    /\ at[g] = "offline"
    /\ g # generation \/ ~enabled
    /\ IF g = generation
       THEN connected' = FALSE /\ shared' = NoRow /\ gate' = Open
       ELSE UNCHANGED <<connected, shared, gate>>
    /\ Goto(g, "over")
    /\ UNCHANGED <<settingVars, generation, applying, synced, resume, localVars, held,
                   serverVars, inbox, outbox>>

Login(g) ==
    /\ at[g] = "offline"
    /\ g = generation /\ enabled
    /\ Goto(g, "connecting")
    /\ UNCHANGED <<settingVars, generation, connected, gate, shared, applying, synced,
                   resume, localVars, held, serverVars, inbox, outbox>>

\* The connection is made (and replaces an older one), or it fails.
\* Connections reach the server in the order of their generations.
Connect(g) ==
    /\ at[g] = "connecting"
    /\ g = generation \/ ~connected
    /\ registered # Chooser => "replaced" \in Races
    /\ connected' = (connected \/ g = generation)
    /\ registered' = g
    /\ inbox' = [inbox EXCEPT ![g] = <<SharedMessage(room, "snapshot")>>]
    /\ outbox' = [outbox EXCEPT ![g] = <<>>]
    /\ Goto(g, "ready")
    /\ UNCHANGED <<settingVars, generation, gate, shared, applying, synced, resume,
                   localVars, held, room>>

\* set_disconnected: the websocket closed, or a restart dropped the sender.
Disconnect(g) ==
    /\ at[g] \in {"connecting", "ready"}
    /\ MayHandle
    /\ IF g = generation
       THEN connected' = FALSE /\ shared' = NoRow /\ gate' = Open
       ELSE UNCHANGED <<connected, shared, gate>>
    /\ inbox' = [inbox EXCEPT ![g] = <<>>]
    /\ Goto(g, "offline")
    /\ UNCHANGED <<settingVars, generation, applying, synced, resume, localVars, held,
                   serverVars, outbox>>

-----------------------------------------------------------------------------
(* Messages from the server.                                               *)

OwnPush(message) == message.row.by = Me /\ message.reason = "push"

\* Mutant: whatever this device caused.
OwnUpdate(message) == message.row.by = Me

OwnReport(message) ==
    message.row.by = Me /\ message.row.active = Me /\ message.reason = "report"

\* set_shared_playback; then the gate as it left it.
ReceiveShared(g) ==
    LET message == Head(inbox[g])
        row == message.row
    IN  /\ at[g] = "ready"
        /\ MayHandle
        /\ inbox[g] # <<>> /\ message.kind = "shared"
        /\ inbox' = [inbox EXCEPT ![g] = Tail(@)]
        /\ IF g # generation \/ row.seq < shared.seq
           THEN UNCHANGED <<shared, synced, gate, at, held>>
           ELSE /\ shared' = row
                /\ synced' = IF OwnPush(message) THEN row.queue ELSE synced
                /\ gate' = IF OwnPush(message) /\ gate.kind = "pushing" THEN Open ELSE gate
                /\ IF gate' # Open THEN UNCHANGED <<at, held>>
                   ELSE /\ Hold(g, Handled(row, message.reason, g))
                        /\ Goto(g, IF message.reason = "snapshot" THEN "classify" ELSE "deliver")
        /\ UNCHANGED <<settingVars, generation, connected, applying, resume, localVars,
                       serverVars, outbox>>

\* Mutant: only the user's push is given up.
AfterFailedUserPush(id) ==
    IF gate.kind # "pushing" THEN gate
    ELSE IF gate.id = id /\ gate.user THEN AwaitingChoice ELSE gate

\* fail_push.
AfterFailedPush(id) ==
    IF gate.kind # "pushing" THEN gate
    ELSE IF gate.id # id THEN gate
    ELSE IF gate.user THEN AwaitingChoice ELSE Open

ReceiveError(g) ==
    /\ at[g] = "ready"
    /\ MayHandle
    /\ inbox[g] # <<>> /\ Head(inbox[g]).kind = "error"
    /\ inbox' = [inbox EXCEPT ![g] = Tail(@)]
    /\ gate' = AfterFailedPush(Head(inbox[g]).id)
    /\ UNCHANGED <<settingVars, generation, connected, shared, applying, synced, resume,
                   localVars, at, held, serverVars, outbox>>

\* Mutant: a queue that was a copy stays one.
SnapshotActionOfOrigin(localQueue, serverQueue, syncedQueue) ==
    IF localQueue \in {Empty, serverQueue} \/ syncedQueue # Unknown THEN "deliver"
    ELSE IF serverQueue = Empty THEN "reading"
    ELSE "asking"

\* classify_initial_snapshot: what the first snapshot does to the local queue.
SnapshotAction(localQueue, serverQueue, syncedQueue) ==
    IF localQueue \in {Empty, syncedQueue, serverQueue} THEN "deliver"
    ELSE IF serverQueue = Empty THEN "reading"
    ELSE "asking"

\* hold_local_queue_for_initial_snapshot.
Classify(g) ==
    LET action == SnapshotAction(local, held[g].row.queue, synced)
    IN  /\ at[g] = "classify"
        /\ synced' = IF action = "deliver" THEN synced ELSE Unknown
        /\ own' = (own /\ local # held[g].row.queue)
        /\ Goto(g, action)
        /\ UNCHANGED <<settingVars, generation, connected, gate, shared, applying, resume,
                       local, held, serverVars, inbox, outbox>>

\* begin_queue_resolution.
AskUser(g) ==
    /\ at[g] = "asking"
    /\ IF g = generation THEN gate' = AwaitingChoice /\ resume' = "none"
       ELSE UNCHANGED <<gate, resume>>
    /\ Hold(g, NothingHeld)
    /\ Goto(g, "ready")
    /\ UNCHANGED <<settingVars, generation, connected, shared, applying, synced, localVars,
                   serverVars, inbox, outbox>>

-----------------------------------------------------------------------------
(* Pushing the local queue.                                                *)

\* Pushes that will need a number.
Pushes ==
    Cardinality({t \in Tasks : at[t] \in {"closing", "pushing"}})
        + Cardinality({g \in Loops : \E i \in DOMAIN outbox[g] : outbox[g][i].kind = "push"})

\* local_playback_state: of the loop that pushes, or because the user chose so.
ReadLocal(t) ==
    /\ \/ t # Chooser /\ at[t] = "reading"
       \/ t = Chooser /\ at[t] = "ready" /\ gate = AwaitingChoice
    /\ "choice" \in Races \/ \A g \in Loops : at[g] \in Idle \cup {"reading"}
    /\ \/ /\ room.seq + Pushes < MaxSeq
          /\ Hold(t, Pushed(NoId, local))
          /\ Goto(t, "closing")
       \/ /\ "backend" \in Races
          /\ Hold(t, NothingHeld)
          /\ Goto(t, "ready")
    /\ UNCHANGED <<settingVars, generation, connected, gate, shared, applying, synced, resume,
                   localVars, serverVars, inbox, outbox>>

\* Ids of pushes whose answer may still come.
IdsOf(messages) == {messages[i].id : i \in {j \in DOMAIN messages :
                                               messages[j].kind \in {"push", "error"}}}
UsedIds ==
    {held[t].id : t \in {x \in Tasks : at[x] = "pushing"}}
        \cup (IF gate.kind = "pushing" THEN {gate.id} ELSE {})
        \cup UNION {IdsOf(outbox[g]) \cup IdsOf(inbox[g]) : g \in Loops}
NewId == CHOOSE id \in 1 .. (Cardinality(UsedIds) + 1) :
            id \notin UsedIds /\ \A other \in 1 .. (id - 1) : other \in UsedIds

\* push_local_state closes the gate, whichever generation it is for.
ClosePush(t) ==
    /\ at[t] = "closing"
    /\ IF t = Chooser /\ gate # AwaitingChoice
       THEN Hold(t, NothingHeld) /\ Goto(t, "ready") /\ UNCHANGED <<gate, resume>>
       ELSE /\ gate' = Pushing(NewId, t = Chooser)
            /\ resume' = "none"
            /\ Hold(t, Pushed(NewId, held[t].queue))
            /\ Goto(t, "pushing")
    /\ UNCHANGED <<settingVars, generation, connected, shared, applying, synced, localVars,
                   serverVars, inbox, outbox>>

\* send_playback_command, and fail_push when there is nobody to send to.
SendPush(t) ==
    /\ at[t] = "pushing"
    /\ IF connected /\ gate # AwaitingChoice
       THEN /\ SendOut([kind |-> "push", id |-> held[t].id, base |-> BaseSeq,
                        queue |-> held[t].queue])
            /\ UNCHANGED gate
       ELSE gate' = AfterFailedPush(held[t].id) /\ UNCHANGED outbox
    /\ Hold(t, NothingHeld)
    /\ Goto(t, "ready")
    /\ UNCHANGED <<settingVars, generation, connected, shared, applying, synced, resume,
                   localVars, serverVars, inbox>>

-----------------------------------------------------------------------------
(* Applying a shared state to the controller.                              *)

\* take_pull: the user takes the shared queue, as recorded now.
ChoosePull ==
    /\ at[Chooser] = "ready" /\ gate = AwaitingChoice
    /\ "choice" \in Races \/ \A g \in Loops : at[g] \in Idle
    /\ shared # NoRow
    /\ gate' = Open
    /\ Hold(Chooser, Handled(shared, "pull", generation))
    /\ Goto(Chooser, "begin")
    /\ UNCHANGED <<settingVars, generation, connected, shared, applying, synced, resume,
                   localVars, serverVars, inbox, outbox>>

\* should_preserve_pending_android_resume_snapshot: a resumed app that was
\* playing takes its own released state back.
PreservesResume(g) ==
    /\ g = generation /\ connected
    /\ resume = "playing"
    /\ held[g].row.active = Nobody /\ held[g].row.by = Me

\* should_apply_shared_playback_to_backend: an active device that has a queue
\* keeps what it plays when it is sent a snapshot.
AppliesToBackend(g) ==
    /\ ~OwnReport(held[g]) /\ ~OwnPush(held[g])
    /\ held[g].reason # "activeOffline"
    /\ ~(/\ held[g].reason \in {"snapshot", "stale"}
         /\ connected /\ held[g].row.active = Me /\ local # Empty)

Deliver(g) ==
    /\ at[g] = "deliver"
    /\ Goto(g, IF AppliesToBackend(g) /\ ~PreservesResume(g) THEN "begin" ELSE "flush")
    /\ UNCHANGED <<settingVars, generation, connected, gate, shared, applying, synced, resume,
                   localVars, held, serverVars, inbox, outbox>>

Finish(t) ==
    IF t = Chooser THEN Goto(t, "ready") /\ Hold(t, NothingHeld)
    ELSE Goto(t, "flush") /\ UNCHANGED held

\* begin_apply_shared.
BeginApply(t) ==
    /\ at[t] = "begin"
    /\ IF connected /\ held[t].generation = generation
       THEN applying' = held[t].row.seq /\ Goto(t, "applying") /\ UNCHANGED held
       ELSE UNCHANGED applying /\ Finish(t)
    /\ UNCHANGED <<settingVars, generation, connected, gate, shared, synced, resume,
                   localVars, serverVars, inbox, outbox>>

\* apply_connect_shared_state, under the controller's lock.  The backend may
\* fail to start what is to play, or to stop what plays.
ApplyShared(t) ==
    /\ at[t] = "applying"
    /\ \/ /\ local' = held[t].row.queue /\ own' = FALSE
          /\ Goto(t, "applied") \/ (local' # Empty /\ held[t].row.active = Me /\ Goto(t, "failed"))
       \/ /\ "backend" \in Races
          /\ Goto(t, "failed")
          /\ UNCHANGED localVars
    /\ UNCHANGED <<settingVars, generation, connected, gate, shared, applying, synced, resume,
                   held, serverVars, inbox, outbox>>

\* Mutant: like record_synced_queue, only in the generation it began in.
EndApplyOfGeneration(t) ==
    /\ at[t] \in {"applied", "failed"}
    /\ applying' = IF applying = held[t].row.seq /\ held[t].generation = generation
                   THEN NoSeq ELSE applying
    /\ synced' = IF at[t] = "applied" /\ held[t].generation = generation
                 THEN held[t].row.queue ELSE synced
    /\ Finish(t)
    /\ UNCHANGED <<settingVars, generation, connected, gate, shared, resume, localVars,
                   serverVars, inbox, outbox>>

\* end_apply_shared, then record_synced_queue.
EndApply(t) ==
    /\ at[t] \in {"applied", "failed"}
    /\ applying' = IF applying = held[t].row.seq THEN NoSeq ELSE applying
    /\ synced' = IF at[t] = "applied" /\ held[t].generation = generation
                 THEN held[t].row.queue ELSE synced
    /\ Finish(t)
    /\ UNCHANGED <<settingVars, generation, connected, gate, shared, resume, localVars,
                   serverVars, inbox, outbox>>

-----------------------------------------------------------------------------
(* What the device sends.                                                  *)

MayReport == connected /\ shared # NoRow /\ gate = Open
ActiveHere == MayReport /\ shared.active = Me
MayReclaim == MayReport /\ resume = "playing" /\ shared.active = Nobody /\ shared.by = Me

\* flush_pending_android_resume_report; an old one is dropped.
Flush(g) ==
    /\ at[g] = "flush"
    /\ \/ /\ g = generation /\ resume # "none"
          /\ ActiveHere \/ MayReclaim
          /\ SendOut([kind |-> "report"])
          /\ resume' = "none"
       \/ g = generation /\ resume # "none" /\ resume' = "none" /\ UNCHANGED outbox
       \/ /\ g # generation \/ resume = "none" \/ ~(ActiveHere \/ MayReclaim)
          /\ UNCHANGED <<resume, outbox>>
    /\ Hold(g, NothingHeld)
    /\ Goto(g, "ready")
    /\ UNCHANGED <<settingVars, generation, connected, gate, shared, applying, synced,
                   localVars, serverVars, inbox>>

Waiting(g) == Len(inbox[g]) + Len(outbox[g])

\* publish_status: the controller reports what it does.
PublishStatus ==
    /\ ActiveHere /\ applying = NoSeq
    /\ Waiting(generation) < MaxWaiting
    /\ SendOut([kind |-> "report"])
    /\ UNCHANGED <<settingVars, generation, connected, gate, shared, applying, synced, resume,
                   localVars, at, held, serverVars, inbox>>

\* The push of a loop, from the snapshot that caused it to its answer.
PushUnderWay ==
    \/ gate.kind = "pushing" /\ ~gate.user
    \/ \E g \in Loops :
          \/ at[g] \in {"classify", "reading", "closing", "pushing"}
          \/ \E i \in DOMAIN inbox[g] :
                inbox[g][i].kind = "shared" /\ inbox[g][i].reason = "snapshot"
MayOvertake == "push" \in Races \/ ~PushUnderWay

\* The user edits the queue: on the server, unless the session is not
\* connected or waits for the user's choice.
EditQueue(queue) ==
    /\ queue # local
    /\ IF connected /\ gate # AwaitingChoice
       THEN /\ MayOvertake
            /\ Waiting(generation) < MaxWaiting
            /\ SendOut([kind |-> "edit", base |-> BaseSeq, queue |-> queue])
            /\ UNCHANGED localVars
       ELSE /\ MayHandle
            /\ local' = queue /\ own' = (queue \notin {Empty, synced})
            /\ UNCHANGED outbox
    /\ UNCHANGED <<settingVars, generation, connected, gate, shared, applying, synced, resume,
                   at, held, serverVars, inbox>>

-----------------------------------------------------------------------------
(* The server, as this device sees it: handlers one at a time.             *)

\* saveAndBroadcast.
Change(row, reason) ==
    /\ room' = row
    /\ inbox' = IF registered = Chooser \/ at[registered] \in Disconnected THEN inbox
                ELSE [inbox EXCEPT ![registered] = Append(@, SharedMessage(row, reason))]

HandleReport ==
    \/ /\ room.active \in {Me, Nobody}
       /\ Change([room EXCEPT !.active = Me, !.by = Me], "report")
       /\ UNCHANGED own
    \/ UNCHANGED <<room, inbox, own>>

\* A rejected command is answered; only a push waits for the answer.
Reply(g, message, snapshot) ==
    LET replies == (IF message.kind = "push" THEN <<ErrorMessage(message.id)>> ELSE <<>>)
                       \o snapshot
    IN  inbox' = IF at[g] \in Disconnected THEN inbox ELSE [inbox EXCEPT ![g] = @ \o replies]

HandleCommand(g, message) ==
    \/ /\ message.base # room.seq
       /\ Reply(g, message, <<SharedMessage(room, "stale")>>)
       /\ UNCHANGED <<room, own>>
    \/ /\ message.base = room.seq
       /\ message.kind = "push" => "push" \in Races
       /\ Reply(g, message, <<>>)
       /\ UNCHANGED <<room, own>>
    \/ /\ message.base = room.seq /\ room.seq < MaxSeq
       /\ message.kind = "edit" => room.seq + Pushes < MaxSeq
       /\ Change([seq |-> room.seq + 1,
                  active |-> IF message.kind = "push" THEN Me
                             ELSE IF message.queue # Empty /\ room.active = Nobody THEN Me
                             ELSE room.active,
                  queue |-> message.queue,
                  by |-> Me],
                 IF message.kind = "push" THEN "push" ELSE "command")
       /\ own' = (own /\ ~(message.kind = "push" /\ message.queue = local))

HandleMessage(g) ==
    /\ outbox[g] # <<>>
    /\ outbox' = [outbox EXCEPT ![g] = Tail(@)]
    /\ IF Head(outbox[g]).kind = "report" THEN HandleReport
       ELSE HandleCommand(g, Head(outbox[g]))
    /\ UNCHANGED <<settingVars, generation, connected, gate, shared, applying, synced, resume,
                   local, at, held, registered>>

\* The server notices that a connection is gone, and releases its device.
Unregister(g) ==
    /\ at[g] \in Disconnected
    /\ registered = g \/ outbox[g] # <<>>
    /\ outbox' = [outbox EXCEPT ![g] = <<>>]
    /\ registered' = IF registered = g THEN Chooser ELSE registered
    /\ IF registered = g /\ room.active = Me
       THEN /\ room.seq + Pushes < MaxSeq
            /\ room' = [room EXCEPT !.seq = @ + 1, !.active = Nobody, !.by = Me]
       ELSE UNCHANGED room
    /\ UNCHANGED <<settingVars, generation, connected, gate, shared, applying, synced, resume,
                   localVars, at, held, inbox>>

OthersMayAct ==
    /\ MayOvertake
    /\ room.seq + Pushes < MaxSeq
    /\ registered # Chooser => Waiting(registered) < MaxWaiting

\* A command, push or transfer of another device.  What this device does to
\* transfer or start playback looks the same to it: the author of a state
\* matters only in reports, in pushes, and where no device is active.
OtherDevice(queue, active) ==
    /\ OthersMayAct
    /\ active \in {room.active, Other} \cup (IF registered # Chooser THEN {Me} ELSE {})
    /\ active = Nobody => queue = Empty
    /\ Change([seq |-> room.seq + 1, active |-> active, queue |-> queue, by |-> Other], "command")
    /\ UNCHANGED <<settingVars, generation, connected, gate, shared, applying, synced, resume,
                   localVars, at, held, registered, outbox>>

OtherOffline ==
    /\ OthersMayAct
    /\ room.active = Other
    /\ Change([room EXCEPT !.seq = @ + 1, !.active = Nobody, !.by = Other], "activeOffline")
    /\ UNCHANGED <<settingVars, generation, connected, gate, shared, applying, synced, resume,
                   localVars, at, held, registered, outbox>>

-----------------------------------------------------------------------------
Init ==
    /\ enabled \in BOOLEAN /\ forgetting = FALSE
    /\ generation = 1 /\ connected = FALSE
    /\ gate = Open /\ shared = NoRow /\ applying = NoSeq /\ synced = Unknown /\ resume = "none"
    /\ local \in Mine /\ own = (local # Empty)
    /\ at = [t \in Tasks |-> IF t = Chooser THEN "ready" ELSE IF t = 1 THEN "offline" ELSE "over"]
    /\ held = [t \in Tasks |-> NothingHeld]
    /\ room = [seq |-> 0, active |-> Nobody, queue |-> Empty, by |-> Nobody]
    /\ registered = Chooser
    /\ inbox = [g \in Loops |-> <<>>] /\ outbox = [g \in Loops |-> <<>>]

\* The steps a task takes by itself.
LoopStep(g) ==
    \/ EndLoop(g)
    \/ ReceiveShared(g) \/ ReceiveError(g)
    \/ Classify(g) \/ AskUser(g)
    \/ ReadLocal(g) \/ ClosePush(g) \/ SendPush(g)
    \/ Deliver(g) \/ BeginApply(g) \/ ApplyShared(g) \/ EndApply(g) \/ Flush(g)

ChooserStep ==
    \/ ClosePush(Chooser) \/ SendPush(Chooser)
    \/ BeginApply(Chooser) \/ ApplyShared(Chooser) \/ EndApply(Chooser)

Next ==
    \/ TurnOff \/ Restart
    \/ /\ forgetting => "restart" \in Races
       /\ \/ \E g \in Loops :
                LoopStep(g) \/ Login(g) \/ Connect(g) \/ Disconnect(g)
                    \/ HandleMessage(g) \/ Unregister(g)
          \/ ChooserStep \/ ReadLocal(Chooser) \/ ChoosePull
          \/ PublishStatus
          \/ \E queue \in Mine : EditQueue(queue)
          \/ \E queue \in Theirs \cup {room.queue}, active \in {Me, Other, Nobody} : OtherDevice(queue, active)
          \/ OtherOffline

\* Tasks run when they can, the server answers, and a loop whose sender was
\* dropped by a restart, or whose connection attempt ends, goes on.
Fairness ==
    /\ WF_vars(ChooserStep)
    /\ \A g \in Loops :
          /\ WF_vars(LoopStep(g))
          /\ WF_vars(HandleMessage(g))
          /\ WF_vars(g # generation /\ Disconnect(g))

Spec == Init /\ [][Next]_vars /\ Fairness

-----------------------------------------------------------------------------
(* What a session promises.                                                *)

\* Every variable has its type, and a task holds what its next step needs.
TypeOK ==
    /\ enabled \in BOOLEAN /\ forgetting \in BOOLEAN
    /\ generation \in Loops /\ connected \in BOOLEAN
    /\ gate \in {Open, AwaitingChoice} \cup [kind: {"pushing"}, id: Nat, user: BOOLEAN]
    /\ shared \in Row \cup {NoRow}
    /\ applying \in Nat \cup {NoSeq}
    /\ synced \in Queues \cup {Unknown}
    /\ resume \in Resumes \cup {"none"}
    /\ local \in Queues /\ own \in BOOLEAN
    /\ room \in Row /\ registered \in Tasks
    /\ \A g \in Loops :
          /\ \A i \in DOMAIN outbox[g] :
                outbox[g][i] \in [kind: {"report"}]
                    \cup [kind: {"edit"}, base: Nat, queue: Queues]
                    \cup [kind: {"push"}, id: Nat, base: Nat, queue: Queues]
          /\ \A i \in DOMAIN inbox[g] :
                \/ inbox[g][i].kind = "error" /\ inbox[g][i].id \in Nat
                \/ inbox[g][i].kind = "shared" /\ inbox[g][i].row \in Row
    /\ \A t \in Tasks :
          CASE at[t] \in Idle \cup {"reading", "asking"} -> TRUE
            [] at[t] \in {"closing", "pushing"} -> held[t] \in [id: Nat, queue: Queues]
            [] at[t] \in {"classify", "deliver", "begin", "applying", "applied", "failed", "flush"} ->
                  /\ held[t].row \in Row
                  /\ held[t].generation \in IF t = Chooser THEN 1 .. generation ELSE {t}

\* The mark that keeps the device from reporting what it applies is that of
\* a task that is applying: it does not outlive the task, whatever restarts
\* and other applies come in between (begin_apply_shared, end_apply_shared;
\* begin_restart leaves the mark alone).
ApplyMarked ==
    applying # NoSeq =>
        \E t \in Tasks : at[t] \in {"applying", "applied", "failed"} /\ held[t].row.seq = applying

\* A push ends: the gate does not stay closed without the user being asked.
PushEnds == gate.kind = "pushing" ~> gate.kind # "pushing"

\* "so the local queue survives until the conflict found on connect is
\* resolved" (QueueGate): no connection loop replaces a queue of the user's.
LocalQueueSurvives ==
    [][\A g \in Loops : own /\ at[g] = "applying" /\ at'[g] # "applying" => local' = local]_vars

\* "the local queue from then on is the user's own, even if it still matches
\* the last shared queue" (forget_synced_queue): while Connect is off, no
\* shared queue is remembered as the origin of the local one.
ForgottenStaysForgotten == ~enabled /\ ~forgetting => synced = Unknown

\* Once all messages are handled and no conflict is open, the device has the
\* queue of the server, whoever changed it last.
Quiet ==
    /\ connected /\ gate = Open
    /\ registered = generation /\ inbox[generation] = <<>>
    /\ at[generation] = "ready" /\ at[Chooser] = "ready"
    /\ \A g \in Loops : at[g] \in Idle
SessionInSync == Quiet => shared = room /\ local = room.queue
=============================================================================
