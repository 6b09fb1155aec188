------------------------- MODULE ConnectSessionProofs ------------------------
(***************************************************************************)
(* Of one session, for any number of restarts, of messages and of queues:  *)
(*   the apply mark is that of a task that applies, whatever overlaps;     *)
(*   the origin of the local queue stays forgotten while Connect is off,   *)
(*   where no task handles something as the session is restarted;          *)
(*   every variable keeps its type, whatever overlaps; and                 *)
(*   where nothing overlaps, the gate does its work: a queue of the user's *)
(*   is not replaced by a loop, and the device ends in step with the       *)
(*   server.                                                               *)
(***************************************************************************)
EXTENDS ConnectSession, TLAPS, FiniteSetTheorems, WellFoundedInduction

\* Loops yet to be started have done nothing: a restart starts its loop in a
\* place where no task is applying.
NotYetStarted == \A g \in Loops : g > generation => at[g] = "over"

MarkInv ==
    /\ generation \in Nat /\ generation \in Loops
    /\ DOMAIN at = Tasks /\ DOMAIN held = Tasks
    /\ NotYetStarted
    /\ ApplyMarked

InApply(t) == at[t] \in {"applying", "applied", "failed"}

-----------------------------------------------------------------------------
(* Two ways to keep the invariant.                                         *)

\* A step that leaves the mark, and moves or loads at most one task, which is
\* not applying before it.
LEMMA OtherStepMarked ==
    ASSUME MarkInv, NEW t \in Tasks, ~InApply(t),
           at[t] # "over", generation' = generation, applying' = applying,
           \E label : at' = [at EXCEPT ![t] = label],
           held' = held \/ \E work : held' = [held EXCEPT ![t] = work]
    PROVE  MarkInv'
  <1>1. generation' \in Nat /\ generation' \in Loops /\ DOMAIN at' = Tasks /\ DOMAIN held' = Tasks
    BY DEF MarkInv
  <1>2. \A u \in Tasks : u # t => at'[u] = at[u] /\ held'[u] = held[u]
    BY DEF MarkInv
  <1>3. NotYetStarted'
    BY <1>2 DEF MarkInv, NotYetStarted, Loops, Tasks
  <1>4. ApplyMarked'
    BY <1>2 DEF MarkInv, ApplyMarked, InApply
  <1>5. QED
    BY <1>1, <1>3, <1>4 DEF MarkInv

\* A step that leaves the mark, the tasks and the generation alone.
LEMMA SameMarked ==
    ASSUME MarkInv, UNCHANGED <<generation, applying, at, held>>
    PROVE  MarkInv'
  BY DEF MarkInv, NotYetStarted, ApplyMarked

-----------------------------------------------------------------------------
(* The actions that begin, carry out and end an apply, and the restart.    *)

LEMMA RestartMarked ==
    ASSUME MarkInv, Restart
    PROVE  MarkInv'
  <1>1. generation + 1 \in Loops /\ generation' = generation + 1
    BY SessionBoundsAssumption DEF MarkInv, Restart, Loops
  <1>2. at[generation + 1] = "over"
    BY <1>1 DEF MarkInv, NotYetStarted, Loops
  <1>3. at' = [at EXCEPT ![generation + 1] = "offline"]
    BY DEF Restart, Goto
  <1>4. applying' = applying /\ held' = held
    BY DEF Restart
  <1>5. generation' \in Nat /\ generation' \in Loops /\ DOMAIN at' = Tasks /\ DOMAIN held' = Tasks
    BY <1>1, <1>3, <1>4 DEF MarkInv
  <1>6. NotYetStarted'
    BY <1>1, <1>3 DEF MarkInv, NotYetStarted, Loops, Tasks
  <1>7. ApplyMarked'
    BY <1>2, <1>3, <1>4 DEF MarkInv, ApplyMarked
  <1>8. QED
    BY <1>5, <1>6, <1>7 DEF MarkInv

LEMMA BeginApplyMarked ==
    ASSUME MarkInv, NEW t \in Tasks, BeginApply(t)
    PROVE  MarkInv'
  <1>1. at[t] = "begin" /\ generation' = generation
    BY DEF BeginApply
  <1>2. CASE connected /\ held[t].generation = generation
    <2>1. applying' = held[t].row.seq /\ at' = [at EXCEPT ![t] = "applying"] /\ held' = held
      BY <1>2 DEF BeginApply, Goto
    <2>2. ApplyMarked'
      BY <2>1 DEF MarkInv, ApplyMarked
    <2>3. NotYetStarted'
      BY <1>1, <2>1 DEF MarkInv, NotYetStarted, Loops, Tasks
    <2>4. QED
      BY <1>1, <2>1, <2>2, <2>3 DEF MarkInv
  <1>3. CASE ~(connected /\ held[t].generation = generation)
    <2>1. applying' = applying /\ Finish(t)
      BY <1>3 DEF BeginApply
    <2>2. \E label : at' = [at EXCEPT ![t] = label]
      BY <2>1 DEF Finish, Goto
    <2>3. held' = held \/ \E work : held' = [held EXCEPT ![t] = work]
      BY <2>1 DEF Finish, Hold
    <2>4. QED
      BY <1>1, <2>1, <2>2, <2>3, OtherStepMarked DEF InApply
  <1>4. QED
    BY <1>2, <1>3

LEMMA ApplySharedMarked ==
    ASSUME MarkInv, NEW t \in Tasks, ApplyShared(t)
    PROVE  MarkInv'
  <1>1. /\ at[t] = "applying"
        /\ generation' = generation /\ applying' = applying /\ held' = held
        /\ at' = [at EXCEPT ![t] = "applied"] \/ at' = [at EXCEPT ![t] = "failed"]
    BY DEF ApplyShared, Goto
  <1>2. NotYetStarted'
    BY <1>1 DEF MarkInv, NotYetStarted, Loops, Tasks
  <1>3. ApplyMarked'
    BY <1>1 DEF MarkInv, ApplyMarked
  <1>4. QED
    BY <1>1, <1>2, <1>3 DEF MarkInv

\* A task that ends either clears the mark, because it is its own, or leaves
\* the mark to the task it belongs to.
LEMMA EndApplyMarked ==
    ASSUME MarkInv, NEW t \in Tasks, EndApply(t)
    PROVE  MarkInv'
  <1>1. /\ InApply(t) /\ generation' = generation
        /\ applying' = IF applying = held[t].row.seq THEN NoSeq ELSE applying
        /\ Finish(t)
    BY DEF EndApply, InApply
  <1>2. DOMAIN at' = Tasks /\ DOMAIN held' = Tasks
    BY <1>1 DEF MarkInv, Finish, Goto, Hold
  <1>3. \A u \in Tasks : u # t => at'[u] = at[u] /\ held'[u] = held[u]
    BY <1>1 DEF MarkInv, Finish, Goto, Hold
  <1>4. NotYetStarted'
    BY <1>1, <1>3 DEF MarkInv, NotYetStarted, InApply, Loops, Tasks
  <1>5. ApplyMarked'
    BY <1>1, <1>3 DEF MarkInv, ApplyMarked
  <1>6. QED
    BY <1>1, <1>2, <1>4, <1>5 DEF MarkInv

-----------------------------------------------------------------------------
(* All steps.                                                              *)

LEMMA LoopStepMarked ==
    ASSUME MarkInv, NEW g \in Loops, LoopStep(g) \/ Login(g) \/ Connect(g) \/ Disconnect(g)
    PROVE  MarkInv'
  <1>1. g \in Tasks
    BY DEF Tasks
  <1> DEFINE Moves(label) == at' = [at EXCEPT ![g] = label]
             Loads(work) == held' = [held EXCEPT ![g] = work]
             Elsewhere == /\ ~InApply(g) /\ at[g] # "over"
                          /\ generation' = generation /\ applying' = applying
                          /\ \E label : Moves(label)
                          /\ held' = held \/ \E work : Loads(work)
  <1>2. CASE Elsewhere
    BY <1>1, <1>2, OtherStepMarked
  <1>3. CASE EndLoop(g)
    <2>1. Elsewhere
      BY <1>3 DEF EndLoop, Goto, InApply
    <2>2. QED
      BY <1>2, <2>1
  <1>4. CASE Login(g) \/ Connect(g) \/ Disconnect(g)
    <2>1. Elsewhere
      BY <1>4 DEF Login, Connect, Disconnect, Goto, InApply
    <2>2. QED
      BY <1>2, <2>1
  <1>5. CASE ReceiveShared(g)
    <2>1. at[g] = "ready" /\ generation' = generation /\ applying' = applying
      BY <1>5 DEF ReceiveShared
    <2>2. \/ UNCHANGED <<at, held>>
          \/ /\ \E label : Moves(label)
             /\ \E work : Loads(work)
      BY <1>5 DEF ReceiveShared, Goto, Hold
    <2>3. QED
      BY <1>2, <2>1, <2>2, SameMarked DEF InApply
  <1>6. CASE ReceiveError(g)
    BY <1>6, SameMarked DEF ReceiveError
  <1>7. CASE Classify(g) \/ AskUser(g) \/ Deliver(g)
    <2>1. Elsewhere
      BY <1>7 DEF Classify, AskUser, Deliver, Goto, Hold, InApply
    <2>2. QED
      BY <1>2, <2>1
  <1>8. CASE ReadLocal(g) \/ ClosePush(g) \/ SendPush(g)
    <2>1. Elsewhere
      BY <1>8 DEF ReadLocal, ClosePush, SendPush, Goto, Hold, InApply, Chooser, Loops
    <2>2. QED
      BY <1>2, <2>1
  <1>9. CASE Flush(g)
    <2>1. Elsewhere
      BY <1>9 DEF Flush, Goto, Hold, InApply
    <2>2. QED
      BY <1>2, <2>1
  <1>10. CASE BeginApply(g) \/ ApplyShared(g) \/ EndApply(g)
    BY <1>1, <1>10, BeginApplyMarked, ApplySharedMarked, EndApplyMarked
  <1>11. QED
    BY <1>3, <1>4, <1>5, <1>6, <1>7, <1>8, <1>9, <1>10 DEF LoopStep

LEMMA ChooserMarked ==
    ASSUME MarkInv, ChooserStep \/ ReadLocal(Chooser) \/ ChoosePull
    PROVE  MarkInv'
  <1>1. Chooser \in Tasks
    BY DEF Tasks
  <1>2. CASE ReadLocal(Chooser) \/ ChoosePull \/ ClosePush(Chooser) \/ SendPush(Chooser)
    <2>1. /\ ~InApply(Chooser) /\ at[Chooser] # "over"
          /\ generation' = generation /\ applying' = applying
      BY <1>2 DEF ReadLocal, ChoosePull, ClosePush, SendPush, InApply
    <2>2. /\ \E label : at' = [at EXCEPT ![Chooser] = label]
          /\ \E work : held' = [held EXCEPT ![Chooser] = work]
      BY <1>2 DEF ReadLocal, ChoosePull, ClosePush, SendPush, Goto, Hold
    <2>3. QED
      BY <1>1, <2>1, <2>2, OtherStepMarked
  <1>3. CASE BeginApply(Chooser) \/ ApplyShared(Chooser) \/ EndApply(Chooser)
    BY <1>1, <1>3, BeginApplyMarked, ApplySharedMarked, EndApplyMarked
  <1>4. QED
    BY <1>2, <1>3 DEF ChooserStep

LEMMA NextMarked ==
    ASSUME MarkInv, [Next]_vars
    PROVE  MarkInv'
  <1>1. CASE TurnOff \/ PublishStatus \/ OtherOffline
    BY <1>1, SameMarked DEF TurnOff, PublishStatus, OtherOffline
  <1>2. CASE Restart
    BY <1>2, RestartMarked
  <1>3. ASSUME NEW g \in Loops, LoopStep(g) \/ Login(g) \/ Connect(g) \/ Disconnect(g)
        PROVE  MarkInv'
    BY <1>3, LoopStepMarked
  <1>4. ASSUME NEW g \in Loops, HandleMessage(g) \/ Unregister(g)
        PROVE  MarkInv'
    BY <1>4, SameMarked DEF HandleMessage, Unregister
  <1>5. CASE ChooserStep \/ ReadLocal(Chooser) \/ ChoosePull
    BY <1>5, ChooserMarked
  <1>6. ASSUME NEW queue \in Mine, EditQueue(queue)
        PROVE  MarkInv'
    BY <1>6, SameMarked DEF EditQueue
  <1>7. ASSUME NEW queue \in Theirs \cup {room.queue}, NEW active \in {Me, Other, Nobody},
               OtherDevice(queue, active)
        PROVE  MarkInv'
    BY <1>7, SameMarked DEF OtherDevice
  <1>8. CASE UNCHANGED vars
    BY <1>8, SameMarked DEF vars
  <1>9. QED
    BY <1>1, <1>2, <1>3, <1>4, <1>5, <1>6, <1>7, <1>8 DEF Next

LEMMA InitMarked == Init => MarkInv
  BY SessionBoundsAssumption DEF Init, MarkInv, NotYetStarted, ApplyMarked, Loops, Tasks, Chooser

\* A device that has stopped applying is never kept from reporting: the mark
\* is always that of a task that applies, for every number of restarts.
THEOREM ApplyMarkedCorrect == Spec => []ApplyMarked
  <1>1. MarkInv => ApplyMarked
    BY DEF MarkInv
  <1>2. QED
    BY <1>1, InitMarked, NextMarked, PTL DEF Spec

-----------------------------------------------------------------------------
(* Connect turned off.                                                     *)

\* From the moment it is turned off no task works on anything, and once the
\* loop is restarted the gate is open and the loop does not connect.
OffInv ==
    /\ forgetting => synced = Unknown /\ \A t \in Tasks : at[t] \in Idle
    /\ ~enabled /\ ~forgetting =>
          /\ synced = Unknown /\ gate = Open
          /\ at[generation] \in {"offline", "over"}
          /\ \A t \in Tasks : at[t] \in Idle

\* A step while Connect is on, and of none of the two actions that change
\* the setting.
LEMMA OnStepOff ==
    ASSUME OffInv, enabled, ~forgetting, UNCHANGED settingVars
    PROVE  OffInv'
  BY DEF OffInv, settingVars

LEMMA TurnOffOff ==
    ASSUME OffInv, "restart" \notin Races, TurnOff
    PROVE  OffInv'
  BY DEF OffInv, TurnOff, MayInterrupt

LEMMA RestartOff ==
    ASSUME OffInv, MarkInv, "restart" \notin Races, Restart
    PROVE  OffInv'
  <1>1. generation + 1 \in Tasks
    BY SessionBoundsAssumption DEF MarkInv, Restart, Loops, Tasks
  <1>2. /\ generation' = generation + 1 /\ gate' = Open /\ synced' = synced
        /\ at' = [at EXCEPT ![generation + 1] = "offline"]
        /\ forgetting' = FALSE
    BY DEF Restart, Goto
  <1>3. \A t \in Tasks : at[t] \in Idle
    BY DEF Restart, MayInterrupt
  <1>4. \A t \in Tasks : at'[t] \in Idle
    BY <1>2, <1>3 DEF Idle, MarkInv
  <1>5. at'[generation'] = "offline"
    BY <1>1, <1>2 DEF MarkInv
  <1>6. ~enabled' => synced = Unknown
    BY DEF Restart, OffInv
  <1>7. QED
    BY <1>2, <1>4, <1>5, <1>6 DEF OffInv

\* While Connect is off, what is left of the tasks only ends.
LEMMA QuietStepOff ==
    ASSUME OffInv, MarkInv, ~enabled, ~forgetting, UNCHANGED settingVars,
           synced' = synced, gate' = gate, generation' = generation,
           NEW t \in Tasks, NEW label \in Idle,
           t = generation => label \in {"offline", "over"},
           at' = at \/ at' = [at EXCEPT ![t] = label]
    PROVE  OffInv'
  <1>1. /\ at[generation] \in {"offline", "over"}
        /\ \A u \in Tasks : at[u] \in Idle
    BY DEF OffInv
  <1>2. at'[generation] \in {"offline", "over"}
    BY <1>1 DEF MarkInv, Tasks
  <1>3. \A u \in Tasks : at'[u] \in Idle
    BY <1>1 DEF MarkInv
  <1>4. QED
    BY <1>1, <1>2, <1>3 DEF OffInv, settingVars

LEMMA LoopOff ==
    ASSUME OffInv, MarkInv, ~enabled, ~forgetting, NEW g \in Loops,
           LoopStep(g) \/ Login(g) \/ Connect(g) \/ Disconnect(g)
    PROVE  OffInv'
  <1>1. /\ g \in Tasks /\ g # Chooser /\ at[g] \in Idle /\ gate = Open
        /\ at[generation] \in {"offline", "over"}
    BY DEF OffInv, Tasks, Loops, Chooser
  <1> DEFINE Calm(label) ==
                 /\ UNCHANGED settingVars /\ synced' = synced /\ gate' = gate
                 /\ generation' = generation
                 /\ g = generation => label \in {"offline", "over"}
                 /\ at' = at \/ at' = [at EXCEPT ![g] = label]
  <1>2. ASSUME NEW label \in Idle, Calm(label)
        PROVE  OffInv'
    BY <1>1, <1>2, QuietStepOff
  <1>3. CASE EndLoop(g)
    <2>1. Calm("over")
      BY <1>1, <1>3 DEF EndLoop, Goto
    <2>2. QED
      BY <1>2, <2>1 DEF Idle
  <1>4. CASE Login(g)
    BY <1>4 DEF Login
  <1>5. CASE Connect(g)
    <2>1. Calm("ready")
      BY <1>1, <1>5 DEF Connect, Goto
    <2>2. QED
      BY <1>2, <2>1 DEF Idle
  <1>6. CASE Disconnect(g)
    <2>1. Calm("offline")
      BY <1>1, <1>6 DEF Disconnect, Goto
    <2>2. QED
      BY <1>2, <2>1 DEF Idle
  <1>7. CASE ReceiveShared(g)
    <2>1. g # generation
      BY <1>1, <1>7 DEF ReceiveShared
    <2>2. Calm("offline")
      BY <1>7, <2>1 DEF ReceiveShared
    <2>3. QED
      BY <1>2, <2>2 DEF Idle
  <1>8. CASE ReceiveError(g)
    <2>1. Calm("offline")
      BY <1>1, <1>8 DEF ReceiveError, AfterFailedPush, Open
    <2>2. QED
      BY <1>2, <2>1 DEF Idle
  <1>9. ~Classify(g) /\ ~AskUser(g) /\ ~ReadLocal(g) /\ ~ClosePush(g) /\ ~SendPush(g)
    BY <1>1 DEF Classify, AskUser, ReadLocal, ClosePush, SendPush, Idle
  <1>10. ~Deliver(g) /\ ~BeginApply(g) /\ ~ApplyShared(g) /\ ~EndApply(g) /\ ~Flush(g)
    BY <1>1 DEF Deliver, BeginApply, ApplyShared, EndApply, Flush, Idle
  <1>11. QED
    BY <1>3, <1>4, <1>5, <1>6, <1>7, <1>8, <1>9, <1>10 DEF LoopStep

LEMMA ChooserOff ==
    ASSUME OffInv, ~enabled, ~forgetting, ChooserStep \/ ReadLocal(Chooser) \/ ChoosePull
    PROVE  FALSE
  <1>1. at[Chooser] \in Idle /\ gate = Open
    BY DEF OffInv, Tasks
  <1>2. gate # AwaitingChoice
    BY <1>1 DEF Open, AwaitingChoice
  <1>3. ~ReadLocal(Chooser) /\ ~ChoosePull
    BY <1>2 DEF ReadLocal, ChoosePull
  <1>4. ~ChooserStep
    BY <1>1 DEF ChooserStep, ClosePush, SendPush, BeginApply, ApplyShared, EndApply, Idle
  <1>5. QED
    BY <1>3, <1>4

LEMMA NextOff ==
    ASSUME OffInv, MarkInv, "restart" \notin Races, [Next]_vars
    PROVE  OffInv'
  <1>1. CASE TurnOff \/ Restart
    BY <1>1, TurnOffOff, RestartOff
  <1>2. CASE UNCHANGED vars
    BY <1>2 DEF vars, OffInv, settingVars
  <1>3. CASE ~(TurnOff \/ Restart) /\ Next
    <2>1. ~forgetting
      BY <1>3 DEF Next
    <2> DEFINE Server == \/ \E g \in Loops : HandleMessage(g) \/ Unregister(g)
                         \/ PublishStatus \/ OtherOffline
                         \/ \E queue \in Mine : EditQueue(queue)
                         \/ \E queue \in Theirs \cup {room.queue},
                                active \in {Me, Other, Nobody} : OtherDevice(queue, active)
               Loop == \E g \in Loops :
                          LoopStep(g) \/ Login(g) \/ Connect(g) \/ Disconnect(g)
               Choose == ChooserStep \/ ReadLocal(Chooser) \/ ChoosePull
    <2>2. Server \/ Loop \/ Choose
      BY <1>3 DEF Next
    <2>3. CASE Server
      <3>1. UNCHANGED <<settingVars, synced, gate, generation, at>>
        BY <2>3 DEF HandleMessage, Unregister, PublishStatus, OtherOffline, EditQueue, OtherDevice
      <3>2. QED
        BY <3>1 DEF OffInv, settingVars
    <2>4. CASE enabled /\ Loop
      <3>1. UNCHANGED settingVars
        BY <2>4 DEF LoopStep, Login, Connect, Disconnect, EndLoop, ReceiveShared, ReceiveError,
           Classify, AskUser, ReadLocal, ClosePush, SendPush, Deliver, BeginApply, ApplyShared,
           EndApply, Flush
      <3>2. QED
        BY <2>1, <2>4, <3>1, OnStepOff
    <2>5. CASE enabled /\ Choose
      <3>1. UNCHANGED settingVars
        BY <2>5 DEF ChooserStep, ReadLocal, ChoosePull, ClosePush, SendPush, BeginApply,
           ApplyShared, EndApply
      <3>2. QED
        BY <2>1, <2>5, <3>1, OnStepOff
    <2>6. CASE ~enabled /\ Loop
      BY <2>1, <2>6, LoopOff
    <2>7. CASE ~enabled /\ Choose
      BY <2>1, <2>7, ChooserOff
    <2>8. QED
      BY <2>2, <2>3, <2>4, <2>5, <2>6, <2>7
  <1>4. QED
    BY <1>1, <1>2, <1>3

LEMMA InitOff == Init => OffInv
  <1>1. Init => generation = 1 /\ 1 \in Tasks /\ ~forgetting /\ synced = Unknown /\ gate = Open
    BY SessionBoundsAssumption DEF Init, Tasks, Loops
  <1>2. Init => at[1] = "offline" /\ \A t \in Tasks : at[t] \in Idle
    BY <1>1 DEF Init, Idle, Chooser
  <1>3. QED
    BY <1>1, <1>2 DEF OffInv

\* While Connect is off, no shared queue is remembered as the origin of the
\* local one (forget_synced_queue): where a restart waits for what the tasks
\* are handling, for every other overlap of tasks, messages and failures.
THEOREM OriginStaysForgotten ==
    ASSUME "restart" \notin Races
    PROVE  Spec => []ForgottenStaysForgotten
  <1>1. OffInv => ForgottenStaysForgotten
    BY DEF OffInv, ForgottenStaysForgotten
  <1>2. Init => OffInv /\ MarkInv
    BY InitOff, InitMarked
  <1>3. OffInv /\ MarkInv /\ [Next]_vars => (OffInv /\ MarkInv)'
    BY NextOff, NextMarked
  <1>4. QED
    BY <1>1, <1>2, <1>3, PTL DEF Spec

-----------------------------------------------------------------------------
(* Types.                                                                  *)

Reasons == {"snapshot", "push", "command", "report", "activeOffline", "stale"}
Inbound == [kind: {"shared"}, row: Row, reason: Reasons] \cup [kind: {"error"}, id: Nat]
Outbound ==
    [kind: {"report"}] \cup [kind: {"edit"}, base: Nat, queue: Queues]
        \cup [kind: {"push"}, id: Nat, base: Nat, queue: Queues]
Gates == {Open, AwaitingChoice} \cup [kind: {"pushing"}, id: Nat, user: BOOLEAN]
SharedWork == [row: Row, reason: Reasons \cup {"pull"}, generation: Loops]
PushWork == [id: Nat, queue: Queues]

Working == {"classify", "deliver", "begin", "applying", "applied", "failed", "flush"}
Pushings == {"closing", "pushing"}
ChooserLabels == {"ready", "closing", "pushing", "begin", "applying", "applied", "failed"}
Labels == Idle \cup Working \cup Pushings \cup {"reading", "asking"}

TaskTyped(t, label, work, latest) ==
    /\ label \in Pushings => work \in PushWork
    /\ label \in Working =>
          work \in SharedWork /\ (t = Chooser \/ work.generation = t)
    /\ t = Chooser => label \in ChooserLabels /\ (label \in Working => work.generation <= latest)

Settings ==
    /\ enabled \in BOOLEAN /\ forgetting \in BOOLEAN
    /\ generation \in Loops /\ connected \in BOOLEAN
    /\ gate \in Gates
    /\ shared \in Row \cup {NoRow}
    /\ applying \in Nat \cup {NoSeq}
    /\ synced \in Queues \cup {Unknown}
    /\ resume \in Resumes \cup {"none"}
    /\ local \in Queues /\ own \in BOOLEAN
    /\ room \in Row /\ registered \in Tasks
Channels == inbox \in [Loops -> Seq(Inbound)] /\ outbox \in [Loops -> Seq(Outbound)]
Works ==
    /\ at \in [Tasks -> Labels]
    /\ held \in [Tasks -> {NothingHeld} \cup SharedWork \cup PushWork]
    /\ \A t \in Tasks : TaskTyped(t, at[t], held[t], generation)
Typed == Settings /\ Channels /\ Works

-----------------------------------------------------------------------------
(* Ids of pushes.                                                          *)

\* The values of a function on a finite set are finitely many.
LEMMA FiniteValues ==
    ASSUME NEW S, IsFiniteSet(S), NEW f, DOMAIN f = S
    PROVE  IsFiniteSet({f[x] : x \in S})
  <1> DEFINE T == {f[x] : x \in S}
             g == [x \in S |-> f[x]]
  <1>1. g \in Surjection(S, T)
    BY DEF Surjection
  <1> QED BY <1>1, FS_Surjection

LEMMA FiniteIds ==
    ASSUME NEW M, NEW messages \in Seq(M)
    PROVE  IsFiniteSet(IdsOf(messages))
  <1> DEFINE S == {j \in DOMAIN messages : messages[j].kind \in {"push", "error"}}
             f == [i \in S |-> messages[i].id]
  <1>1. IsFiniteSet(S)
    <2>1. DOMAIN messages = 1 .. Len(messages) /\ Len(messages) \in Nat
      OBVIOUS
    <2>2. IsFiniteSet(1 .. Len(messages))
      BY <2>1, FS_Interval
    <2>3. S \subseteq 1 .. Len(messages)
      BY <2>1
    <2> HIDE DEF S
    <2> QED BY <2>2, <2>3, FS_Subset
  <1>2. IdsOf(messages) = {f[i] : i \in S}
    BY DEF IdsOf
  <1> HIDE DEF S
  <1>3. DOMAIN f = S
    OBVIOUS
  <1> HIDE DEF f
  <1>4. IsFiniteSet({f[i] : i \in S})
    BY <1>1, <1>3, FiniteValues
  <1> QED BY <1>2, <1>4

\* Of finitely many numbers there is a smallest that is none of them.
LEMMA SmallestFree ==
    ASSUME NEW U, IsFiniteSet(U)
    PROVE  \E id \in 1 .. (Cardinality(U) + 1) :
              id \notin U /\ \A other \in 1 .. (id - 1) : other \in U
  <1> DEFINE n == Cardinality(U) + 1
             free == (1 .. n) \ U
  <1>1. Cardinality(U) \in Nat
    BY FS_CardinalityType
  <1>2. free # {}
    <2> SUFFICES ASSUME 1 .. n \subseteq U PROVE FALSE
      OBVIOUS
    <2>1. Cardinality(1 .. n) = n
      BY <1>1, FS_Interval
    <2>2. Cardinality(1 .. n) <= Cardinality(U)
      BY FS_Subset
    <2> QED BY <1>1, <2>1, <2>2
  <1>3. PICK id \in free : \A y \in free : ~ (<<y, id>> \in OpToRel(<, Nat))
    <2>1. free \subseteq Nat
      BY <1>1
    <2> HIDE DEF free
    <2> QED BY <1>2, <2>1, NatLessThanWellFounded, WFMin
  <1>4. \A y \in free : ~(y < id)
    <2> SUFFICES ASSUME NEW y \in free, y < id PROVE FALSE
      OBVIOUS
    <2>1. y \in Nat /\ id \in Nat
      BY <1>1
    <2> DEFINE pair == <<y, id>>
    <2>2. pair \in Nat \X Nat /\ pair[1] = y /\ pair[2] = id
      BY <2>1
    <2>3. pair[1] < pair[2]
      BY <2>2
    <2> HIDE DEF pair
    <2>4. pair \in OpToRel(<, Nat)
      BY <2>2, <2>3 DEF OpToRel
    <2> QED BY <1>3, <2>4 DEF pair
  <1>5. ASSUME NEW other \in 1 .. (id - 1) PROVE other \in U
    BY <1>1, <1>4, <1>5
  <1> QED BY <1>5

\* The id of a new push is one no answer to come has.
LEMMA NewIdIsFree ==
    ASSUME Typed
    PROVE  NewId \in Nat /\ NewId \notin UsedIds
  <1> DEFINE pushers == {x \in Tasks : at[x] = "pushing"}
             ids == [t \in pushers |-> held[t].id]
             waiting == [g \in Loops |-> IdsOf(outbox[g]) \cup IdsOf(inbox[g])]
  <1>1. IsFiniteSet(Tasks) /\ IsFiniteSet(Loops)
    <2>1. IsFiniteSet(1 .. MaxGeneration)
      BY SessionBoundsAssumption, FS_Interval
    <2>2. IsFiniteSet({Chooser})
      BY FS_Singleton
    <2> QED BY <2>1, <2>2, FS_Union DEF Loops, Tasks
  <1>2. IsFiniteSet({ids[t] : t \in pushers})
    <2>1. IsFiniteSet(pushers)
      BY <1>1, FS_Subset
    <2> HIDE DEF pushers
    <2> QED BY <2>1, FiniteValues
  <1>3. IsFiniteSet(IF gate.kind = "pushing" THEN {gate.id} ELSE {})
    BY FS_EmptySet, FS_Singleton
  <1>4. IsFiniteSet(UNION {waiting[g] : g \in Loops})
    <2>1. IsFiniteSet({waiting[g] : g \in Loops})
      BY <1>1, FiniteValues
    <2>2. ASSUME NEW g \in Loops PROVE IsFiniteSet(waiting[g])
      BY FiniteIds, FS_Union DEF Typed, Channels
    <2> HIDE DEF waiting
    <2>3. \A T \in {waiting[g] : g \in Loops} : IsFiniteSet(T)
      BY <2>2
    <2> QED BY <2>1, <2>3, FS_UNION
  <1>5. UsedIds = {ids[t] : t \in pushers}
                     \cup (IF gate.kind = "pushing" THEN {gate.id} ELSE {})
                     \cup UNION {waiting[g] : g \in Loops}
    BY DEF UsedIds
  <1>6. IsFiniteSet(UsedIds)
    <2> HIDE DEF pushers, ids, waiting
    <2> QED BY <1>2, <1>3, <1>4, <1>5, FS_Union
  <1>7. \E id \in 1 .. (Cardinality(UsedIds) + 1) :
            id \notin UsedIds /\ \A other \in 1 .. (id - 1) : other \in UsedIds
    BY <1>6, SmallestFree
  <1>8. Cardinality(UsedIds) \in Nat
    BY <1>6, FS_CardinalityType
  <1> QED BY <1>7, <1>8 DEF NewId

\* A step of one task keeps what the tasks hold typed, if its own work is.
LEMMA StepWorks ==
    ASSUME Typed, NEW t \in Tasks, NEW label \in Labels, Goto(t, label),
           NEW work \in {NothingHeld} \cup SharedWork \cup PushWork,
           Hold(t, work) \/ (held' = held /\ work = held[t]),
           generation' = generation, TaskTyped(t, label, work, generation)
    PROVE  Works'
  <1>1. at' \in [Tasks -> Labels] /\ held' \in [Tasks -> {NothingHeld} \cup SharedWork \cup PushWork]
    BY DEF Typed, Works, Goto, Hold
  <1>2. at'[t] = label /\ held'[t] = work
    BY DEF Typed, Works, Goto, Hold
  <1>3. \A u \in Tasks : u # t => at'[u] = at[u] /\ held'[u] = held[u]
    BY DEF Typed, Works, Goto, Hold
  <1>4. \A u \in Tasks : TaskTyped(u, at'[u], held'[u], generation')
    BY <1>2, <1>3 DEF Typed, Works
  <1> QED BY <1>1, <1>4 DEF Works

LEMMA SameWorks ==
    ASSUME Typed, UNCHANGED <<at, held, generation>>
    PROVE  Works'
  BY DEF Typed, Works

\* A task whose next step needs nothing.
LEMMA RestWorks ==
    ASSUME Typed, NEW t \in Tasks,
           NEW label \in {"offline", "connecting", "ready", "over", "reading", "asking"},
           t = Chooser => label = "ready",
           Goto(t, label), held' = held \/ Hold(t, NothingHeld), generation' = generation
    PROVE  Works'
  <1>1. label \in Labels /\ label \notin Pushings /\ label \notin Working
    BY DEF Labels, Idle, Pushings, Working
  <1>2. t = Chooser => label \in ChooserLabels
    BY DEF ChooserLabels
  <1>3. \A work : TaskTyped(t, label, work, generation)
    BY <1>1, <1>2 DEF TaskTyped
  <1>4. held[t] \in {NothingHeld} \cup SharedWork \cup PushWork
    BY DEF Typed, Works
  <1>5. CASE held' = held
    BY <1>1, <1>3, <1>4, <1>5, StepWorks
  <1>6. CASE Hold(t, NothingHeld)
    BY <1>1, <1>3, <1>6, StepWorks
  <1> QED BY <1>5, <1>6

LEMMA SameChannels ==
    ASSUME Typed, UNCHANGED <<inbox, outbox>>
    PROVE  Channels'
  BY DEF Typed, Channels

LEMMA BoxTypes ==
    ASSUME Typed, NEW g \in Loops
    PROVE  /\ inbox[g] \in Seq(Inbound) /\ outbox[g] \in Seq(Outbound)
           /\ inbox[g] # <<>> => Head(inbox[g]) \in Inbound /\ Tail(inbox[g]) \in Seq(Inbound)
           /\ outbox[g] # <<>> => Head(outbox[g]) \in Outbound /\ Tail(outbox[g]) \in Seq(Outbound)
  <1>1. inbox[g] \in Seq(Inbound) /\ outbox[g] \in Seq(Outbound)
    BY DEF Typed, Channels
  <1> QED BY <1>1

LEMMA MessageTypes ==
    /\ \A row \in Row, reason \in Reasons : SharedMessage(row, reason) \in Inbound
    /\ \A id \in Nat : ErrorMessage(id) \in Inbound
    /\ \A m \in Inbound : m.kind = "shared" => m.row \in Row /\ m.reason \in Reasons
    /\ \A m \in Inbound : m.kind = "error" => m.id \in Nat
    /\ \A m \in Inbound : m.kind \in {"shared", "error"}
    /\ \A m \in Outbound : m.kind \in {"report", "edit", "push"}
    /\ \A m \in Outbound : m.kind \in {"edit", "push"} => m.base \in Nat /\ m.queue \in Queues
    /\ \A m \in Outbound : m.kind = "push" => m.id \in Nat
  BY DEF SharedMessage, ErrorMessage, Inbound, Outbound

LEMMA TaskIds ==
    /\ Chooser \in Tasks /\ Chooser \notin Loops
    /\ \A g \in Loops : g \in Tasks /\ g # Chooser /\ g \in Nat
  BY SessionBoundsAssumption DEF Chooser, Loops, Tasks

\* The number of a command's base.
LEMMA BaseType == Typed => BaseSeq \in Nat
  BY DEF Typed, Settings, BaseSeq, Row, NoRow

LEMMA AppendTyped ==
    ASSUME Typed, NEW g \in Loops, NEW m \in Outbound,
           outbox' = [outbox EXCEPT ![g] = Append(@, m)], inbox' = inbox
    PROVE  Channels'
  <1>1. Append(outbox[g], m) \in Seq(Outbound)
    BY BoxTypes
  <1> QED BY <1>1 DEF Typed, Channels

LEMMA TypedSetting ==
    ASSUME Typed, TurnOff \/ Restart
    PROVE  Typed'
  <1>1. CASE TurnOff
    <2>1. Settings'
      BY <1>1 DEF TurnOff, Typed, Settings, localVars, serverVars
    <2>2. Works' /\ Channels'
      BY <1>1, SameWorks, SameChannels DEF TurnOff
    <2> QED BY <2>1, <2>2 DEF Typed
  <1>2. CASE Restart
    <2>1. generation + 1 \in Loops /\ generation' = generation + 1 /\ generation \in Nat
      BY <1>2, SessionBoundsAssumption DEF Restart, Loops, Typed, Settings
    <2>2. Settings'
      BY <1>2, <2>1 DEF Restart, Typed, Settings, localVars, serverVars, Gates
    <2>3. Channels'
      BY <1>2, SameChannels DEF Restart
    <2>4. Works'
      <3>1. at' = [at EXCEPT ![generation + 1] = "offline"] /\ held' = held
        BY <1>2 DEF Restart, Goto
      <3>2. at' \in [Tasks -> Labels] /\ generation + 1 \in Tasks /\ generation + 1 # Chooser
        BY <2>1, <3>1, TaskIds DEF Typed, Works, Labels, Idle
      <3>3. \A t \in Tasks : TaskTyped(t, at'[t], held'[t], generation')
        <4> SUFFICES ASSUME NEW t \in Tasks PROVE TaskTyped(t, at'[t], held'[t], generation')
          OBVIOUS
        <4>1. CASE t = generation + 1
          BY <2>1, <3>1, <3>2, <4>1 DEF TaskTyped, Pushings, Working, Typed, Works
        <4>2. CASE t # generation + 1
          BY <2>1, <3>1, <3>2, <4>2 DEF TaskTyped, Typed, Works, SharedWork, Loops
        <4> QED BY <4>1, <4>2
      <3> QED BY <3>1, <3>2, <3>3 DEF Works, Typed
    <2> QED BY <2>2, <2>3, <2>4 DEF Typed
  <1> QED BY <1>1, <1>2

LEMMA TypedConnection ==
    ASSUME Typed, NEW g \in Loops,
           EndLoop(g) \/ Login(g) \/ Connect(g) \/ Disconnect(g) \/ Unregister(g)
    PROVE  Typed'
  <1>1. Settings'
    <2>1. CASE EndLoop(g) \/ Login(g) \/ Disconnect(g)
      BY <2>1 DEF EndLoop, Login, Disconnect, Typed, Settings, settingVars, localVars,
                  serverVars, Gates
    <2>2. CASE Connect(g)
      BY <2>2, TaskIds DEF Connect, Typed, Settings, settingVars, localVars
    <2>3. CASE Unregister(g)
      <3>1. room' \in Row
        <4> DEFINE r == [room EXCEPT !.seq = @ + 1, !.active = Nobody, !.by = Me]
        <4>1. room \in Row /\ room.seq + 1 \in Nat /\ room.queue \in Queues
          BY DEF Typed, Settings, Row
        <4>2. r \in Row
          BY <4>1 DEF Row
        <4> HIDE DEF r
        <4>3. room' \in {room, r}
          BY <2>3 DEF Unregister, r
        <4> QED BY <4>1, <4>2, <4>3
      <3>2. registered' \in Tasks
        BY <2>3, TaskIds DEF Unregister, Typed, Settings
      <3> QED BY <2>3, <3>1, <3>2 DEF Unregister, Typed, Settings, settingVars, localVars
    <2> QED BY <2>1, <2>2, <2>3
  <1>2. Channels'
    <2>1. CASE EndLoop(g) \/ Login(g)
      BY <2>1, SameChannels DEF EndLoop, Login
    <2>2. CASE Connect(g)
      <3>1. <<SharedMessage(room, "snapshot")>> \in Seq(Inbound)
        BY MessageTypes DEF Typed, Settings, Reasons
      <3> QED BY <2>2, <3>1 DEF Connect, Typed, Channels
    <2>3. CASE Disconnect(g) \/ Unregister(g)
      <3>1. <<>> \in Seq(Inbound) /\ <<>> \in Seq(Outbound)
        OBVIOUS
      <3> QED BY <2>3, <3>1 DEF Disconnect, Unregister, Typed, Channels
    <2> QED BY <2>1, <2>2, <2>3
  <1>3. Works'
    <2>1. CASE Unregister(g)
      BY <2>1, SameWorks DEF Unregister
    <2>2. CASE EndLoop(g) \/ Login(g) \/ Connect(g) \/ Disconnect(g)
      BY <2>2, RestWorks, TaskIds DEF EndLoop, Login, Connect, Disconnect
    <2> QED BY <2>1, <2>2
  <1> QED BY <1>1, <1>2, <1>3 DEF Typed

LEMMA TypedReceive ==
    ASSUME Typed, NEW g \in Loops, ReceiveShared(g) \/ ReceiveError(g)
    PROVE  Typed'
  <1>1. Channels'
    <2>1. inbox' = [inbox EXCEPT ![g] = Tail(@)] /\ outbox' = outbox /\ inbox[g] # <<>>
      BY DEF ReceiveShared, ReceiveError
    <2> QED BY <2>1, BoxTypes DEF Typed, Channels
  <1>2. CASE ReceiveError(g)
    <2>1. gate' \in Gates
      BY <1>2 DEF ReceiveError, AfterFailedPush, Gates, Typed, Settings
    <2>2. Settings'
      BY <1>2, <2>1 DEF ReceiveError, Typed, Settings, settingVars, localVars, serverVars
    <2>3. Works'
      BY <1>2, SameWorks DEF ReceiveError
    <2> QED BY <1>1, <2>2, <2>3 DEF Typed
  <1>3. CASE ReceiveShared(g)
    <2> DEFINE m == Head(inbox[g])
    <2>1. m.row \in Row /\ m.reason \in Reasons
      BY <1>3, BoxTypes, MessageTypes DEF ReceiveShared
    <2>2. Settings'
      <3>1. m.row.queue \in Queues
        BY <2>1 DEF Row
      <3>2. shared' \in {shared, m.row} /\ synced' \in {synced, m.row.queue} /\ gate' \in {gate, Open}
        BY <1>3 DEF ReceiveShared
      <3> QED BY <1>3, <2>1, <3>1, <3>2 DEF ReceiveShared, Typed, Settings, settingVars, localVars,
                  serverVars, Gates
    <2>3. Works'
      <3>1. CASE at' = at /\ held' = held
        BY <1>3, <3>1, SameWorks DEF ReceiveShared
      <3>2. CASE ~(at' = at /\ held' = held)
        <4> DEFINE work == Handled(m.row, m.reason, g)
                   label == IF m.reason = "snapshot" THEN "classify" ELSE "deliver"
        <4>1. Hold(g, work) /\ Goto(g, label) /\ generation' = generation
          BY <1>3, <3>2 DEF ReceiveShared
        <4>2. work \in SharedWork /\ work.generation = g
          BY <2>1 DEF Handled, SharedWork
        <4>3. label \in Labels /\ label \notin Pushings
          BY DEF Labels, Working, Pushings
        <4>4. TaskTyped(g, label, work, generation)
          BY <4>2, <4>3, TaskIds DEF TaskTyped
        <4> HIDE DEF work, label
        <4> QED BY <4>1, <4>2, <4>3, <4>4, StepWorks, TaskIds
      <3> QED BY <3>1, <3>2
    <2> QED BY <1>1, <2>2, <2>3 DEF Typed
  <1> QED BY <1>2, <1>3

\* A label that keeps what a task holds.
LEMMA NextWorks ==
    ASSUME Typed, NEW t \in Tasks, NEW label \in Working, at[t] \in Working,
           t = Chooser => label \in ChooserLabels,
           Goto(t, label), held' = held, generation' = generation
    PROVE  Works'
  <1>1. held[t] \in SharedWork /\ TaskTyped(t, at[t], held[t], generation)
    BY DEF Typed, Works, TaskTyped
  <1>2. label \in Labels /\ label \notin Pushings
    BY DEF Labels, Working, Pushings
  <1>3. TaskTyped(t, label, held[t], generation)
    BY <1>1, <1>2 DEF TaskTyped
  <1> QED BY <1>1, <1>2, <1>3, StepWorks

LEMMA FinishWorks ==
    ASSUME Typed, NEW t \in Tasks, Finish(t), at[t] \in Working, generation' = generation
    PROVE  Works'
  <1>1. CASE t = Chooser
    BY <1>1, RestWorks DEF Finish
  <1>2. CASE t # Chooser
    BY <1>2, NextWorks DEF Finish, Working
  <1> QED BY <1>1, <1>2

LEMMA TypedLoop ==
    ASSUME Typed, NEW g \in Loops, Classify(g) \/ AskUser(g) \/ Deliver(g) \/ Flush(g)
    PROVE  Typed'
  <1>1. Settings'
    BY DEF Classify, AskUser, Deliver, Flush, Typed, Settings, settingVars, localVars, serverVars, Gates
  <1>2. Channels'
    <2>1. CASE outbox' = outbox
      BY <2>1, SameChannels DEF Classify, AskUser, Deliver, Flush
    <2>2. CASE outbox' # outbox
      <3>1. SendOut([kind |-> "report"]) /\ inbox' = inbox
        BY <2>2 DEF Classify, AskUser, Deliver, Flush
      <3>2. [kind |-> "report"] \in Outbound
        BY DEF Outbound
      <3> QED BY <3>1, <3>2, AppendTyped DEF SendOut, Typed, Settings
    <2> QED BY <2>1, <2>2
  <1>3. Works'
    <2>1. CASE Classify(g)
      <3>1. at[g] \in Working /\ held' = held /\ generation' = generation
        BY <2>1 DEF Classify, Working
      <3>2. \E label \in {"deliver", "reading", "asking"} : Goto(g, label)
        BY <2>1 DEF Classify, SnapshotAction
      <3> QED BY <3>1, <3>2, NextWorks, RestWorks, TaskIds DEF Working
    <2>2. CASE AskUser(g) \/ Flush(g)
      BY <2>2, RestWorks, TaskIds DEF AskUser, Flush
    <2>3. CASE Deliver(g)
      <3>1. at[g] \in Working /\ held' = held /\ generation' = generation
        BY <2>3 DEF Deliver, Working
      <3>2. \E label \in {"begin", "flush"} : Goto(g, label)
        BY <2>3 DEF Deliver
      <3> QED BY <3>1, <3>2, NextWorks, TaskIds DEF Working
    <2> QED BY <2>1, <2>2, <2>3
  <1> QED BY <1>1, <1>2, <1>3 DEF Typed

LEMMA TypedPush ==
    ASSUME Typed, NEW t \in Tasks, ReadLocal(t) \/ ClosePush(t) \/ SendPush(t)
    PROVE  Typed'
  <1>1. CASE ReadLocal(t)
    <2>1. Settings' /\ Channels'
      BY <1>1, SameChannels DEF ReadLocal, Typed, Settings, settingVars, localVars, serverVars
    <2>2. CASE Hold(t, NothingHeld) /\ Goto(t, "ready")
      BY <1>1, <2>1, <2>2, RestWorks DEF ReadLocal, Typed
    <2>3. CASE Hold(t, Pushed(NoId, local)) /\ Goto(t, "closing")
      <3>1. Pushed(NoId, local) \in PushWork
        BY DEF Typed, Settings, Pushed, PushWork, NoId
      <3>2. TaskTyped(t, "closing", Pushed(NoId, local), generation) /\ "closing" \in Labels
        BY <3>1 DEF TaskTyped, Pushings, Working, ChooserLabels, Labels
      <3> QED BY <1>1, <2>1, <2>3, <3>1, <3>2, StepWorks DEF ReadLocal, Typed
    <2> QED BY <1>1, <2>2, <2>3 DEF ReadLocal
  <1>2. CASE ClosePush(t)
    <2>1. Settings' /\ Channels'
      <3>1. Pushing(NewId, t = Chooser) \in Gates
        BY NewIdIsFree DEF Pushing, Gates
      <3>2. gate' \in Gates /\ resume' \in Resumes \cup {"none"}
        BY <1>2, <3>1 DEF ClosePush, Typed, Settings
      <3> QED BY <1>2, <3>2, SameChannels DEF ClosePush, Typed, Settings, settingVars, localVars,
                 serverVars
    <2>2. CASE Hold(t, NothingHeld) /\ Goto(t, "ready")
      BY <1>2, <2>1, <2>2, RestWorks DEF ClosePush, Typed
    <2>3. CASE Hold(t, Pushed(NewId, held[t].queue)) /\ Goto(t, "pushing")
      <3>1. held[t] \in PushWork
        BY <1>2 DEF ClosePush, Typed, Works, TaskTyped, Pushings
      <3>2. Pushed(NewId, held[t].queue) \in PushWork
        BY <3>1, NewIdIsFree DEF Pushed, PushWork
      <3>3. TaskTyped(t, "pushing", Pushed(NewId, held[t].queue), generation) /\ "pushing" \in Labels
        BY <3>2 DEF TaskTyped, Pushings, Working, ChooserLabels, Labels
      <3> QED BY <1>2, <2>1, <2>3, <3>2, <3>3, StepWorks DEF ClosePush, Typed
    <2> QED BY <1>2, <2>2, <2>3 DEF ClosePush
  <1>3. CASE SendPush(t)
    <2>1. gate' \in Gates
      BY <1>3 DEF SendPush, AfterFailedPush, Gates, Typed, Settings
    <2>2. Settings'
      BY <1>3, <2>1 DEF SendPush, Typed, Settings, settingVars, localVars, serverVars
    <2>3. Works'
      BY <1>3, RestWorks DEF SendPush
    <2>4. Channels'
      <3> DEFINE m == [kind |-> "push", id |-> held[t].id, base |-> BaseSeq, queue |-> held[t].queue]
      <3>1. held[t] \in PushWork
        BY <1>3 DEF SendPush, Typed, Works, TaskTyped, Pushings
      <3>2. m \in Outbound
        BY <3>1, BaseType DEF Outbound, PushWork
      <3>3. outbox' = outbox \/ SendOut(m)
        BY <1>3 DEF SendPush
      <3>4. inbox' = inbox
        BY <1>3 DEF SendPush
      <3> HIDE DEF m
      <3> QED BY <3>2, <3>3, <3>4, SameChannels, AppendTyped DEF SendOut, Typed, Settings
    <2> QED BY <2>2, <2>3, <2>4 DEF Typed
  <1> QED BY <1>1, <1>2, <1>3

LEMMA TypedApply ==
    ASSUME Typed, NEW t \in Tasks, BeginApply(t) \/ ApplyShared(t) \/ EndApply(t)
    PROVE  Typed'
  <1>1. at[t] \in Working /\ held[t] \in SharedWork /\ generation' = generation
    BY DEF BeginApply, ApplyShared, EndApply, Typed, Works, TaskTyped, Working
  <1>2. held[t].row \in Row /\ held[t].row.seq \in Nat /\ held[t].row.queue \in Queues
    BY <1>1 DEF SharedWork, Row
  <1>3. Channels'
    BY SameChannels DEF BeginApply, ApplyShared, EndApply
  <1>4. Settings'
    <2>1. CASE BeginApply(t)
      BY <1>2, <2>1 DEF BeginApply, Typed, Settings, settingVars, localVars, serverVars
    <2>2. CASE ApplyShared(t)
      BY <1>2, <2>2 DEF ApplyShared, Typed, Settings, settingVars, localVars, serverVars
    <2>3. CASE EndApply(t)
      BY <1>2, <2>3 DEF EndApply, Typed, Settings, settingVars, localVars, serverVars
    <2> QED BY <2>1, <2>2, <2>3
  <1>5. Works'
    <2>1. CASE held' = held /\ \E label \in {"applying", "applied", "failed"} : Goto(t, label)
      BY <1>1, <2>1, NextWorks DEF Working, ChooserLabels
    <2>2. CASE Finish(t)
      BY <1>1, <2>2, FinishWorks
    <2> QED BY <2>1, <2>2 DEF BeginApply, ApplyShared, EndApply
  <1> QED BY <1>3, <1>4, <1>5 DEF Typed

LEMMA TypedChoosePull ==
    ASSUME Typed, ChoosePull
    PROVE  Typed'
  <1>1. Settings' /\ Channels'
    BY SameChannels DEF ChoosePull, Typed, Settings, settingVars, localVars, serverVars, Gates
  <1> DEFINE work == Handled(shared, "pull", generation)
  <1>2. work \in SharedWork /\ work.generation = generation
    BY DEF ChoosePull, Typed, Settings, Handled, SharedWork
  <1>3. TaskTyped(Chooser, "begin", work, generation) /\ "begin" \in Labels
    BY <1>2 DEF TaskTyped, Pushings, Working, ChooserLabels, Labels, Loops, Typed, Settings
  <1>4. Hold(Chooser, work) /\ Goto(Chooser, "begin") /\ generation' = generation
    BY DEF ChoosePull
  <1> HIDE DEF work
  <1> QED BY <1>1, <1>2, <1>3, <1>4, StepWorks, TaskIds DEF Typed

LEMMA TypedUser ==
    ASSUME Typed, PublishStatus \/ \E queue \in Mine : EditQueue(queue)
    PROVE  Typed'
  <1>1. CASE PublishStatus
    <2>1. [kind |-> "report"] \in Outbound
      BY DEF Outbound
    <2>2. Channels'
      BY <1>1, <2>1, AppendTyped DEF PublishStatus, SendOut, Typed, Settings
    <2>3. Settings' /\ Works'
      BY <1>1, SameWorks DEF PublishStatus, Typed, Settings, settingVars, localVars, serverVars
    <2> QED BY <2>2, <2>3 DEF Typed
  <1>2. ASSUME NEW queue \in Mine, EditQueue(queue) PROVE Typed'
    <2> DEFINE m == [kind |-> "edit", base |-> BaseSeq, queue |-> queue]
    <2>1. m \in Outbound
      BY BaseType DEF Outbound, Queues
    <2>2. outbox' = outbox \/ SendOut(m)
      BY <1>2 DEF EditQueue
    <2> HIDE DEF m
    <2>3. Channels'
      BY <1>2, <2>1, <2>2, SameChannels, AppendTyped DEF EditQueue, SendOut, Typed, Settings
    <2>4. Settings'
      BY <1>2 DEF EditQueue, Typed, Settings, settingVars, localVars, serverVars, Queues
    <2>5. Works'
      BY <1>2, SameWorks DEF EditQueue
    <2> QED BY <2>3, <2>4, <2>5 DEF Typed
  <1> QED BY <1>1, <1>2

\* A change of the row, and its broadcast.
LEMMA TypedChange ==
    ASSUME Typed, NEW row \in Row, NEW reason \in Reasons, Change(row, reason)
    PROVE  /\ room' \in Row
           /\ inbox' \in [Loops -> Seq(Inbound)]
  <1>1. room' = row
    BY DEF Change
  <1>2. CASE inbox' = inbox
    BY <1>1, <1>2 DEF Typed, Channels
  <1>3. CASE inbox' # inbox
    <2>1. registered \in Loops
      BY <1>3, TaskIds DEF Change, Typed, Settings, Tasks
    <2>2. inbox' = [inbox EXCEPT ![registered] = Append(@, SharedMessage(row, reason))]
      BY <1>3 DEF Change
    <2>3. Append(inbox[registered], SharedMessage(row, reason)) \in Seq(Inbound)
      BY <2>1, BoxTypes, MessageTypes
    <2> QED BY <1>1, <2>1, <2>2, <2>3 DEF Typed, Channels
  <1> QED BY <1>2, <1>3

LEMMA TypedOther ==
    ASSUME Typed,
           OtherOffline
             \/ \E queue \in Theirs \cup {room.queue}, active \in {Me, Other, Nobody} :
                   OtherDevice(queue, active)
    PROVE  Typed'
  <1>1. room \in Row /\ room.seq + 1 \in Nat /\ room.queue \in Queues
    BY DEF Typed, Settings, Row
  <1>2. ASSUME NEW row \in Row, NEW reason \in Reasons, Change(row, reason),
               UNCHANGED <<settingVars, generation, connected, gate, shared, applying, synced,
                           resume, localVars, at, held, registered, outbox>>
        PROVE  Typed'
    <2>1. room' \in Row /\ inbox' \in [Loops -> Seq(Inbound)]
      BY <1>2, TypedChange
    <2>2. Settings' /\ Works'
      BY <1>2, <2>1, SameWorks DEF Typed, Settings, settingVars, localVars
    <2>3. Channels'
      BY <1>2, <2>1 DEF Typed, Channels
    <2> QED BY <2>2, <2>3 DEF Typed
  <1>3. CASE OtherOffline
    <2> DEFINE row == [room EXCEPT !.seq = @ + 1, !.active = Nobody, !.by = Other]
    <2>1. row \in Row
      BY <1>1 DEF Row
    <2>2. Change(row, "activeOffline")
      BY <1>3 DEF OtherOffline
    <2> HIDE DEF row
    <2> QED BY <1>2, <1>3, <2>1, <2>2 DEF OtherOffline, Reasons
  <1>4. ASSUME NEW queue \in Theirs \cup {room.queue}, NEW active \in {Me, Other, Nobody},
               OtherDevice(queue, active)
        PROVE  Typed'
    <2> DEFINE row == [seq |-> room.seq + 1, active |-> active, queue |-> queue, by |-> Other]
    <2>1. row \in Row
      BY <1>1 DEF Row, Queues
    <2>2. Change(row, "command")
      BY <1>4 DEF OtherDevice
    <2> HIDE DEF row
    <2> QED BY <1>2, <1>4, <2>1, <2>2 DEF OtherDevice, Reasons
  <1> QED BY <1>3, <1>4

LEMMA TypedHandle ==
    ASSUME Typed, NEW g \in Loops, HandleMessage(g)
    PROVE  Typed'
  <1> DEFINE m == Head(outbox[g])
  <1>1. m \in Outbound /\ outbox' = [outbox EXCEPT ![g] = Tail(@)] /\ Tail(outbox[g]) \in Seq(Outbound)
    BY BoxTypes DEF HandleMessage
  <1>2. outbox' \in [Loops -> Seq(Outbound)]
    BY <1>1 DEF Typed, Channels
  <1>3. /\ room' \in Row /\ inbox' \in [Loops -> Seq(Inbound)] /\ own' \in BOOLEAN
    <2>1. room \in Row /\ room.seq \in Nat /\ room.seq + 1 \in Nat /\ own \in BOOLEAN
          /\ inbox \in [Loops -> Seq(Inbound)] /\ room.active \in {Me, Other, Nobody}
          /\ room.queue \in Queues
      BY DEF Typed, Settings, Channels, Row
    <2>2. CASE m.kind = "report"
      <3> DEFINE row == [room EXCEPT !.active = Me, !.by = Me]
      <3>1. row \in Row
        BY <2>1 DEF Row
      <3>2. \/ Change(row, "report") /\ own' = own
            \/ UNCHANGED <<room, inbox, own>>
        BY <2>2 DEF HandleMessage, HandleReport
      <3> HIDE DEF row
      <3>3. CASE Change(row, "report") /\ own' = own
        BY <2>1, <3>1, <3>3, TypedChange DEF Reasons
      <3> QED BY <2>1, <3>2, <3>3
    <2>3. CASE m.kind # "report"
      <3>1. HandleCommand(g, m) /\ m.queue \in Queues
        BY <1>1, <2>3, MessageTypes DEF HandleMessage
      <3>2. ASSUME NEW snapshot \in Seq(Inbound), Reply(g, m, snapshot)
            PROVE  inbox' \in [Loops -> Seq(Inbound)]
        <4> DEFINE error == IF m.kind = "push" THEN <<ErrorMessage(m.id)>> ELSE <<>>
        <4>1. error \in Seq(Inbound)
          BY <1>1, MessageTypes
        <4>2. inbox' = inbox \/ inbox' = [inbox EXCEPT ![g] = @ \o (error \o snapshot)]
          BY <3>2 DEF Reply
        <4> HIDE DEF error
        <4>3. inbox[g] \o (error \o snapshot) \in Seq(Inbound)
          BY <3>2, <4>1, BoxTypes
        <4> QED BY <2>1, <4>2, <4>3
      <3>3. CASE /\ Reply(g, m, <<SharedMessage(room, "stale")>>) \/ Reply(g, m, <<>>)
                 /\ UNCHANGED <<room, own>>
        <4>1. SharedMessage(room, "stale") \in Inbound
          BY <2>1, MessageTypes DEF Reasons
        <4>2. <<SharedMessage(room, "stale")>> \in Seq(Inbound) /\ <<>> \in Seq(Inbound)
          BY <4>1
        <4> QED BY <2>1, <3>2, <3>3, <4>2
      <3>4. CASE ~(/\ Reply(g, m, <<SharedMessage(room, "stale")>>) \/ Reply(g, m, <<>>)
                   /\ UNCHANGED <<room, own>>)
        <4> DEFINE row == [seq |-> room.seq + 1,
                           active |-> IF m.kind = "push" THEN Me
                                      ELSE IF m.queue # Empty /\ room.active = Nobody THEN Me
                                      ELSE room.active,
                           queue |-> m.queue, by |-> Me]
                   reason == IF m.kind = "push" THEN "push" ELSE "command"
        <4>1. Change(row, reason) /\ own' = (own /\ ~(m.kind = "push" /\ m.queue = local))
          BY <3>1, <3>4 DEF HandleCommand
        <4>2. row \in Row /\ reason \in Reasons
          BY <2>1, <3>1 DEF Row, Reasons
        <4> HIDE DEF row, reason
        <4> QED BY <2>1, <4>1, <4>2, TypedChange
      <3> QED BY <3>3, <3>4
    <2> QED BY <2>2, <2>3
  <1>4. Settings' /\ Works'
    BY <1>3, SameWorks DEF HandleMessage, Typed, Settings, settingVars
  <1> QED BY <1>2, <1>3, <1>4 DEF Typed, Channels

LEMMA InitTyped == Init => Typed
  <1> SUFFICES ASSUME Init PROVE Typed
    OBVIOUS
  <1>1. Settings
    <2>1. 1 \in Loops /\ Empty \in Queues
      BY SessionBoundsAssumption, EmptyAssumption DEF Loops, Queues
    <2>2. room \in Row
      BY <2>1 DEF Init, Row
    <2>3. local \in Queues /\ own \in BOOLEAN
      BY DEF Init, Queues
    <2> QED BY <2>1, <2>2, <2>3, TaskIds DEF Init, Settings, Gates
  <1>2. <<>> \in Seq(Inbound) /\ <<>> \in Seq(Outbound)
    OBVIOUS
  <1>3. Channels
    BY <1>2 DEF Init, Channels
  <1>4. Works
    BY DEF Init, Works, Labels, Idle, TaskTyped, Pushings, Working, ChooserLabels
  <1> QED BY <1>1, <1>3, <1>4 DEF Typed

LEMMA NextTyped == Typed /\ [Next]_vars => Typed'
  <1> SUFFICES ASSUME Typed, [Next]_vars PROVE Typed'
    OBVIOUS
  <1>1. CASE UNCHANGED vars
    BY <1>1, SameWorks, SameChannels DEF vars, Typed, Settings, settingVars, localVars, serverVars
  <1>2. CASE TurnOff \/ Restart
    BY <1>2, TypedSetting
  <1>3. ASSUME NEW g \in Loops,
               LoopStep(g) \/ Login(g) \/ Connect(g) \/ Disconnect(g) \/ HandleMessage(g) \/ Unregister(g)
        PROVE  Typed'
    BY <1>3, TypedConnection, TypedReceive, TypedLoop, TypedPush, TypedApply, TypedHandle, TaskIds
       DEF LoopStep
  <1>4. CASE ChooserStep \/ ReadLocal(Chooser) \/ ChoosePull
    BY <1>4, TypedPush, TypedApply, TypedChoosePull, TaskIds DEF ChooserStep
  <1>5. CASE PublishStatus \/ \E queue \in Mine : EditQueue(queue)
    BY <1>5, TypedUser
  <1>6. CASE OtherOffline
               \/ \E queue \in Theirs \cup {room.queue}, active \in {Me, Other, Nobody} :
                     OtherDevice(queue, active)
    BY <1>6, TypedOther
  <1> QED BY <1>1, <1>2, <1>3, <1>4, <1>5, <1>6 DEF Next

\* Every variable keeps its type, and a task has what its next step needs,
\* whatever overlaps.
THEOREM SessionTypes == Spec => []TypeOK
  <1>1. Typed => TypeOK
    <2> SUFFICES ASSUME Typed PROVE TypeOK
      OBVIOUS
    <2>1. \A g \in Loops :
            /\ \A i \in DOMAIN outbox[g] : outbox[g][i] \in Outbound
            /\ \A i \in DOMAIN inbox[g] : inbox[g][i] \in Inbound
      BY DEF Typed, Channels
    <2>2. \A g \in Loops :
            /\ \A i \in DOMAIN outbox[g] :
                  outbox[g][i] \in [kind: {"report"}]
                      \cup [kind: {"edit"}, base: Nat, queue: Queues]
                      \cup [kind: {"push"}, id: Nat, base: Nat, queue: Queues]
            /\ \A i \in DOMAIN inbox[g] :
                  \/ inbox[g][i].kind = "error" /\ inbox[g][i].id \in Nat
                  \/ inbox[g][i].kind = "shared" /\ inbox[g][i].row \in Row
      BY <2>1, MessageTypes DEF Outbound
    <2>3. ASSUME NEW t \in Tasks
          PROVE  CASE at[t] \in Idle \cup {"reading", "asking"} -> TRUE
                   [] at[t] \in {"closing", "pushing"} -> held[t] \in [id: Nat, queue: Queues]
                   [] at[t] \in {"classify", "deliver", "begin", "applying", "applied", "failed",
                                 "flush"} ->
                         /\ held[t].row \in Row
                         /\ held[t].generation \in IF t = Chooser THEN 1 .. generation ELSE {t}
      <3>1. TaskTyped(t, at[t], held[t], generation) /\ at[t] \in Labels
        BY DEF Typed, Works
      <3>2. CASE at[t] \in Idle \cup {"reading", "asking"}
        BY <3>2 DEF Idle
      <3>3. CASE at[t] \in Pushings
        <4>1. held[t] \in [id: Nat, queue: Queues]
          BY <3>1, <3>3 DEF TaskTyped, PushWork
        <4>2. at[t] = "closing" \/ at[t] = "pushing"
          BY <3>3 DEF Pushings
        <4> QED BY <4>1, <4>2 DEF Idle
      <3>4. CASE at[t] \in Working
        <4>1. held[t] \in SharedWork /\ (t # Chooser => held[t].generation = t)
          BY <3>1, <3>4 DEF TaskTyped
        <4>2. t = Chooser => held[t].generation <= generation
          BY <3>1, <3>4 DEF TaskTyped
        <4>3. held[t].row \in Row /\ held[t].generation \in Loops /\ generation \in Loops
          BY <4>1 DEF SharedWork, Typed, Settings
        <4>4. held[t].generation \in IF t = Chooser THEN 1 .. generation ELSE {t}
          BY <4>1, <4>2, <4>3 DEF Loops
        <4>5. \/ at[t] = "classify" \/ at[t] = "deliver" \/ at[t] = "begin" \/ at[t] = "applying"
              \/ at[t] = "applied" \/ at[t] = "failed" \/ at[t] = "flush"
          BY <3>4 DEF Working
        <4> QED BY <4>3, <4>4, <4>5 DEF Idle
      <3> QED BY <3>1, <3>2, <3>3, <3>4 DEF Labels
    <2> QED BY <2>2, <2>3 DEF TypeOK, Typed, Settings, Gates
  <1>2. Init => Typed
    BY InitTyped
  <1>3. Typed /\ [Next]_vars => Typed'
    BY NextTyped
  <1> QED BY <1>1, <1>2, <1>3, PTL DEF Spec

-----------------------------------------------------------------------------
(* The gate, where nothing overlaps: the invariant.  A loop decides about  *)
(* a snapshot alone between the device and the server; what waits in the   *)
(* box leads from the row the device has to that of the server; a push is  *)
(* in one place; and a queue of the user's never meets an open gate, but   *)
(* before its snapshot is classified.                                      *)

Deciding == {"classify", "reading", "closing"}
Delivering == {"deliver", "begin", "applying", "applied", "failed", "flush"}
TakingShared == {"begin", "applying", "applied", "failed"}

Here == at[generation]
In == inbox[generation]
Out == outbox[generation]

\* Which connection is served, and who works: only the loop of the present
\* generation, while it is connected, and the user's choice.
ConnectionOK ==
    /\ connected <=> Here \notin Disconnected
    /\ ~connected => gate = Open /\ shared = NoRow /\ at[Chooser] = "ready"
    /\ \A g \in Loops : /\ g # generation => at[g] \in Idle
                        /\ at[g] \notin Disconnected => registered = g
                        /\ registered # g => outbox[g] = <<>>
    /\ room.active = Me => registered # Chooser
    /\ forgetting => \A t \in Tasks : at[t] \in Idle

\* What the tasks hold is what the session holds.
TasksOK ==
    /\ Here \in Delivering =>
          /\ gate = Open /\ shared # NoRow /\ at[Chooser] = "ready"
          /\ held[generation].row = shared /\ held[generation].generation = generation
    /\ Here \in Deciding =>
          /\ gate = Open /\ shared = room /\ In = <<>> /\ Out = <<>> /\ at[Chooser] = "ready"
          /\ shared.active # Me
          /\ Here = "classify" => /\ held[generation].row = shared
                                  /\ held[generation].reason = "snapshot"
                                  /\ held[generation].generation = generation
          /\ Here = "closing" => held[generation].queue = local
    /\ Here = "asking" => gate = Open /\ shared # NoRow /\ at[Chooser] = "ready"
    /\ Here = "pushing" =>
          /\ gate.kind = "pushing" /\ ~gate.user
          /\ shared = room /\ In = <<>> /\ Out = <<>> /\ at[Chooser] = "ready"
          /\ held[generation].queue = local
    /\ at[Chooser] = "closing" => gate = AwaitingChoice /\ held[Chooser].queue = local
    /\ at[Chooser] = "pushing" =>
          gate.kind = "pushing" /\ gate.user /\ held[Chooser].queue = local
    /\ at[Chooser] \in TakingShared =>
          /\ gate = Open /\ shared # NoRow /\ Here = "ready"
          /\ held[Chooser].row = shared /\ held[Chooser].generation = generation
    /\ gate # Open => /\ connected /\ shared # NoRow
                      /\ Here = "ready" \/ (Here = "pushing" /\ gate.kind = "pushing" /\ ~gate.user)

Shareds(box) == {i \in DOMAIN box : box[i].kind = "shared"}
PushesIn(sent) == {i \in DOMAIN sent : sent[i].kind = "push"}
Answering(message) == message.kind = "error" \/ OwnPush(message)
Answers(box) == {i \in DOMAIN box : Answering(box[i])}

\* A push of the user's: in one place at a time, with the queue that is local.
NoPush(sent, box) == PushesIn(sent) = {} /\ Answers(box) = {}
OnePush(sent, box, queue, shown) ==
    /\ \A i, j \in PushesIn(sent) : i = j
    /\ \A i, j \in Answers(box) : i = j
    /\ PushesIn(sent) = {} \/ Answers(box) = {}
    /\ \A i \in PushesIn(sent) : sent[i].queue = queue
    /\ \A i \in Answers(box) : box[i].kind = "shared" => box[i].row.queue = queue /\ shown

\* Messages that bring no other queue than the one before.
Keeps == {"report", "stale", "activeOffline"}
KeepsQueue(box, i, sh) ==
    \/ \E j \in Shareds(box) : /\ j < i /\ box[j].row.queue = box[i].row.queue
                               /\ \A k \in Shareds(box) : ~(j < k /\ k < i)
    \/ sh.queue = box[i].row.queue /\ \A k \in Shareds(box) : k >= i
EndsIn(box, sh, row) ==
    \/ \E j \in Shareds(box) : box[j].row = row /\ \A k \in Shareds(box) : k <= j
    \/ sh = row /\ Shareds(box) = {}

\* What comes after sh leads in order to the server's row.
Leads(box, sh, row) ==
    /\ EndsIn(box, sh, row)
    /\ \A i \in Shareds(box) :
          /\ box[i].reason # "snapshot"
          /\ sh.seq <= box[i].row.seq /\ box[i].row.seq <= row.seq
          /\ \A j \in Shareds(box) : i < j => box[i].row.seq <= box[j].row.seq
          /\ box[i].reason \in Keeps => KeepsQueue(box, i, sh)
          /\ box[i].reason = "push" => OwnPush(box[i])

MessagesOK ==
    connected =>
      IF shared = NoRow
      THEN /\ In = <<SharedMessage(room, "snapshot")>> /\ room.active # Me
           /\ Out = <<>> /\ Here = "ready"
      ELSE Leads(In, shared, room)

\* The push of a loop is alone between the device and the server.
LonePush ==
    \/ /\ shared = room /\ In = <<>>
       /\ Len(Out) = 1 /\ Out[1].kind = "push"
       /\ Out[1].base = room.seq /\ Out[1].queue = local
    \/ /\ Out = <<>> /\ In = <<SharedMessage(room, "push")>>
       /\ shared.seq <= room.seq /\ room.by = Me /\ room.queue = local /\ (own => forgetting)

PushOK ==
    connected =>
      /\ gate.kind # "pushing" => NoPush(Out, In)
      /\ gate.kind = "pushing" /\ gate.user =>
            /\ OnePush(Out, In, local, own => forgetting)
            /\ at[Chooser] = "pushing" => NoPush(Out, In)
      /\ gate.kind = "pushing" /\ ~gate.user /\ Here = "ready" =>
            at[Chooser] = "ready" /\ LonePush

\* The local queue is the shared one, or about to be.
LocalOK ==
    Resumes = {} /\ connected /\ shared # NoRow /\ gate = Open =>
      /\ Here \in {"ready", "applied", "failed", "flush"}
            /\ at[Chooser] \in {"ready", "applied", "failed"} => local = shared.queue
      /\ Here = "deliver" /\ ~AppliesToBackend(generation) => local = shared.queue

OwnOK ==
    /\ own => local # Empty /\ local # synced
    /\ \A t \in Tasks : at[t] \in {"applied", "failed"} => ~own
    /\ connected /\ shared # NoRow /\ gate = Open /\ at[Chooser] = "ready"
          /\ Here \in Delivering \cup {"ready"} => (own => forgetting)

GateInv == ConnectionOK /\ TasksOK /\ MessagesOK /\ PushOK /\ LocalOK /\ OwnOK

-----------------------------------------------------------------------------
(* Messages added and taken.                                               *)

LEMMA AppendedAt ==
    ASSUME NEW M, NEW box \in Seq(M), NEW m \in M
    PROVE  /\ Append(box, m) \in Seq(M) /\ Len(box) \in Nat
           /\ DOMAIN box = 1 .. Len(box) /\ DOMAIN Append(box, m) = 1 .. (Len(box) + 1)
           /\ Append(box, m)[Len(box) + 1] = m
           /\ \A i \in 1 .. Len(box) : Append(box, m)[i] = box[i]
  OBVIOUS

LEMMA TailAt ==
    ASSUME NEW M, NEW box \in Seq(M), box # <<>>
    PROVE  /\ Tail(box) \in Seq(M) /\ Len(box) \in Nat \ {0} /\ Head(box) = box[1]
           /\ DOMAIN box = 1 .. Len(box) /\ DOMAIN Tail(box) = 1 .. (Len(box) - 1)
           /\ \A i \in 1 .. (Len(box) - 1) : Tail(box)[i] = box[i + 1]
  OBVIOUS

\* Which of the messages tell a row, after another one.
LEMMA AppendShareds ==
    ASSUME NEW box \in Seq(Inbound), NEW m \in Inbound
    PROVE  Shareds(Append(box, m))
             = Shareds(box) \cup (IF m.kind = "shared" THEN {Len(box) + 1} ELSE {})
  BY AppendedAt DEF Shareds

\* Another change of the row, told at the end of the box.
LEMMA AppendLeads ==
    ASSUME NEW box \in Seq(Inbound), NEW sh \in Row, NEW row \in Row, Leads(box, sh, row),
           NEW next \in Row, NEW reason \in Reasons \ {"snapshot"},
           row.seq <= next.seq,
           reason \in Keeps => next.queue = row.queue,
           reason = "push" => next.by = Me
    PROVE  Leads(Append(box, SharedMessage(next, reason)), sh, next)
  <1> DEFINE m == SharedMessage(next, reason)
             new == Append(box, m)
             n == Len(box) + 1
  <1>1. m \in Inbound /\ m.kind = "shared" /\ m.row = next /\ m.reason = reason
    BY MessageTypes DEF SharedMessage
  <1> HIDE DEF m
  <1>2. /\ n \in Nat /\ DOMAIN new = 1 .. n /\ new[n] = m /\ DOMAIN box = 1 .. (n - 1)
        /\ \A i \in 1 .. (n - 1) : new[i] = box[i]
    BY <1>1, AppendedAt
  <1>3. Shareds(new) = Shareds(box) \cup {n}
    BY <1>1, AppendShareds
  <1>4. \A i \in Shareds(box) : i \in 1 .. (n - 1) /\ new[i] = box[i]
    BY <1>2 DEF Shareds
  <1> HIDE DEF new, n
  <1>5. \A i \in Shareds(box) : box[i].row \in Row /\ box[i].row.seq \in Nat
    BY MessageTypes DEF Shareds, Row
  <1>6. row.seq \in Nat /\ next.seq \in Nat /\ sh.seq \in Nat
    BY DEF Row
  <1>7. EndsIn(new, sh, next)
    BY <1>1, <1>2, <1>3, <1>4 DEF EndsIn
  <1>8. sh.seq <= row.seq
    BY <1>5, <1>6 DEF Leads, EndsIn
  <1>9. ASSUME NEW i \in Shareds(new)
        PROVE  /\ new[i].reason # "snapshot"
               /\ sh.seq <= new[i].row.seq /\ new[i].row.seq <= next.seq
               /\ \A j \in Shareds(new) : i < j => new[i].row.seq <= new[j].row.seq
               /\ new[i].reason = "push" => OwnPush(new[i])
    <2>1. CASE i = n
      <3>1. \A j \in Shareds(new) : ~(i < j)
        BY <1>2, <1>3, <1>4, <2>1
      <3> QED BY <1>1, <1>2, <1>6, <1>8, <2>1, <3>1 DEF OwnPush
    <2>2. CASE i \in Shareds(box)
      BY <1>1, <1>2, <1>3, <1>4, <1>5, <1>6, <2>2 DEF Leads
    <2> QED BY <1>3, <2>1, <2>2
  <1>10. ASSUME NEW i \in Shareds(new), new[i].reason \in Keeps
         PROVE  KeepsQueue(new, i, sh)
    <2>1. CASE i \in Shareds(box)
      <3>1. KeepsQueue(box, i, sh)
        BY <1>4, <1>10, <2>1 DEF Leads
      <3> QED BY <1>2, <1>3, <1>4, <2>1, <3>1 DEF KeepsQueue
    <2>2. CASE i = n
      <3>1. next.queue = row.queue
        BY <1>1, <1>2, <1>10, <2>2
      <3>2. EndsIn(box, sh, row)
        BY DEF Leads
      <3> QED BY <1>1, <1>2, <1>3, <1>4, <2>2, <3>1, <3>2 DEF KeepsQueue, EndsIn
    <2> QED BY <1>3, <2>1, <2>2
  <1> QED BY <1>7, <1>9, <1>10 DEF Leads, new, m

\* An answer at the end of the box tells no row.
LEMMA AppendError ==
    ASSUME NEW box \in Seq(Inbound), NEW sh \in Row, NEW row \in Row, Leads(box, sh, row),
           NEW id \in Nat
    PROVE  Leads(Append(box, ErrorMessage(id)), sh, row)
  <1> DEFINE m == ErrorMessage(id)
             new == Append(box, m)
  <1>1. m \in Inbound /\ m.kind = "error"
    BY MessageTypes DEF ErrorMessage
  <1> HIDE DEF m
  <1>2. Shareds(new) = Shareds(box)
    BY <1>1, AppendShareds
  <1>3. \A i \in Shareds(box) : new[i] = box[i]
    BY <1>1, AppendedAt DEF Shareds
  <1> HIDE DEF new
  <1>4. EndsIn(new, sh, row)
    BY <1>2, <1>3 DEF EndsIn, Leads
  <1>5. \A i \in Shareds(box) : KeepsQueue(box, i, sh) => KeepsQueue(new, i, sh)
    BY <1>2, <1>3 DEF KeepsQueue
  <1> QED BY <1>2, <1>3, <1>4, <1>5 DEF Leads, new, m

\* The first message is taken: the others move up.
LEMMA TailShareds ==
    ASSUME NEW box \in Seq(Inbound), box # <<>>
    PROVE  /\ \A i \in Shareds(Tail(box)) : i \in Nat \ {0} /\ i + 1 \in Shareds(box) /\ Tail(box)[i] = box[i + 1]
           /\ \A i \in Shareds(box) : i \in Nat \ {0}
           /\ \A i \in Shareds(box) \ {1} : i - 1 \in Shareds(Tail(box)) /\ Tail(box)[i - 1] = box[i]
           /\ 1 \in Shareds(box) <=> Head(box).kind = "shared"
           /\ Head(box) = box[1]
  BY TailAt DEF Shareds

\* The row of the first message takes the place of the one the device has.
LEMMA TailLeads ==
    ASSUME NEW box \in Seq(Inbound), box # <<>>, NEW sh \in Row, NEW row \in Row, Leads(box, sh, row),
           Head(box).kind = "shared"
    PROVE  /\ Leads(Tail(box), Head(box).row, row)
           /\ Head(box).reason # "snapshot" /\ sh.seq <= Head(box).row.seq
           /\ Head(box).reason \in Keeps => Head(box).row.queue = sh.queue
           /\ Head(box).reason = "push" => OwnPush(Head(box))
  <1> DEFINE rest == Tail(box)
             m == Head(box)
  <1>1. /\ \A i \in Shareds(rest) : i \in Nat \ {0} /\ i + 1 \in Shareds(box) /\ rest[i] = box[i + 1]
        /\ \A i \in Shareds(box) : i \in Nat \ {0}
        /\ \A i \in Shareds(box) \ {1} : i - 1 \in Shareds(rest) /\ rest[i - 1] = box[i]
        /\ 1 \in Shareds(box) /\ m = box[1]
    BY TailShareds
  <1> HIDE DEF rest, m
  <1>2. m.reason # "snapshot" /\ sh.seq <= m.row.seq /\ (m.reason = "push" => OwnPush(m))
    BY <1>1 DEF Leads
  <1>3. m.reason \in Keeps => m.row.queue = sh.queue
    BY <1>1 DEF Leads, KeepsQueue
  <1>4. EndsIn(rest, m.row, row)
    <2>1. EndsIn(box, sh, row)
      BY DEF Leads
    <2>2. PICK j \in Shareds(box) : box[j].row = row /\ \A k \in Shareds(box) : k <= j
      BY <1>1, <2>1 DEF EndsIn
    <2>3. CASE j = 1
      <3>1. ASSUME NEW i \in Shareds(rest) PROVE FALSE
        <4>1. i + 1 \in Shareds(box) /\ i \in Nat \ {0}
          BY <1>1, <3>1
        <4> QED BY <2>2, <2>3, <4>1
      <3> QED BY <1>1, <2>2, <2>3, <3>1 DEF EndsIn
    <2>4. CASE j # 1
      <3>1. j - 1 \in Shareds(rest) /\ rest[j - 1] = box[j]
        BY <1>1, <2>4
      <3>2. ASSUME NEW k \in Shareds(rest) PROVE k <= j - 1
        <4>1. k + 1 \in Shareds(box) /\ k \in Nat /\ j \in Nat
          BY <1>1, <3>2
        <4> QED BY <2>2, <4>1
      <3> QED BY <2>2, <3>1, <3>2 DEF EndsIn
    <2> QED BY <2>3, <2>4
  <1>5. ASSUME NEW i \in Shareds(rest)
        PROVE  /\ rest[i].reason # "snapshot"
               /\ m.row.seq <= rest[i].row.seq /\ rest[i].row.seq <= row.seq
               /\ \A j \in Shareds(rest) : i < j => rest[i].row.seq <= rest[j].row.seq
               /\ rest[i].reason = "push" => OwnPush(rest[i])
    <2>1. i + 1 \in Shareds(box) /\ rest[i] = box[i + 1] /\ i \in Nat /\ 1 < i + 1
      BY <1>1, <1>5
    <2>2. m.row.seq <= rest[i].row.seq
      BY <1>1, <2>1 DEF Leads
    <2>3. ASSUME NEW j \in Shareds(rest), i < j PROVE rest[i].row.seq <= rest[j].row.seq
      <3>1. j + 1 \in Shareds(box) /\ rest[j] = box[j + 1] /\ i + 1 < j + 1
        BY <1>1, <2>1, <2>3
      <3> QED BY <2>1, <3>1 DEF Leads
    <2> QED BY <2>1, <2>2, <2>3 DEF Leads
  <1>6. ASSUME NEW i \in Shareds(rest), rest[i].reason \in Keeps
        PROVE  KeepsQueue(rest, i, m.row)
    <2>1. KeepsQueue(box, i + 1, sh)
      BY <1>1, <1>6 DEF Leads
    <2>2. PICK j \in Shareds(box) : /\ j < i + 1 /\ box[j].row.queue = box[i + 1].row.queue
                                    /\ \A k \in Shareds(box) : ~(j < k /\ k < i + 1)
      BY <1>1, <1>6, <2>1 DEF KeepsQueue
    <2>3. CASE j = 1
      <3>1. \A k \in Shareds(rest) : k >= i
        BY <1>1, <2>2, <2>3
      <3> QED BY <1>1, <2>2, <2>3, <3>1 DEF KeepsQueue
    <2>4. CASE j # 1
      <3>1. j - 1 \in Shareds(rest) /\ rest[j - 1] = box[j] /\ j - 1 < i
        BY <1>1, <2>2, <2>4
      <3>2. ASSUME NEW k \in Shareds(rest), j - 1 < k, k < i PROVE FALSE
        <4>1. k + 1 \in Shareds(box) /\ k \in Nat /\ j \in Nat /\ i \in Nat
          BY <1>1, <3>2
        <4>2. j < k + 1 /\ k + 1 < i + 1
          BY <3>2, <4>1
        <4> QED BY <2>2, <4>1, <4>2
      <3> QED BY <1>1, <2>2, <3>1, <3>2 DEF KeepsQueue
    <2> QED BY <2>3, <2>4
  <1> QED BY <1>2, <1>3, <1>4, <1>5, <1>6 DEF Leads, rest, m

LEMMA TailError ==
    ASSUME NEW box \in Seq(Inbound), box # <<>>, NEW sh \in Row, NEW row \in Row, Leads(box, sh, row),
           Head(box).kind # "shared"
    PROVE  Leads(Tail(box), sh, row)
  <1> DEFINE rest == Tail(box)
  <1>1. /\ \A i \in Shareds(rest) : i \in Nat \ {0} /\ i + 1 \in Shareds(box) /\ rest[i] = box[i + 1]
        /\ \A i \in Shareds(box) : i \in Nat \ {0} /\ i # 1 /\ i - 1 \in Shareds(rest) /\ rest[i - 1] = box[i]
    BY TailShareds
  <1> HIDE DEF rest
  <1>2. EndsIn(rest, sh, row)
    <2>1. EndsIn(box, sh, row)
      BY DEF Leads
    <2>2. CASE sh = row /\ Shareds(box) = {}
      BY <1>1, <2>2 DEF EndsIn
    <2>3. ASSUME NEW j \in Shareds(box), box[j].row = row, \A k \in Shareds(box) : k <= j
          PROVE  EndsIn(rest, sh, row)
      <3>1. j - 1 \in Shareds(rest) /\ rest[j - 1] = box[j]
        BY <1>1, <2>3
      <3>2. ASSUME NEW k \in Shareds(rest) PROVE k <= j - 1
        <4>1. k + 1 \in Shareds(box) /\ k \in Nat /\ j \in Nat
          BY <1>1, <3>2
        <4> QED BY <2>3, <4>1
      <3> QED BY <2>3, <3>1, <3>2 DEF EndsIn
    <2> QED BY <2>1, <2>2, <2>3 DEF EndsIn
  <1>3. ASSUME NEW i \in Shareds(rest)
        PROVE  /\ rest[i].reason # "snapshot"
               /\ sh.seq <= rest[i].row.seq /\ rest[i].row.seq <= row.seq
               /\ \A j \in Shareds(rest) : i < j => rest[i].row.seq <= rest[j].row.seq
               /\ rest[i].reason = "push" => OwnPush(rest[i])
    <2>1. i + 1 \in Shareds(box) /\ rest[i] = box[i + 1] /\ i \in Nat
      BY <1>1, <1>3
    <2>2. ASSUME NEW j \in Shareds(rest), i < j PROVE rest[i].row.seq <= rest[j].row.seq
      <3>1. j + 1 \in Shareds(box) /\ rest[j] = box[j + 1] /\ i + 1 < j + 1
        BY <1>1, <2>1, <2>2
      <3> QED BY <2>1, <3>1 DEF Leads
    <2> QED BY <2>1, <2>2 DEF Leads
  <1>4. ASSUME NEW i \in Shareds(rest), rest[i].reason \in Keeps
        PROVE  KeepsQueue(rest, i, sh)
    <2>1. KeepsQueue(box, i + 1, sh)
      BY <1>1, <1>4 DEF Leads
    <2>2. CASE sh.queue = box[i + 1].row.queue /\ \A k \in Shareds(box) : k >= i + 1
      BY <1>1, <2>2 DEF KeepsQueue
    <2>3. ASSUME NEW j \in Shareds(box), j < i + 1, box[j].row.queue = box[i + 1].row.queue,
                 \A k \in Shareds(box) : ~(j < k /\ k < i + 1)
          PROVE  KeepsQueue(rest, i, sh)
      <3>1. j - 1 \in Shareds(rest) /\ rest[j - 1] = box[j] /\ j - 1 < i
        BY <1>1, <2>3
      <3>2. ASSUME NEW k \in Shareds(rest), j - 1 < k, k < i PROVE FALSE
        <4>1. k + 1 \in Shareds(box) /\ k \in Nat /\ j \in Nat /\ i \in Nat
          BY <1>1, <3>2
        <4>2. j < k + 1 /\ k + 1 < i + 1
          BY <3>2, <4>1
        <4> QED BY <2>3, <4>1, <4>2
      <3> QED BY <1>1, <2>3, <3>1, <3>2 DEF KeepsQueue
    <2> QED BY <2>1, <2>2, <2>3 DEF KeepsQueue
  <1> QED BY <1>2, <1>3, <1>4 DEF Leads, rest

\* Where the pushes, and their answers, are when a message is added or taken.
LEMMA PushIndices ==
    ASSUME NEW sent \in Seq(Outbound)
    PROVE  /\ \A m \in Outbound :
                 /\ \A i \in PushesIn(sent) : i \in 1 .. Len(sent) /\ Append(sent, m)[i] = sent[i]
                 /\ Append(sent, m)[Len(sent) + 1] = m
                 /\ PushesIn(Append(sent, m))
                      = PushesIn(sent) \cup (IF m.kind = "push" THEN {Len(sent) + 1} ELSE {})
           /\ sent # <<>> =>
                 /\ \A i \in PushesIn(Tail(sent)) : /\ i \in Nat \ {0} /\ i + 1 \in PushesIn(sent)
                                                    /\ Tail(sent)[i] = sent[i + 1]
                 /\ 1 \in PushesIn(sent) <=> Head(sent).kind = "push"
                 /\ Head(sent) = sent[1]
  <1>1. \A m \in Outbound :
                 /\ \A i \in PushesIn(sent) : i \in 1 .. Len(sent) /\ Append(sent, m)[i] = sent[i]
                 /\ Append(sent, m)[Len(sent) + 1] = m
                 /\ PushesIn(Append(sent, m))
                      = PushesIn(sent) \cup (IF m.kind = "push" THEN {Len(sent) + 1} ELSE {})
    BY AppendedAt DEF PushesIn
  <1> QED BY <1>1, TailAt DEF PushesIn

LEMMA AnswerIndices ==
    ASSUME NEW box \in Seq(Inbound)
    PROVE  /\ \A m \in Inbound :
                 /\ \A i \in Answers(box) : i \in 1 .. Len(box) /\ Append(box, m)[i] = box[i]
                 /\ Append(box, m)[Len(box) + 1] = m
                 /\ Answers(Append(box, m))
                      = Answers(box) \cup (IF Answering(m) THEN {Len(box) + 1} ELSE {})
           /\ box # <<>> =>
                 /\ \A i \in Answers(Tail(box)) : /\ i \in Nat \ {0} /\ i + 1 \in Answers(box)
                                                  /\ Tail(box)[i] = box[i + 1]
                 /\ 1 \in Answers(box) <=> Answering(Head(box))
                 /\ Head(box) = box[1]
  <1>1. \A m \in Inbound :
                 /\ \A i \in Answers(box) : i \in 1 .. Len(box) /\ Append(box, m)[i] = box[i]
                 /\ Append(box, m)[Len(box) + 1] = m
                 /\ Answers(Append(box, m))
                      = Answers(box) \cup (IF Answering(m) THEN {Len(box) + 1} ELSE {})
    BY AppendedAt DEF Answers
  <1> QED BY <1>1, TailAt DEF Answers

\* What else is sent or told leaves a push where it is.
LEMMA OthersAppended ==
    ASSUME NEW sent \in Seq(Outbound), NEW box \in Seq(Inbound), NEW queue, NEW shown \in BOOLEAN
    PROVE  /\ \A m \in Outbound : m.kind # "push" =>
                 /\ NoPush(sent, box) => NoPush(Append(sent, m), box)
                 /\ OnePush(sent, box, queue, shown) => OnePush(Append(sent, m), box, queue, shown)
           /\ \A m \in Inbound : ~Answering(m) =>
                 /\ NoPush(sent, box) => NoPush(sent, Append(box, m))
                 /\ OnePush(sent, box, queue, shown) => OnePush(sent, Append(box, m), queue, shown)
  <1>1. \A m \in Outbound : m.kind # "push" =>
             /\ PushesIn(Append(sent, m)) = PushesIn(sent)
             /\ \A i \in PushesIn(sent) : Append(sent, m)[i] = sent[i]
    <2> SUFFICES ASSUME NEW m \in Outbound, m.kind # "push"
                 PROVE  /\ PushesIn(Append(sent, m)) = PushesIn(sent)
                        /\ \A i \in PushesIn(sent) : Append(sent, m)[i] = sent[i]
      OBVIOUS
    <2>1. PushesIn(Append(sent, m))
             = PushesIn(sent) \cup (IF m.kind = "push" THEN {Len(sent) + 1} ELSE {})
      BY PushIndices
    <2>2. \A i \in PushesIn(sent) : Append(sent, m)[i] = sent[i]
      BY PushIndices
    <2>3. PushesIn(sent) \cup {} = PushesIn(sent)
      OBVIOUS
    <2> QED BY <2>1, <2>2, <2>3
  <1>2. \A m \in Inbound : ~Answering(m) =>
             /\ Answers(Append(box, m)) = Answers(box)
             /\ \A i \in Answers(box) : Append(box, m)[i] = box[i]
    <2> SUFFICES ASSUME NEW m \in Inbound, ~Answering(m)
                 PROVE  /\ Answers(Append(box, m)) = Answers(box)
                        /\ \A i \in Answers(box) : Append(box, m)[i] = box[i]
      OBVIOUS
    <2>1. Answers(Append(box, m))
             = Answers(box) \cup (IF Answering(m) THEN {Len(box) + 1} ELSE {})
      BY AnswerIndices
    <2>2. \A i \in Answers(box) : Append(box, m)[i] = box[i]
      BY AnswerIndices
    <2>3. Answers(box) \cup {} = Answers(box)
      OBVIOUS
    <2> QED BY <2>1, <2>2, <2>3
  <1>3. \A m \in Outbound : m.kind # "push" =>
                 /\ NoPush(sent, box) => NoPush(Append(sent, m), box)
                 /\ OnePush(sent, box, queue, shown) => OnePush(Append(sent, m), box, queue, shown)
    BY <1>1 DEF NoPush, OnePush
  <1>4. \A m \in Inbound : ~Answering(m) =>
                 /\ NoPush(sent, box) => NoPush(sent, Append(box, m))
                 /\ OnePush(sent, box, queue, shown) => OnePush(sent, Append(box, m), queue, shown)
    BY <1>2 DEF NoPush, OnePush
  <1> QED BY <1>3, <1>4

\* The push, or its answer, is taken, or something else is.
LEMMA TailPush ==
    ASSUME NEW sent \in Seq(Outbound), NEW box \in Seq(Inbound), NEW queue, NEW shown \in BOOLEAN
    PROVE  /\ sent # <<>> =>
                 /\ NoPush(sent, box) => NoPush(Tail(sent), box) /\ Head(sent).kind # "push"
                 /\ OnePush(sent, box, queue, shown) =>
                       /\ OnePush(Tail(sent), box, queue, shown)
                       /\ Head(sent).kind = "push" =>
                             NoPush(Tail(sent), box) /\ Head(sent).queue = queue
           /\ box # <<>> =>
                 /\ NoPush(sent, box) => NoPush(sent, Tail(box)) /\ ~Answering(Head(box))
                 /\ OnePush(sent, box, queue, shown) =>
                       /\ OnePush(sent, Tail(box), queue, shown)
                       /\ Answering(Head(box)) =>
                             /\ NoPush(sent, Tail(box))
                             /\ Head(box).kind = "shared" => Head(box).row.queue = queue /\ shown
  <1>1. ASSUME sent # <<>>
        PROVE  /\ NoPush(sent, box) => NoPush(Tail(sent), box) /\ Head(sent).kind # "push"
               /\ OnePush(sent, box, queue, shown) =>
                     /\ OnePush(Tail(sent), box, queue, shown)
                     /\ Head(sent).kind = "push" =>
                           NoPush(Tail(sent), box) /\ Head(sent).queue = queue
    <2>1. /\ \A i \in PushesIn(Tail(sent)) : /\ i \in Nat \ {0} /\ i + 1 \in PushesIn(sent)
                                             /\ Tail(sent)[i] = sent[i + 1]
          /\ 1 \in PushesIn(sent) <=> Head(sent).kind = "push"
          /\ Head(sent) = sent[1]
      BY <1>1, PushIndices
    <2>2. \A i \in PushesIn(Tail(sent)) : i + 1 # 1
      BY <2>1
    <2>3. NoPush(sent, box) => NoPush(Tail(sent), box) /\ Head(sent).kind # "push"
      BY <2>1 DEF NoPush
    <2>4. OnePush(sent, box, queue, shown) => OnePush(Tail(sent), box, queue, shown)
      <3> SUFFICES ASSUME OnePush(sent, box, queue, shown) PROVE OnePush(Tail(sent), box, queue, shown)
        OBVIOUS
      <3>1. ASSUME NEW i \in PushesIn(Tail(sent)), NEW j \in PushesIn(Tail(sent)) PROVE i = j
        <4>1. i + 1 = j + 1 /\ i \in Nat /\ j \in Nat
          BY <2>1 DEF OnePush
        <4> QED BY <4>1
      <3>2. PushesIn(Tail(sent)) = {} \/ Answers(box) = {}
        BY <2>1 DEF OnePush
      <3>3. \A i \in PushesIn(Tail(sent)) : Tail(sent)[i].queue = queue
        <4>1. \A i \in PushesIn(Tail(sent)) : i + 1 \in PushesIn(sent) /\ Tail(sent)[i] = sent[i + 1]
          BY <2>1
        <4>2. \A i \in PushesIn(sent) : sent[i].queue = queue
          BY DEF OnePush
        <4> HIDE DEF PushesIn
        <4> QED BY <4>1, <4>2
      <3>4. /\ \A i, j \in Answers(box) : i = j
            /\ \A i \in Answers(box) : box[i].kind = "shared" => box[i].row.queue = queue /\ shown
        BY DEF OnePush
      <3> QED BY <3>1, <3>2, <3>3, <3>4 DEF OnePush
    <2>5. OnePush(sent, box, queue, shown) /\ Head(sent).kind = "push" =>
             NoPush(Tail(sent), box) /\ Head(sent).queue = queue
      BY <2>1, <2>2 DEF OnePush, NoPush
    <2> QED BY <2>3, <2>4, <2>5
  <1>2. ASSUME box # <<>>
        PROVE  /\ NoPush(sent, box) => NoPush(sent, Tail(box)) /\ ~Answering(Head(box))
               /\ OnePush(sent, box, queue, shown) =>
                     /\ OnePush(sent, Tail(box), queue, shown)
                     /\ Answering(Head(box)) =>
                           /\ NoPush(sent, Tail(box))
                           /\ Head(box).kind = "shared" => Head(box).row.queue = queue /\ shown
    <2>1. /\ \A i \in Answers(Tail(box)) : /\ i \in Nat \ {0} /\ i + 1 \in Answers(box)
                                           /\ Tail(box)[i] = box[i + 1]
          /\ 1 \in Answers(box) <=> Answering(Head(box))
          /\ Head(box) = box[1]
      BY <1>2, AnswerIndices
    <2>2. \A i \in Answers(Tail(box)) : i + 1 # 1
      BY <2>1
    <2>3. NoPush(sent, box) => NoPush(sent, Tail(box)) /\ ~Answering(Head(box))
      BY <2>1 DEF NoPush
    <2>4. OnePush(sent, box, queue, shown) => OnePush(sent, Tail(box), queue, shown)
      <3> SUFFICES ASSUME OnePush(sent, box, queue, shown) PROVE OnePush(sent, Tail(box), queue, shown)
        OBVIOUS
      <3>1. ASSUME NEW i \in Answers(Tail(box)), NEW j \in Answers(Tail(box)) PROVE i = j
        <4>1. i + 1 = j + 1 /\ i \in Nat /\ j \in Nat
          BY <2>1 DEF OnePush
        <4> QED BY <4>1
      <3>2. PushesIn(sent) = {} \/ Answers(Tail(box)) = {}
        BY <2>1 DEF OnePush
      <3>3. \A i \in Answers(Tail(box)) : /\ i + 1 \in Answers(box)
                                          /\ Tail(box)[i] = box[i + 1]
        BY <2>1
      <3>4. \A i \in Answers(Tail(box)) :
               Tail(box)[i].kind = "shared" => Tail(box)[i].row.queue = queue /\ shown
        <4> HIDE DEF Answers
        <4> QED BY <3>3 DEF OnePush
      <3>5. \A i, j \in PushesIn(sent) : i = j
        BY DEF OnePush
      <3>6. \A i \in PushesIn(sent) : sent[i].queue = queue
        BY DEF OnePush
      <3> QED BY <3>1, <3>2, <3>4, <3>5, <3>6 DEF OnePush
    <2>5. OnePush(sent, box, queue, shown) /\ Answering(Head(box)) =>
             /\ NoPush(sent, Tail(box))
             /\ Head(box).kind = "shared" => Head(box).row.queue = queue /\ shown
      BY <2>1, <2>2 DEF OnePush, NoPush
    <2> QED BY <2>3, <2>4, <2>5
  <1> QED BY <1>1, <1>2

\* A push leaves, and is answered.
LEMMA PushMoves ==
    ASSUME NEW sent \in Seq(Outbound), NEW box \in Seq(Inbound), NEW queue, NEW shown \in BOOLEAN,
           NoPush(sent, box)
    PROVE  /\ \A m \in Outbound : m.kind = "push" /\ m.queue = queue =>
                 OnePush(Append(sent, m), box, queue, shown)
           /\ \A m \in Inbound : (m.kind = "shared" => m.row.queue = queue /\ shown) =>
                 OnePush(sent, Append(box, m), queue, shown)
           /\ OnePush(sent, box, queue, shown)
  <1>1. PushesIn(sent) = {} /\ Answers(box) = {}
    BY DEF NoPush
  <1>2. ASSUME NEW m \in Outbound, m.kind = "push", m.queue = queue
        PROVE  OnePush(Append(sent, m), box, queue, shown)
    BY <1>1, <1>2, PushIndices DEF OnePush
  <1>3. ASSUME NEW m \in Inbound, m.kind = "shared" => m.row.queue = queue /\ shown
        PROVE  OnePush(sent, Append(box, m), queue, shown)
    BY <1>1, <1>3, AnswerIndices DEF OnePush
  <1> QED BY <1>1, <1>2, <1>3 DEF OnePush

-----------------------------------------------------------------------------
(* Steps elsewhere.                                                        *)

\* While the device is served, it is by the present loop; no other loop has
\* a connection.
LEMMA Served ==
    ASSUME Typed, ConnectionOK, connected
    PROVE  /\ registered = generation /\ generation \in Loops /\ generation # Chooser
           /\ Here \notin Disconnected
           /\ \A g \in Loops : g # generation => at[g] \in Disconnected /\ outbox[g] = <<>>
  <1>1. generation \in Loops /\ generation # Chooser
    BY TaskIds DEF Typed, Settings
  <1>2. Here \notin Disconnected
    BY DEF ConnectionOK
  <1>3. registered = generation
    BY <1>1, <1>2 DEF ConnectionOK, Here
  <1>4. \A g \in Loops : g # generation => at[g] \in Disconnected
    BY <1>3 DEF ConnectionOK, Idle
  <1>5. \A g \in Loops : g # generation => outbox[g] = <<>>
    BY <1>3 DEF ConnectionOK
  <1> QED BY <1>1, <1>2, <1>3, <1>4, <1>5

\* What a step of another loop leaves to the present one.
StepElsewhere ==
    /\ UNCHANGED <<generation, connected, gate, shared, synced, forgetting, local, resume>>
    /\ own' = own \/ own' = FALSE
    /\ at'[generation] = at[generation] /\ at'[Chooser] = at[Chooser]
    /\ held'[generation] = held[generation] /\ held'[Chooser] = held[Chooser]
    /\ connected => inbox'[generation] = In /\ outbox'[generation] = Out /\ room' = room

LEMMA ElsewhereKept ==
    ASSUME Typed, GateInv, StepElsewhere, ConnectionOK'
    PROVE  GateInv'
  <1>1. /\ Here' = Here /\ held'[generation'] = held[generation]
        /\ connected => In' = In /\ Out' = Out
    BY DEF StepElsewhere, Here, In, Out
  <1>2. ~connected => gate = Open /\ shared = NoRow /\ at[Chooser] = "ready" /\ Here \in Disconnected
    BY DEF GateInv, ConnectionOK
  <1>3. ~connected' => gate' = Open /\ shared' = NoRow /\ at'[Chooser] = "ready" /\ Here' \in Disconnected
    BY <1>1, <1>2 DEF StepElsewhere
  <1>4. TasksOK'
    <2>1. CASE connected
      BY <1>1, <2>1 DEF StepElsewhere, GateInv, TasksOK
    <2>2. CASE ~connected
      BY <1>1, <1>2, <2>2 DEF StepElsewhere, TasksOK, Delivering, Deciding, TakingShared, Disconnected, Open,
         AwaitingChoice
    <2> QED BY <2>1, <2>2
  <1>5. MessagesOK'
    BY <1>1 DEF StepElsewhere, GateInv, MessagesOK
  <1>6. PushOK'
    <2>1. \A sent, box, queue : OnePush(sent, box, queue, own => forgetting)
                                   => OnePush(sent, box, queue, own' => forgetting)
      BY DEF StepElsewhere, OnePush
    <2>2. connected => (LonePush => LonePush')
      BY <1>1 DEF StepElsewhere, LonePush
    <2> QED BY <1>1, <2>1, <2>2 DEF StepElsewhere, GateInv, PushOK
  <1>7. LocalOK'
    BY <1>1 DEF StepElsewhere, GateInv, LocalOK, AppliesToBackend, OwnReport, OwnPush
  <1>8. OwnOK'
    <2>1. own' => own
      BY DEF StepElsewhere
    <2>2. \A t \in Tasks : at'[t] \in {"applied", "failed"} => at'[t] = at[t]
      <3> SUFFICES ASSUME NEW t \in Tasks, at'[t] \in {"applied", "failed"} PROVE at'[t] = at[t]
        OBVIOUS
      <3>1. at'[t] \notin Idle
        BY DEF Idle
      <3>2. t = Chooser \/ t = generation
        BY <3>1 DEF ConnectionOK, StepElsewhere, Tasks
      <3> QED BY <3>2 DEF StepElsewhere
    <2> QED BY <1>1, <2>1, <2>2 DEF StepElsewhere, GateInv, OwnOK
  <1> QED BY <1>4, <1>5, <1>6, <1>7, <1>8 DEF GateInv

-----------------------------------------------------------------------------
(* The connection.                                                         *)

\* Where the device is not connected, that is all there is to keep.
LEMMA ApartKept ==
    ASSUME ConnectionOK', ~connected', own' => local' # Empty /\ local' # synced'
    PROVE  GateInv'
  <1>1. gate' = Open /\ shared' = NoRow /\ at'[Chooser] = "ready" /\ Here' \in Disconnected
    BY DEF ConnectionOK
  <1>2. \A t \in Tasks : at'[t] \in Idle
    BY <1>1 DEF ConnectionOK, Here, Tasks, Idle, Disconnected
  <1>3. TasksOK'
    BY <1>1 DEF TasksOK, Delivering, Deciding, TakingShared, Disconnected, Open, AwaitingChoice
  <1>4. OwnOK'
    BY <1>2 DEF OwnOK, Idle
  <1> QED BY <1>3, <1>4 DEF GateInv, MessagesOK, PushOK, LocalOK

\* What a step of one task does to the others.
LEMMA Moved ==
    ASSUME Typed, NEW t \in Tasks, NEW label, Goto(t, label)
    PROVE  /\ at'[t] = label /\ \A u \in Tasks : u # t => at'[u] = at[u]
  BY DEF Typed, Works, Goto

LEMMA Held ==
    ASSUME Typed, NEW t \in Tasks, NEW work, Hold(t, work)
    PROVE  held'[t] = work /\ \A u \in Tasks : u # t => held'[u] = held[u]
  BY DEF Typed, Works, Hold

LEMMA OwnLocal ==
    ASSUME Typed, GateInv
    PROVE  own => local # Empty /\ local # synced
  BY DEF GateInv, OwnOK

\* A loop that ends, logs in or loses its connection.
LEMMA LeavingGate ==
    ASSUME Typed, GateInv, Races = {}, ~forgetting, NEW g \in Loops,
           EndLoop(g) \/ Login(g) \/ Disconnect(g)
    PROVE  GateInv'
  <1>1. /\ generation' = generation /\ generation \in Loops /\ room' = room
        /\ registered' = registered /\ outbox' = outbox /\ forgetting' = forgetting
        /\ UNCHANGED <<own, local, synced, held>>
    BY DEF EndLoop, Login, Disconnect, serverVars, localVars, settingVars, Typed, Settings
  <1>2. /\ at'[g] \in Disconnected /\ \A u \in Tasks : u # g => at'[u] = at[u]
    BY Moved, TaskIds DEF EndLoop, Login, Disconnect, Disconnected
  <1>3. at[Chooser] = at'[Chooser] /\ (g = generation => at[Chooser] = "ready")
    BY <1>1, <1>2, TaskIds DEF EndLoop, Login, Disconnect, MayHandle, ChoiceCarriedOut, GateInv,
       ConnectionOK, Here, Disconnected
  <1>4. CASE g = generation
    <2>1. ~connected' /\ gate' = Open /\ shared' = NoRow
      BY <1>4 DEF EndLoop, Login, Disconnect, GateInv, ConnectionOK, Here, Disconnected
    <2>2. ConnectionOK'
      BY <1>1, <1>2, <1>3, <1>4, <2>1, TaskIds DEF ConnectionOK, GateInv, Here, Idle, Disconnected
    <2> QED BY <1>1, <2>1, <2>2, ApartKept, OwnLocal
  <1>5. CASE g # generation
    <2>1. UNCHANGED <<connected, shared, gate>> /\ at'[generation] = at[generation]
      BY <1>1, <1>2, <1>5, TaskIds DEF EndLoop, Login, Disconnect
    <2>2. ConnectionOK'
      BY <1>1, <1>2, <1>3, <1>5, <2>1, TaskIds DEF ConnectionOK, GateInv, Here, Idle, Disconnected
    <2>3. inbox'[generation] = inbox[generation] /\ resume' = resume
      BY <1>1, <1>5 DEF EndLoop, Login, Disconnect, Typed, Channels
    <2> QED BY <1>1, <1>3, <2>1, <2>2, <2>3, ElsewhereKept DEF StepElsewhere, In, Out
  <1> QED BY <1>4, <1>5

LEMMA ConnectGate ==
    ASSUME Typed, GateInv, Races = {}, ~forgetting, NEW g \in Loops, Connect(g)
    PROVE  GateInv'
  <1>1. /\ generation' = generation /\ generation \in Loops /\ room' = room /\ registered' = g
        /\ forgetting' = forgetting /\ at[g] = "connecting" /\ registered = Chooser
        /\ UNCHANGED <<own, local, synced, held, gate, shared>>
    BY DEF Connect, localVars, settingVars, Typed, Settings
  <1>2. ~connected
    BY <1>1, TaskIds, Served DEF GateInv
  <1>3. at'[g] = "ready" /\ \A u \in Tasks : u # g => at'[u] = at[u]
    BY Moved, TaskIds DEF Connect
  <1>4. /\ outbox'[g] = <<>> /\ inbox'[g] = <<SharedMessage(room, "snapshot")>>
        /\ \A h \in Loops : h # g => outbox'[h] = outbox[h]
    BY DEF Connect, Typed, Channels
  <1>5. gate = Open /\ shared = NoRow /\ at[Chooser] = "ready" /\ at'[Chooser] = "ready"
    BY <1>2, <1>3, TaskIds DEF GateInv, ConnectionOK
  <1>6. \A h \in Loops : h # g => at[h] \in Disconnected /\ outbox'[h] = <<>>
    BY <1>1, <1>4, TaskIds DEF GateInv, ConnectionOK
  <1>7. room.active # Me
    BY <1>1 DEF GateInv, ConnectionOK
  <1>8. connected' = (g = generation)
    BY <1>2 DEF Connect
  <1>9. ConnectionOK'
    BY <1>1, <1>3, <1>4, <1>5, <1>6, <1>7, <1>8, TaskIds
       DEF ConnectionOK, GateInv, Here, Idle, Disconnected
  <1>10. CASE ~connected'
    BY <1>1, <1>9, <1>10, ApartKept, OwnLocal
  <1>11. CASE connected'
    <2>1. Here' = "ready" /\ In' = <<SharedMessage(room, "snapshot")>> /\ Out' = <<>>
      BY <1>1, <1>3, <1>4, <1>8, <1>11 DEF Here, In, Out
    <2>2. TasksOK'
      BY <1>1, <1>5, <2>1 DEF TasksOK, Delivering, Deciding, TakingShared, Open, AwaitingChoice
    <2>3. MessagesOK'
      BY <1>1, <1>5, <1>7, <2>1 DEF MessagesOK
    <2>4. PushOK'
      <3>1. ~Answering(SharedMessage(room, "snapshot"))
        BY DEF Answering, SharedMessage, OwnPush
      <3>2. NoPush(Out', In')
        BY <2>1, <3>1 DEF NoPush, PushesIn, Answers
      <3> QED BY <1>1, <1>5, <3>2 DEF PushOK, Open
    <2>5. LocalOK'
      BY <1>1, <1>5 DEF LocalOK
    <2>6. \A t \in Tasks : at'[t] \in Idle
      BY <1>3, <1>5, <1>6 DEF Idle, Disconnected, Tasks
    <2>7. OwnOK'
      BY <1>1, <1>5, <2>6, OwnLocal DEF OwnOK, Idle
    <2> QED BY <1>9, <2>2, <2>3, <2>4, <2>5, <2>7 DEF GateInv
  <1> QED BY <1>10, <1>11

LEMMA RestartGate ==
    ASSUME Typed, GateInv, Races = {}, TurnOff \/ Restart
    PROVE  GateInv'
  <1>1. CASE Restart
    <2>1. \A t \in Tasks : at[t] \in Idle
      BY <1>1 DEF Restart, MayInterrupt
    <2>2. generation' = generation + 1 /\ generation \in Loops /\ generation + 1 \in Loops
      BY <1>1, SessionBoundsAssumption DEF Restart, Loops, Typed, Settings
    <2>3. at'[generation + 1] = "offline" /\ \A u \in Tasks : u # generation + 1 => at'[u] = at[u]
      BY <1>1, <2>2, Moved, TaskIds DEF Restart
    <2>4. at[Chooser] = "ready" /\ at'[Chooser] = "ready"
      <3>1. at[Chooser] \in ChooserLabels
        BY TaskIds DEF Typed, Works, TaskTyped
      <3> QED BY <2>1, <2>2, <2>3, <3>1, TaskIds DEF ChooserLabels, Idle
    <2>5. /\ connected' = FALSE /\ shared' = NoRow /\ gate' = Open /\ forgetting' = FALSE
          /\ UNCHANGED <<synced, local, own, room, registered, outbox>>
      BY <1>1 DEF Restart, localVars, serverVars
    <2>6. ConnectionOK'
      BY <2>1, <2>2, <2>3, <2>4, <2>5, TaskIds DEF ConnectionOK, GateInv, Here, Idle, Disconnected
    <2> QED BY <2>5, <2>6, ApartKept, OwnLocal
  <1>2. CASE TurnOff
    <2>1. \A t \in Tasks : at[t] \in Idle
      BY <1>2 DEF TurnOff, MayInterrupt
    <2>2. /\ forgetting' = TRUE /\ synced' = Unknown /\ own' = (local # Empty)
          /\ UNCHANGED <<generation, connected, gate, shared, local, at, held, inbox, outbox, room,
                         registered, resume>>
      BY <1>2 DEF TurnOff, serverVars
    <2>3. Here' = Here /\ In' = In /\ Out' = Out
      BY <2>2 DEF Here, In, Out
    <2>4. ConnectionOK'
      BY <2>1, <2>2, <2>3 DEF ConnectionOK, GateInv
    <2>5. TasksOK' /\ MessagesOK' /\ LocalOK'
      BY <2>2, <2>3 DEF TasksOK, MessagesOK, LocalOK, GateInv, AppliesToBackend, OwnReport, OwnPush
    <2>6. PushOK'
      BY <2>2, <2>3 DEF PushOK, OnePush, LonePush, GateInv
    <2>7. OwnOK'
      <3>1. local # Unknown
        BY UnknownAssumption DEF Typed, Settings
      <3> QED BY <2>1, <2>2, <2>3, <3>1 DEF OwnOK, Idle
    <2> QED BY <2>4, <2>5, <2>6, <2>7 DEF GateInv
  <1> QED BY <1>1, <1>2

-----------------------------------------------------------------------------
(* Messages from the server.                                               *)

\* The part of the invariant a loop that is ready starts from.
LEMMA ReadyLoop ==
    ASSUME Typed, GateInv, Races = {}, NEW g \in Loops, at[g] = "ready", MayHandle
    PROVE  /\ at[Chooser] = "ready"
           /\ g = generation => connected /\ Here = "ready"
           /\ g # generation => ~connected
  <1>1. at[Chooser] = "ready"
    BY DEF MayHandle, ChoiceCarriedOut
  <1>2. g = generation => connected /\ Here = "ready"
    BY DEF GateInv, ConnectionOK, Here, Disconnected
  <1>3. g # generation => ~connected
    BY Served DEF GateInv, Disconnected
  <1> QED BY <1>1, <1>2, <1>3

LEMMA OldReceiveGate ==
    ASSUME Typed, GateInv, Races = {}, ~forgetting, NEW g \in Loops, g # generation,
           ReceiveShared(g) \/ ReceiveError(g)
    PROVE  GateInv'
  <1>1. ~connected
    BY ReadyLoop DEF ReceiveShared, ReceiveError
  <1>2. gate = Open
    BY <1>1 DEF GateInv, ConnectionOK
  <1>3. gate' = gate
    BY <1>2 DEF ReceiveShared, ReceiveError, AfterFailedPush, Open
  <1>4. UNCHANGED <<generation, connected, shared, synced, local, own, at, held, room, registered,
                    outbox, forgetting>>
    BY DEF ReceiveShared, ReceiveError, settingVars, localVars, serverVars
  <1>5. ConnectionOK'
    BY <1>3, <1>4 DEF GateInv, ConnectionOK, Here
  <1> QED BY <1>1, <1>4, <1>5, ApartKept, OwnLocal

\* No message waits, and the row is the server's.
LEMMA NothingWaits ==
    /\ Leads(<<>>, room, room)
    /\ NoPush(<<>>, <<>>)
  BY DEF Leads, EndsIn, Shareds, NoPush, PushesIn, Answers

LEMMA RowIsNoNoRow == \A row \in Row : row # NoRow /\ row.seq \in Nat
  BY DEF Row, NoRow, NoSeq

\* The first message: the snapshot.
LEMMA FirstSnapshotGate ==
    ASSUME Typed, GateInv, Races = {}, ~forgetting, ReceiveShared(generation), shared = NoRow
    PROVE  GateInv'
  <1> DEFINE m == Head(In)
  <1>1. generation \in Loops /\ generation # Chooser /\ generation \in Tasks /\ room \in Row
    BY TaskIds DEF Typed, Settings
  <1>2. /\ Here = "ready" /\ connected /\ at[Chooser] = "ready"
        /\ UNCHANGED <<generation, connected, local, own, room, registered, outbox, forgetting, resume>>
    BY <1>1, ReadyLoop DEF ReceiveShared, settingVars, localVars, serverVars
  <1>3. In = <<SharedMessage(room, "snapshot")>> /\ room.active # Me /\ Out = <<>> /\ gate = Open
    BY <1>2 DEF GateInv, MessagesOK, TasksOK
  <1>4. m.row = room /\ m.reason = "snapshot" /\ ~OwnPush(m)
    BY <1>3 DEF SharedMessage, OwnPush
  <1>5. /\ inbox' = [inbox EXCEPT ![generation] = Tail(@)]
        /\ ~(room.seq < shared.seq)
    BY <1>1, RowIsNoNoRow DEF ReceiveShared, NoRow, NoSeq
  <1>6. /\ shared' = room /\ synced' = synced /\ gate' = Open
        /\ Hold(generation, Handled(room, "snapshot", generation)) /\ Goto(generation, "classify")
    BY <1>3, <1>4, <1>5 DEF ReceiveShared, In
  <1>7. /\ Here' = "classify" /\ \A u \in Tasks : u # generation => at'[u] = at[u]
        /\ held'[generation'] = Handled(room, "snapshot", generation)
    BY <1>1, <1>2, <1>6, Moved, Held DEF Here
  <1>8. In' = <<>> /\ Out' = <<>>
    BY <1>1, <1>2, <1>3, <1>5 DEF In, Out, Typed, Channels
  <1>9. ConnectionOK'
    BY <1>1, <1>2, <1>6, <1>7, TaskIds DEF ConnectionOK, GateInv, Here, Disconnected
  <1>10. TasksOK'
    <2>1. /\ held'[generation'].row = shared' /\ held'[generation'].reason = "snapshot"
          /\ held'[generation'].generation = generation'
      BY <1>2, <1>6, <1>7 DEF Handled
    <2>2. shared' # NoRow /\ shared' = room' /\ shared'.active # Me /\ gate' = Open /\ at'[Chooser] = "ready"
      BY <1>1, <1>2, <1>3, <1>6, <1>7, RowIsNoNoRow, TaskIds
    <2> QED BY <1>7, <1>8, <2>1, <2>2 DEF TasksOK, Delivering, Deciding, TakingShared
  <1>11. MessagesOK' /\ PushOK'
    BY <1>1, <1>2, <1>6, <1>8, NothingWaits, RowIsNoNoRow DEF MessagesOK, PushOK, Open
  <1>12. LocalOK' /\ OwnOK'
    <2>1. \A t \in Tasks : at'[t] \in {"applied", "failed"} => at'[t] = at[t]
      BY <1>2, <1>7 DEF Here
    <2>2. LocalOK'
      BY <1>7 DEF LocalOK
    <2>3. OwnOK'
      BY <1>2, <1>6, <1>7, <2>1 DEF OwnOK, GateInv, Delivering
    <2> QED BY <2>2, <2>3
  <1> QED BY <1>9, <1>10, <1>11, <1>12 DEF GateInv

\* A later message: it opens the gate if it shows that the push was taken.
LEMMA LaterSharedGate ==
    ASSUME Typed, GateInv, Races = {}, ~forgetting, ReceiveShared(generation), shared # NoRow
    PROVE  GateInv'
  <1> DEFINE m == Head(In)
  <1>1. generation \in Loops /\ generation # Chooser /\ generation \in Tasks /\ room \in Row /\ shared \in Row
    BY TaskIds DEF Typed, Settings
  <1>2. /\ Here = "ready" /\ connected /\ at[Chooser] = "ready"
        /\ UNCHANGED <<generation, connected, local, own, room, registered, outbox, forgetting, resume>>
    BY <1>1, ReadyLoop DEF ReceiveShared, settingVars, localVars, serverVars
  <1>3. /\ In \in Seq(Inbound) /\ Out \in Seq(Outbound) /\ In # <<>>
        /\ m \in Inbound /\ m.kind = "shared" /\ m.row \in Row /\ m.row.seq \in Nat /\ shared.seq \in Nat
    BY <1>1, BoxTypes, MessageTypes, RowIsNoNoRow DEF ReceiveShared, In, Out
  <1>4. Leads(In, shared, room)
    BY <1>2 DEF GateInv, MessagesOK
  <1>5. /\ Leads(Tail(In), m.row, room)
        /\ m.reason # "snapshot" /\ shared.seq <= m.row.seq
        /\ m.reason \in Keeps => m.row.queue = shared.queue
        /\ m.reason = "push" => OwnPush(m)
    BY <1>1, <1>3, <1>4, TailLeads
  <1>6. inbox' = [inbox EXCEPT ![generation] = Tail(@)]
    BY DEF ReceiveShared
  <1>7. In' = Tail(In) /\ Out' = Out
    BY <1>1, <1>2, <1>6 DEF In, Out, Typed, Channels
  <1>8. /\ shared' = m.row
        /\ synced' = IF OwnPush(m) THEN m.row.queue ELSE synced
        /\ gate' = IF OwnPush(m) /\ gate.kind = "pushing" THEN Open ELSE gate
        /\ IF gate' # Open THEN UNCHANGED <<at, held>>
           ELSE Hold(generation, Handled(m.row, m.reason, generation)) /\ Goto(generation, "deliver")
    <2>1. ~(m.row.seq < shared.seq)
      BY <1>3, <1>5
    <2> QED BY <1>5, <2>1 DEF ReceiveShared, In
  <1>9. gate.kind # "pushing" => NoPush(Out, In') /\ ~OwnPush(m)
    <2>1. gate.kind # "pushing" => NoPush(Out, In)
      BY <1>2 DEF GateInv, PushOK
    <2> QED BY <1>3, <1>7, <2>1, TailPush DEF Answering
  <1>10. gate.kind = "pushing" /\ gate.user =>
            /\ OnePush(Out, In', local, own => forgetting)
            /\ OwnPush(m) => NoPush(Out, In') /\ m.row.queue = local /\ ~own
    <2>1. gate.kind = "pushing" /\ gate.user => OnePush(Out, In, local, own => forgetting)
      BY <1>2 DEF GateInv, PushOK
    <2>2. (own => forgetting) \in BOOLEAN
      OBVIOUS
    <2> QED BY <1>3, <1>7, <2>1, <2>2, TailPush DEF Answering
  <1>11. gate.kind = "pushing" /\ ~gate.user => 
            OwnPush(m) /\ NoPush(Out, In') /\ m.row.queue = local /\ ~own
    <2> SUFFICES ASSUME gate.kind = "pushing", ~gate.user
                 PROVE  OwnPush(m) /\ NoPush(Out, In') /\ m.row.queue = local /\ ~own
      OBVIOUS
    <2>1. LonePush
      BY <1>2 DEF GateInv, PushOK
    <2>2. /\ Out = <<>> /\ In = <<SharedMessage(room, "push")>>
          /\ room.by = Me /\ room.queue = local /\ ~own
      BY <1>3, <2>1 DEF LonePush
    <2>3. m = SharedMessage(room, "push") /\ Tail(In) = <<>>
      BY <2>2
    <2> QED BY <1>7, <2>2, <2>3, NothingWaits DEF OwnPush, SharedMessage
  <1>12. OwnPush(m) => gate' = Open /\ m.row.queue = local /\ ~own
    BY <1>8, <1>9, <1>10, <1>11, <1>1 DEF Typed, Settings, Gates
  <1>13. ~OwnPush(m) => gate' = gate /\ synced' = synced
    BY <1>8
  <1>14. CASE gate' = Open
    <2>1. /\ Here' = "deliver" /\ \A u \in Tasks : u # generation => at'[u] = at[u]
          /\ held'[generation'] = Handled(m.row, m.reason, generation)
      BY <1>1, <1>2, <1>8, <1>14, Moved, Held DEF Here
    <2>2. ConnectionOK'
      BY <1>1, <1>2, <1>8, <1>14, <2>1, TaskIds DEF ConnectionOK, GateInv, Here, Disconnected
    <2>3. TasksOK'
      <3>1. held'[generation'].row = shared' /\ held'[generation'].generation = generation'
        BY <1>2, <1>8, <2>1 DEF Handled
      <3>2. shared' # NoRow /\ at'[Chooser] = "ready"
        BY <1>1, <1>2, <1>3, <1>8, <2>1, RowIsNoNoRow, TaskIds
      <3> QED BY <1>14, <2>1, <3>1, <3>2 DEF TasksOK, Delivering, Deciding, TakingShared
    <2>4. MessagesOK'
      BY <1>2, <1>3, <1>5, <1>7, <1>8, RowIsNoNoRow DEF MessagesOK
    <2>5. PushOK'
      <3>1. NoPush(Out', In')
        <4>1. CASE OwnPush(m)
          BY <1>7, <1>9, <1>10, <1>11, <4>1
        <4>2. CASE ~OwnPush(m)
          BY <1>7, <1>9, <1>13, <1>14, <4>2 DEF Open
        <4> QED BY <4>1, <4>2
      <3> QED BY <1>14, <3>1 DEF PushOK, Open
    <2>6. ~own
      <3>1. CASE OwnPush(m)
        BY <1>12, <3>1
      <3>2. CASE ~OwnPush(m)
        BY <1>2, <1>13, <1>14, <3>2 DEF GateInv, OwnOK
      <3> QED BY <3>1, <3>2
    <2>7. LocalOK'
      <3> SUFFICES ASSUME Resumes = {}, ~AppliesToBackend(generation)' PROVE local = m.row.queue
        BY <1>2, <1>8, <2>1 DEF LocalOK
      <3>1. CASE OwnPush(m)
        BY <1>12, <3>1
      <3>2. CASE ~OwnPush(m)
        <4>1. local = shared.queue
          BY <1>2, <1>13, <1>14, <3>2 DEF GateInv, LocalOK
        <4>2. m.reason \in Keeps
          BY <1>2, <1>5, <2>1, <3>2 DEF AppliesToBackend, OwnReport, OwnPush, Handled, Keeps
        <4> QED BY <1>5, <4>1, <4>2
      <3> QED BY <3>1, <3>2
    <2>8. OwnOK'
      BY <1>2, <2>1, <2>6 DEF OwnOK
    <2> QED BY <2>2, <2>3, <2>4, <2>5, <2>7, <2>8 DEF GateInv
  <1>15. CASE gate' # Open
    <2>1. ~OwnPush(m) /\ gate' = gate /\ synced' = synced /\ at' = at /\ held' = held
      BY <1>8, <1>12, <1>13, <1>15
    <2>2. Here' = "ready" /\ shared' # NoRow
      BY <1>2, <1>3, <1>8, <2>1, RowIsNoNoRow DEF Here
    <2>3. ConnectionOK'
      BY <1>2, <2>1, <2>2 DEF ConnectionOK, GateInv
    <2>4. TasksOK'
      BY <1>2, <1>15, <2>1, <2>2 DEF TasksOK, Delivering, Deciding, TakingShared
    <2>5. MessagesOK'
      BY <1>2, <1>5, <1>7, <1>8, <2>2 DEF MessagesOK
    <2>6. PushOK'
      BY <1>2, <1>7, <1>9, <1>10, <1>11, <2>1 DEF PushOK
    <2>7. LocalOK' /\ OwnOK'
      BY <1>2, <1>15, <2>1 DEF LocalOK, OwnOK, GateInv
    <2> QED BY <2>3, <2>4, <2>5, <2>6, <2>7 DEF GateInv
  <1> QED BY <1>14, <1>15

LEMMA ReceiveErrorGate ==
    ASSUME Typed, GateInv, Races = {}, ~forgetting, ReceiveError(generation)
    PROVE  GateInv'
  <1> DEFINE m == Head(In)
  <1>1. generation \in Loops /\ generation # Chooser /\ generation \in Tasks /\ room \in Row
    BY TaskIds DEF Typed, Settings
  <1>2. /\ Here = "ready" /\ connected /\ at[Chooser] = "ready"
        /\ UNCHANGED <<generation, connected, local, own, room, registered, outbox, forgetting, resume,
                       shared, synced, at, held>>
    BY <1>1, ReadyLoop DEF ReceiveError, settingVars, localVars, serverVars
  <1>3. /\ In \in Seq(Inbound) /\ Out \in Seq(Outbound) /\ In # <<>> /\ m.kind = "error"
        /\ gate' = AfterFailedPush(m.id)
    BY <1>1, BoxTypes DEF ReceiveError, In, Out
  <1>4. inbox' = [inbox EXCEPT ![generation] = Tail(@)]
    BY DEF ReceiveError
  <1>5. In' = Tail(In) /\ Out' = Out /\ Here' = "ready"
    BY <1>1, <1>2, <1>4 DEF In, Out, Here, Typed, Channels
  <1>6. shared # NoRow
    BY <1>2, <1>3 DEF GateInv, MessagesOK, SharedMessage
  <1>7. Leads(In', shared, room)
    BY <1>1, <1>2, <1>3, <1>5, <1>6, TailError DEF GateInv, MessagesOK, Typed, Settings
  <1>8. Answering(m)
    BY <1>3 DEF Answering
  <1>9. gate.kind = "pushing"
    <2>1. gate.kind # "pushing" => NoPush(Out, In)
      BY <1>2 DEF GateInv, PushOK
    <2> QED BY <1>3, <1>8, <2>1, TailPush
  <1>10. gate.user
    <2> SUFFICES ASSUME ~gate.user PROVE FALSE
      OBVIOUS
    <2>1. LonePush
      BY <1>2, <1>9 DEF GateInv, PushOK
    <2> QED BY <1>3, <2>1 DEF LonePush, SharedMessage
  <1>11. OnePush(Out, In', local, own => forgetting) /\ NoPush(Out, In')
    <2>1. OnePush(Out, In, local, own => forgetting)
      BY <1>2, <1>9, <1>10 DEF GateInv, PushOK
    <2>2. (own => forgetting) \in BOOLEAN
      OBVIOUS
    <2> QED BY <1>3, <1>5, <1>8, <2>1, <2>2, TailPush
  <1>12. gate' = gate \/ gate' = AwaitingChoice
    BY <1>3, <1>9, <1>10 DEF AfterFailedPush
  <1>13. gate' # Open
    BY <1>9, <1>12 DEF Open, AwaitingChoice
  <1>14. ConnectionOK'
    BY <1>2, <1>5 DEF ConnectionOK, GateInv, Disconnected
  <1>15. TasksOK'
    BY <1>2, <1>5, <1>6, <1>13 DEF TasksOK, Delivering, Deciding, TakingShared
  <1>16. MessagesOK'
    BY <1>2, <1>6, <1>7 DEF MessagesOK
  <1>17. PushOK'
    BY <1>2, <1>5, <1>9, <1>10, <1>11, <1>12 DEF PushOK, AwaitingChoice
  <1>18. LocalOK' /\ OwnOK'
    BY <1>2, <1>13 DEF LocalOK, OwnOK, GateInv
  <1> QED BY <1>14, <1>15, <1>16, <1>17, <1>18 DEF GateInv

-----------------------------------------------------------------------------
(* The session decides, and pushes.                                        *)

\* A loop that works is the present one, and is connected.
LEMMA WorkingLoop ==
    ASSUME Typed, GateInv, NEW g \in Loops, at[g] \notin Idle
    PROVE  g = generation /\ connected
  <1>1. g = generation
    BY DEF GateInv, ConnectionOK
  <1> QED BY <1>1 DEF GateInv, ConnectionOK, Here, Idle, Disconnected

\* A step of a task that is connected: what it shares with the server stays.
LEMMA DeviceStep ==
    ASSUME Typed, GateInv, ~forgetting, connected, shared # NoRow,
           UNCHANGED <<generation, connected, shared, room, registered, inbox, forgetting>>,
           NEW t \in {generation, Chooser}, NEW label, Goto(t, label), label \notin Disconnected,
           outbox' = outbox \/ \E m \in Outbound : SendOut(m)
    PROVE  /\ ConnectionOK' /\ MessagesOK'
           /\ In' = In /\ (outbox' = outbox => Out' = Out)
           /\ \A m \in Outbound : SendOut(m) => Out' = Append(Out, m)
           /\ at'[t] = label /\ \A u \in Tasks : u # t => at'[u] = at[u]
           /\ t = generation => Here' = label
           /\ t = Chooser => Here' = Here
           /\ generation \in Tasks /\ generation # Chooser
  <1>1. generation \in Loops /\ generation \in Tasks /\ generation # Chooser /\ t \in Tasks
    BY TaskIds DEF Typed, Settings
  <1>2. at'[t] = label /\ \A u \in Tasks : u # t => at'[u] = at[u]
    BY <1>1, Moved
  <1>3. /\ \A g \in Loops : g # generation => outbox'[g] = outbox[g]
        /\ \A m \in Outbound : SendOut(m) => Out' = Append(Out, m)
    BY <1>1 DEF SendOut, Typed, Channels, Out
  <1>4. In' = In /\ (outbox' = outbox => Out' = Out)
    BY DEF In, Out
  <1>5. /\ t = generation => Here' = label
        /\ t = Chooser => Here' = Here
    BY <1>1, <1>2 DEF Here
  <1>6. Here \notin Disconnected /\ Here' \notin Disconnected
    BY <1>5 DEF GateInv, ConnectionOK
  <1>7. registered = generation
    BY <1>1, <1>6 DEF GateInv, ConnectionOK, Here
  <1>8. ConnectionOK'
    BY <1>1, <1>2, <1>3, <1>6, <1>7, TaskIds DEF ConnectionOK, GateInv, Here
  <1>9. MessagesOK'
    BY <1>4 DEF MessagesOK, GateInv
  <1> QED BY <1>1, <1>2, <1>3, <1>4, <1>5, <1>8, <1>9

LEMMA ClassifyGate ==
    ASSUME Typed, GateInv, Races = {}, ~forgetting, NEW g \in Loops, Classify(g)
    PROVE  GateInv'
  <1>1. g = generation /\ connected /\ Here = "classify"
    BY WorkingLoop DEF Classify, Idle, Here
  <1>2. /\ gate = Open /\ shared = room /\ In = <<>> /\ Out = <<>> /\ at[Chooser] = "ready"
        /\ held[generation].row = shared /\ shared.active # Me
        /\ held[generation].reason = "snapshot" /\ held[generation].generation = generation
    BY <1>1 DEF GateInv, TasksOK, Deciding
  <1>3. shared # NoRow
    BY <1>2, RowIsNoNoRow DEF Typed, Settings
  <1> DEFINE action == SnapshotAction(local, held[generation].row.queue, synced)
  <1>4. /\ UNCHANGED <<generation, connected, gate, shared, resume, local, held, room, registered,
                       inbox, outbox, forgetting>>
        /\ synced' = (IF action = "deliver" THEN synced ELSE Unknown)
        /\ own' = (own /\ local # held[generation].row.queue)
        /\ Goto(generation, action)
    BY <1>1 DEF Classify, settingVars, serverVars
  <1>5. action \in {"deliver", "reading", "asking"}
    BY DEF SnapshotAction
  <1>6. action = "deliver" => local \in {Empty, synced, held[generation].row.queue}
    BY DEF SnapshotAction
  <1> HIDE DEF action
  <1>7. /\ ConnectionOK' /\ MessagesOK' /\ In' = In /\ Out' = Out
        /\ Here' = action /\ \A u \in Tasks : u # generation => at'[u] = at[u]
        /\ generation \in Tasks /\ generation # Chooser /\ at'[generation] = action
    BY <1>1, <1>3, <1>4, <1>5, DeviceStep DEF Disconnected
  <1>8. at'[Chooser] = "ready"
    BY <1>2, <1>7, TaskIds
  <1>9. TasksOK'
    BY <1>2, <1>3, <1>4, <1>5, <1>7, <1>8 DEF TasksOK, Delivering, Deciding, TakingShared
  <1>10. PushOK'
    <2>1. NoPush(Out', In')
      BY <1>2, <1>7, NothingWaits
    <2> QED BY <1>2, <1>4, <2>1 DEF PushOK, Open
  <1>11. LocalOK'
    <2>1. AppliesToBackend(generation)'
      BY <1>2, <1>4 DEF AppliesToBackend, OwnReport, OwnPush
    <2> QED BY <1>4, <1>5, <1>7, <2>1 DEF LocalOK
  <1>12. own => local # Empty /\ local # synced
    BY OwnLocal
  <1>13. action = "deliver" => ~own'
    BY <1>4, <1>6, <1>12
  <1>14. own' => local' # Empty /\ local' # synced'
    <2>1. local # Unknown
      BY UnknownAssumption DEF Typed, Settings
    <2> QED BY <1>4, <1>12, <2>1
  <1>15. OwnOK'
    <2>1. \A t \in Tasks : at'[t] \in {"applied", "failed"} => ~own'
      BY <1>4, <1>5, <1>7 DEF GateInv, OwnOK
    <2> QED BY <1>5, <1>7, <1>13, <1>14, <2>1 DEF OwnOK, Delivering
  <1> QED BY <1>7, <1>9, <1>10, <1>11, <1>15 DEF GateInv

LEMMA AskUserGate ==
    ASSUME Typed, GateInv, Races = {}, ~forgetting, NEW g \in Loops, AskUser(g)
    PROVE  GateInv'
  <1>1. g = generation /\ connected /\ Here = "asking"
    BY WorkingLoop DEF AskUser, Idle, Here
  <1>2. gate = Open /\ shared # NoRow /\ at[Chooser] = "ready"
    BY <1>1 DEF GateInv, TasksOK
  <1>3. /\ UNCHANGED <<generation, connected, shared, local, own, synced, room, registered, inbox,
                       outbox, forgetting>>
        /\ gate' = AwaitingChoice /\ Goto(generation, "ready")
    BY <1>1 DEF AskUser, settingVars, serverVars, localVars
  <1>4. /\ ConnectionOK' /\ MessagesOK' /\ In' = In /\ Out' = Out
        /\ Here' = "ready" /\ \A u \in Tasks : u # generation => at'[u] = at[u]
        /\ generation \in Tasks /\ generation # Chooser /\ at'[generation] = "ready"
    BY <1>1, <1>2, <1>3, DeviceStep DEF Disconnected
  <1>5. gate' # Open /\ gate.kind # "pushing" /\ gate'.kind # "pushing"
    BY <1>2, <1>3 DEF Open, AwaitingChoice
  <1>6. TasksOK'
    BY <1>1, <1>2, <1>3, <1>4, <1>5, TaskIds DEF TasksOK, Delivering, Deciding, TakingShared
  <1>7. PushOK'
    BY <1>1, <1>4, <1>5 DEF PushOK, GateInv
  <1>8. LocalOK' /\ OwnOK'
    BY <1>3, <1>4, <1>5 DEF LocalOK, OwnOK, GateInv
  <1> QED BY <1>4, <1>6, <1>7, <1>8 DEF GateInv

LEMMA ReadLocalGate ==
    ASSUME Typed, GateInv, Races = {}, ~forgetting, NEW t \in Tasks, ReadLocal(t)
    PROVE  GateInv'
  <1>1. t = generation \/ t = Chooser
    BY WorkingLoop DEF ReadLocal, Idle, Tasks
  <1>2. /\ UNCHANGED <<generation, connected, gate, shared, local, own, synced, room, registered,
                       inbox, outbox, forgetting, resume>>
        /\ Goto(t, "closing") /\ Hold(t, Pushed(NoId, local))
    BY DEF ReadLocal, settingVars, serverVars, localVars
  <1>3. held'[t].queue = local /\ \A u \in Tasks : u # t => held'[u] = held[u]
    BY <1>2, Held DEF Pushed
  <1>4. CASE t = generation
    <2>1. Here = "reading" /\ connected
      BY <1>4, WorkingLoop, TaskIds DEF ReadLocal, Idle, Here, Typed, Settings
    <2>2. /\ gate = Open /\ shared = room /\ In = <<>> /\ Out = <<>> /\ at[Chooser] = "ready"
          /\ shared.active # Me
      BY <2>1 DEF GateInv, TasksOK, Deciding
    <2>3. shared # NoRow
      BY <2>2, RowIsNoNoRow DEF Typed, Settings
    <2>4. /\ ConnectionOK' /\ MessagesOK' /\ In' = In /\ Out' = Out
          /\ Here' = "closing" /\ \A u \in Tasks : u # generation => at'[u] = at[u]
          /\ generation \in Tasks /\ generation # Chooser /\ at'[generation] = "closing"
      BY <1>2, <1>4, <2>1, <2>3, DeviceStep DEF Disconnected
    <2>5. TasksOK'
      BY <1>2, <1>3, <1>4, <2>2, <2>4, TaskIds DEF TasksOK, Delivering, Deciding, TakingShared
    <2>6. PushOK'
      <3>1. NoPush(Out', In')
        BY <2>2, <2>4, NothingWaits
      <3> QED BY <1>2, <2>2, <3>1 DEF PushOK, Open
    <2>7. OwnOK'
      <3>1. \A u \in Tasks : at'[u] \in {"applied", "failed"} => ~own
        BY <2>4 DEF GateInv, OwnOK
      <3> QED BY <1>2, <2>4, <3>1 DEF OwnOK, GateInv, Delivering
    <2>8. LocalOK'
      BY <2>4 DEF LocalOK
    <2> QED BY <2>4, <2>5, <2>6, <2>7, <2>8 DEF GateInv
  <1>5. CASE t = Chooser
    <2>1. gate = AwaitingChoice /\ at[Chooser] = "ready"
      BY <1>5, TaskIds DEF ReadLocal
    <2>2. gate # Open /\ gate.kind # "pushing"
      BY <2>1 DEF Open, AwaitingChoice
    <2>3. connected /\ shared # NoRow /\ Here = "ready"
      BY <2>2 DEF GateInv, TasksOK
    <2>4. /\ ConnectionOK' /\ MessagesOK' /\ In' = In /\ Out' = Out
          /\ Here' = "ready" /\ \A u \in Tasks : u # Chooser => at'[u] = at[u]
          /\ generation \in Tasks /\ generation # Chooser /\ at'[Chooser] = "closing"
      BY <1>2, <1>5, <2>3, DeviceStep DEF Disconnected
    <2>5. TasksOK'
      BY <1>2, <1>3, <1>5, <2>1, <2>2, <2>3, <2>4 DEF TasksOK, Delivering, Deciding, TakingShared
    <2>6. PushOK'
      BY <1>2, <2>2, <2>3, <2>4 DEF PushOK, GateInv
    <2>7. LocalOK' /\ OwnOK'
      BY <1>2, <2>2, <2>4 DEF LocalOK, OwnOK, GateInv
    <2> QED BY <2>4, <2>5, <2>6, <2>7 DEF GateInv
  <1> QED BY <1>1, <1>4, <1>5

LEMMA ClosePushGate ==
    ASSUME Typed, GateInv, Races = {}, ~forgetting, NEW t \in Tasks, ClosePush(t)
    PROVE  GateInv'
  <1>1. t = generation \/ t = Chooser
    BY WorkingLoop DEF ClosePush, Idle, Tasks
  <1>2. /\ UNCHANGED <<generation, connected, shared, local, own, synced, room, registered,
                       inbox, outbox, forgetting>>
        /\ at[t] = "closing"
        /\ ~(t = Chooser /\ gate # AwaitingChoice) =>
              /\ gate' = Pushing(NewId, t = Chooser)
              /\ Hold(t, Pushed(NewId, held[t].queue)) /\ Goto(t, "pushing")
    BY DEF ClosePush, settingVars, serverVars, localVars
  <1>3. CASE t = generation
    <2>1. Here = "closing" /\ connected /\ t # Chooser
      BY <1>2, <1>3, WorkingLoop, TaskIds DEF Idle, Here, Typed, Settings
    <2>2. /\ gate = Open /\ shared = room /\ In = <<>> /\ Out = <<>> /\ at[Chooser] = "ready"
          /\ held[generation].queue = local
      BY <2>1 DEF GateInv, TasksOK, Deciding
    <2>3. shared # NoRow
      BY <2>2, RowIsNoNoRow DEF Typed, Settings
    <2>4. gate' = Pushing(NewId, FALSE)
      BY <1>2, <2>1
    <2>5. gate'.kind = "pushing" /\ ~gate'.user /\ gate' # Open /\ gate' # AwaitingChoice
      BY <2>4 DEF Pushing, Open, AwaitingChoice
    <2>6. /\ ConnectionOK' /\ MessagesOK' /\ In' = In /\ Out' = Out
          /\ Here' = "pushing" /\ \A u \in Tasks : u # generation => at'[u] = at[u]
          /\ generation \in Tasks /\ generation # Chooser /\ at'[generation] = "pushing"
      BY <1>2, <1>3, <2>1, <2>3, DeviceStep DEF Disconnected
    <2>7. held'[generation'].queue = local
      BY <1>2, <1>3, <2>1, <2>2, Held DEF Pushed
    <2>8. TasksOK'
      BY <1>2, <2>1, <2>2, <2>3, <2>5, <2>6, <2>7, TaskIds
         DEF TasksOK, Delivering, Deciding, TakingShared
    <2>9. PushOK'
      BY <2>5, <2>6 DEF PushOK
    <2>10. LocalOK' /\ OwnOK'
      BY <1>2, <2>5, <2>6 DEF LocalOK, OwnOK, GateInv
    <2> QED BY <2>6, <2>8, <2>9, <2>10 DEF GateInv
  <1>4. CASE t = Chooser
    <2>1. gate = AwaitingChoice /\ held[Chooser].queue = local
      BY <1>2, <1>4 DEF GateInv, TasksOK
    <2>2. gate # Open /\ gate.kind # "pushing"
      BY <2>1 DEF Open, AwaitingChoice
    <2>3. connected /\ shared # NoRow /\ Here = "ready"
      BY <2>2 DEF GateInv, TasksOK
    <2>4. gate' = Pushing(NewId, TRUE)
      BY <1>2, <1>4, <2>1
    <2>5. gate'.kind = "pushing" /\ gate'.user /\ gate' # Open /\ gate' # AwaitingChoice
      BY <2>4 DEF Pushing, Open, AwaitingChoice
    <2>6. /\ ConnectionOK' /\ MessagesOK' /\ In' = In /\ Out' = Out
          /\ Here' = "ready" /\ \A u \in Tasks : u # Chooser => at'[u] = at[u]
          /\ generation \in Tasks /\ generation # Chooser /\ at'[Chooser] = "pushing"
      BY <1>2, <1>4, <2>1, <2>3, DeviceStep DEF Disconnected
    <2>7. held'[Chooser].queue = local
      BY <1>2, <1>4, <2>1, Held DEF Pushed
    <2>8. TasksOK'
      BY <1>2, <2>3, <2>5, <2>6, <2>7 DEF TasksOK, Delivering, Deciding, TakingShared
    <2>9. NoPush(Out, In)
      BY <2>2, <2>3 DEF GateInv, PushOK
    <2>10. OnePush(Out, In, local, own => forgetting)
      BY <2>9 DEF NoPush, OnePush
    <2>11. PushOK'
      BY <1>2, <2>5, <2>6, <2>9, <2>10 DEF PushOK
    <2>12. LocalOK' /\ OwnOK'
      BY <1>2, <2>5, <2>6 DEF LocalOK, OwnOK, GateInv
    <2> QED BY <2>6, <2>8, <2>11, <2>12 DEF GateInv
  <1> QED BY <1>1, <1>3, <1>4

LEMMA SendPushGate ==
    ASSUME Typed, GateInv, Races = {}, ~forgetting, NEW t \in Tasks, SendPush(t)
    PROVE  GateInv'
  <1> DEFINE m == [kind |-> "push", id |-> held[t].id, base |-> BaseSeq, queue |-> held[t].queue]
  <1>1. t = generation \/ t = Chooser
    BY WorkingLoop DEF SendPush, Idle, Tasks
  <1>2. at[t] = "pushing"
    BY DEF SendPush
  <1>3. /\ gate.kind = "pushing" /\ gate.user = (t = Chooser) /\ held[t].queue = local
        /\ t = generation => shared = room /\ In = <<>> /\ Out = <<>> /\ at[Chooser] = "ready"
    <2>1. generation # Chooser
      BY TaskIds DEF Typed, Settings
    <2>2. CASE t = generation
      <3>1. /\ gate.kind = "pushing" /\ ~gate.user /\ held[t].queue = local
            /\ shared = room /\ In = <<>> /\ Out = <<>> /\ at[Chooser] = "ready"
        BY <1>2, <2>2 DEF GateInv, TasksOK, Here
      <3>2. gate.user \in BOOLEAN
        BY <3>1 DEF Typed, Settings, Gates, Open, AwaitingChoice
      <3> QED BY <2>1, <2>2, <3>1, <3>2
    <2>3. CASE t = Chooser
      <3>1. gate.kind = "pushing" /\ gate.user /\ held[t].queue = local
        BY <1>2, <2>3 DEF GateInv, TasksOK
      <3>2. gate.user \in BOOLEAN
        BY <3>1 DEF Typed, Settings, Gates, Open, AwaitingChoice
      <3> QED BY <2>1, <2>3, <3>1, <3>2
    <2> QED BY <1>1, <2>2, <2>3
  <1>4. gate # Open /\ gate # AwaitingChoice
    BY <1>3 DEF Open, AwaitingChoice
  <1>5. connected /\ shared # NoRow /\ (t = Chooser => Here = "ready")
    BY <1>3, <1>4 DEF GateInv, TasksOK
  <1>6. m \in Outbound /\ m.kind = "push" /\ m.queue = local /\ m.base = BaseSeq
    <2>1. held[t] \in PushWork
      BY <1>2 DEF Typed, Works, TaskTyped, Pushings
    <2> QED BY <1>3, <2>1, BaseType DEF Outbound, PushWork
  <1>7. /\ UNCHANGED <<generation, connected, gate, shared, local, own, synced, room, registered,
                       inbox, forgetting>>
        /\ SendOut(m) /\ Goto(t, "ready")
    BY <1>4, <1>5 DEF SendPush, settingVars, serverVars, localVars
  <1> HIDE DEF m
  <1>8. /\ ConnectionOK' /\ MessagesOK' /\ In' = In /\ Out' = Append(Out, m)
        /\ Here' = "ready" /\ \A u \in Tasks : u # t => at'[u] = at[u]
        /\ generation \in Tasks /\ generation # Chooser /\ at'[t] = "ready"
    BY <1>1, <1>5, <1>6, <1>7, DeviceStep DEF Disconnected
  <1>9. at'[Chooser] = "ready"
    BY <1>1, <1>3, <1>8, TaskIds
  <1>10. TasksOK'
    BY <1>4, <1>5, <1>7, <1>8, <1>9 DEF TasksOK, Delivering, Deciding, TakingShared
  <1>11. PushOK'
    <2>1. CASE t = generation
      <3>1. Out' = <<m>>
        BY <1>3, <1>8, <2>1
      <3>2. m.base = room.seq
        BY <1>3, <1>5, <1>6, <2>1 DEF BaseSeq
      <3>3. LonePush'
        BY <1>3, <1>6, <1>7, <1>8, <2>1, <3>1, <3>2 DEF LonePush
      <3> QED BY <1>3, <1>7, <1>8, <1>9, <2>1, <3>3 DEF PushOK
    <2>2. CASE t = Chooser
      <3>1. NoPush(Out, In)
        BY <1>2, <1>3, <1>5, <2>2 DEF GateInv, PushOK
      <3>2. In \in Seq(Inbound) /\ Out \in Seq(Outbound) /\ (own => forgetting) \in BOOLEAN
        BY BoxTypes DEF In, Out, Typed, Settings
      <3>3. OnePush(Out', In', local, own => forgetting)
        BY <1>6, <1>8, <3>1, <3>2, PushMoves
      <3> QED BY <1>3, <1>7, <1>9, <2>2, <3>3 DEF PushOK
    <2> QED BY <1>1, <2>1, <2>2
  <1>12. LocalOK' /\ OwnOK'
    BY <1>4, <1>7, <1>8 DEF LocalOK, OwnOK, GateInv
  <1> QED BY <1>8, <1>10, <1>11, <1>12 DEF GateInv

-----------------------------------------------------------------------------
(* A shared state is applied.                                              *)

LEMMA ChoosePullGate ==
    ASSUME Typed, GateInv, Races = {}, ~forgetting, ChoosePull
    PROVE  GateInv'
  <1>1. /\ at[Chooser] = "ready" /\ gate = AwaitingChoice /\ shared # NoRow /\ gate' = Open
        /\ UNCHANGED <<generation, connected, shared, local, own, synced, room, registered,
                       inbox, outbox, forgetting>>
        /\ Hold(Chooser, Handled(shared, "pull", generation)) /\ Goto(Chooser, "begin")
    BY DEF ChoosePull, settingVars, serverVars, localVars
  <1>2. gate # Open /\ gate.kind # "pushing" /\ gate'.kind # "pushing"
    BY <1>1 DEF Open, AwaitingChoice
  <1>3. connected /\ Here = "ready"
    BY <1>2 DEF GateInv, TasksOK
  <1>4. /\ ConnectionOK' /\ MessagesOK' /\ In' = In /\ Out' = Out
        /\ Here' = "ready" /\ \A u \in Tasks : u # Chooser => at'[u] = at[u]
        /\ generation \in Tasks /\ generation # Chooser /\ at'[Chooser] = "begin"
    BY <1>1, <1>3, DeviceStep DEF Disconnected
  <1>5. held'[Chooser].row = shared' /\ held'[Chooser].generation = generation'
    BY <1>1, Held, TaskIds DEF Handled
  <1>6. TasksOK'
    BY <1>1, <1>4, <1>5 DEF TasksOK, Delivering, Deciding
  <1>7. PushOK'
    BY <1>2, <1>3, <1>4 DEF PushOK, GateInv
  <1>8. LocalOK'
    BY <1>4 DEF LocalOK
  <1>9. OwnOK'
    BY <1>1, <1>4 DEF OwnOK, GateInv
  <1> QED BY <1>4, <1>6, <1>7, <1>8, <1>9 DEF GateInv

\* What a loop has that is delivering a state, and what the chooser has that
\* takes the shared one.
LEMMA Taking ==
    ASSUME Typed, GateInv, NEW t \in Tasks,
           (t # Chooser /\ at[t] \in Delivering) \/ (t = Chooser /\ at[t] \in TakingShared)
    PROVE  /\ t = generation \/ t = Chooser
           /\ generation \in Tasks /\ generation # Chooser
           /\ connected /\ gate = Open /\ shared # NoRow
           /\ held[t].row = shared /\ held[t].generation = generation
           /\ t = generation => at[Chooser] = "ready" /\ Here = at[t]
           /\ t = Chooser => Here = "ready"
           /\ NoPush(Out, In)
  <1>1. t = generation \/ t = Chooser
    BY WorkingLoop DEF Delivering, Idle, Tasks
  <1>2. generation \in Tasks /\ generation # Chooser
    BY TaskIds DEF Typed, Settings
  <1>3. /\ gate = Open /\ shared # NoRow
        /\ held[t].row = shared /\ held[t].generation = generation
        /\ t = generation => at[Chooser] = "ready" /\ Here = at[t]
        /\ t = Chooser => Here = "ready"
    BY <1>1, <1>2 DEF GateInv, TasksOK, Here
  <1>4. connected
    BY <1>3 DEF GateInv, ConnectionOK
  <1>5. NoPush(Out, In)
    BY <1>3, <1>4 DEF GateInv, PushOK, Open
  <1> QED BY <1>1, <1>2, <1>3, <1>4, <1>5

LEMMA DeliverGate ==
    ASSUME Typed, GateInv, Races = {}, ~forgetting, NEW g \in Loops, Deliver(g)
    PROVE  GateInv'
  <1>1. g \in Tasks /\ g # Chooser /\ at[g] = "deliver"
    BY TaskIds DEF Deliver
  <1>2. /\ g = generation /\ connected /\ gate = Open /\ shared # NoRow
        /\ held[g].row = shared /\ held[g].generation = generation
        /\ at[Chooser] = "ready" /\ Here = "deliver" /\ NoPush(Out, In)
    BY <1>1, Taking DEF Delivering
  <1> DEFINE label == IF AppliesToBackend(g) /\ ~PreservesResume(g) THEN "begin" ELSE "flush"
  <1>3. /\ UNCHANGED <<generation, connected, gate, shared, local, own, synced, room, registered,
                       inbox, outbox, forgetting, held>>
        /\ Goto(generation, label)
    BY <1>2 DEF Deliver, settingVars, serverVars, localVars
  <1>4. label \in {"begin", "flush"}
    OBVIOUS
  <1>5. Resumes = {} /\ label = "flush" => ~AppliesToBackend(generation)
    BY <1>2 DEF PreservesResume, Typed, Settings
  <1> HIDE DEF label
  <1>6. /\ ConnectionOK' /\ MessagesOK' /\ In' = In /\ Out' = Out
        /\ Here' = label /\ \A u \in Tasks : u # generation => at'[u] = at[u]
        /\ generation \in Tasks /\ generation # Chooser /\ at'[generation] = label
    BY <1>2, <1>3, <1>4, DeviceStep DEF Disconnected
  <1>7. at'[Chooser] = "ready"
    BY <1>2, <1>6, TaskIds
  <1>8. TasksOK'
    BY <1>2, <1>3, <1>4, <1>6, <1>7 DEF TasksOK, Delivering, Deciding, TakingShared
  <1>9. PushOK'
    BY <1>2, <1>3, <1>6 DEF PushOK, Open
  <1>10. LocalOK'
    BY <1>2, <1>3, <1>4, <1>5, <1>6 DEF LocalOK, GateInv
  <1>11. OwnOK'
    <2>1. \A u \in Tasks : at'[u] \in {"applied", "failed"} => ~own
      BY <1>4, <1>6 DEF GateInv, OwnOK
    <2>2. ~own
      BY <1>2 DEF GateInv, OwnOK, Delivering
    <2> QED BY <1>3, <2>1, <2>2 DEF OwnOK, GateInv
  <1> QED BY <1>6, <1>8, <1>9, <1>10, <1>11 DEF GateInv

LEMMA BeginApplyGate ==
    ASSUME Typed, GateInv, Races = {}, ~forgetting, NEW t \in Tasks, BeginApply(t)
    PROVE  GateInv'
  <1>1. at[t] = "begin"
    BY DEF BeginApply
  <1>2. /\ t = generation \/ t = Chooser
        /\ generation \in Tasks /\ generation # Chooser
        /\ connected /\ gate = Open /\ shared # NoRow
        /\ held[t].row = shared /\ held[t].generation = generation
        /\ t = generation => at[Chooser] = "ready" /\ Here = "begin"
        /\ t = Chooser => Here = "ready"
        /\ NoPush(Out, In)
    BY <1>1, Taking DEF Delivering, TakingShared
  <1>3. /\ UNCHANGED <<generation, connected, gate, shared, local, own, synced, room, registered,
                       inbox, outbox, forgetting, held>>
        /\ Goto(t, "applying")
    BY <1>2 DEF BeginApply, settingVars, serverVars, localVars
  <1>4. /\ ConnectionOK' /\ MessagesOK' /\ In' = In /\ Out' = Out
        /\ at'[t] = "applying" /\ \A u \in Tasks : u # t => at'[u] = at[u]
        /\ t = generation => Here' = "applying"
        /\ t = Chooser => Here' = "ready"
    BY <1>2, <1>3, DeviceStep DEF Disconnected
  <1>5. t = generation => at'[Chooser] = "ready"
    BY <1>2, <1>4, TaskIds
  <1>6. TasksOK'
    BY <1>2, <1>3, <1>4, <1>5 DEF TasksOK, Delivering, Deciding, TakingShared
  <1>7. PushOK'
    BY <1>2, <1>3, <1>4 DEF PushOK, Open
  <1>8. LocalOK'
    BY <1>2, <1>4 DEF LocalOK
  <1>9. OwnOK'
    <2>1. \A u \in Tasks : at'[u] \in {"applied", "failed"} => ~own
      BY <1>4 DEF GateInv, OwnOK
    <2>2. t = generation => ~own
      BY <1>2 DEF GateInv, OwnOK, Delivering
    <2> QED BY <1>2, <1>3, <1>4, <2>1, <2>2 DEF OwnOK, GateInv
  <1> QED BY <1>4, <1>6, <1>7, <1>8, <1>9 DEF GateInv

LEMMA ApplySharedGate ==
    ASSUME Typed, GateInv, Races = {}, ~forgetting, NEW t \in Tasks, ApplyShared(t)
    PROVE  GateInv'
  <1>1. at[t] = "applying"
    BY DEF ApplyShared
  <1>2. /\ t = generation \/ t = Chooser
        /\ generation \in Tasks /\ generation # Chooser
        /\ connected /\ gate = Open /\ shared # NoRow
        /\ held[t].row = shared /\ held[t].generation = generation
        /\ t = generation => at[Chooser] = "ready"
        /\ t = Chooser => Here = "ready"
        /\ NoPush(Out, In)
    BY <1>1, Taking DEF Delivering, TakingShared
  <1>3. PICK label \in {"applied", "failed"} :
        /\ UNCHANGED <<generation, connected, gate, shared, synced, room, registered,
                       inbox, outbox, forgetting, held>>
        /\ local' = shared.queue /\ own' = FALSE
        /\ Goto(t, label)
    BY <1>2 DEF ApplyShared, settingVars, serverVars, localVars
  <1>4. /\ ConnectionOK' /\ MessagesOK' /\ In' = In /\ Out' = Out
        /\ at'[t] = label /\ \A u \in Tasks : u # t => at'[u] = at[u]
        /\ t = generation => Here' = label
        /\ t = Chooser => Here' = "ready"
    BY <1>2, <1>3, DeviceStep DEF Disconnected
  <1>5. t = generation => at'[Chooser] = "ready"
    BY <1>2, <1>4, TaskIds
  <1>6. TasksOK'
    BY <1>2, <1>3, <1>4, <1>5 DEF TasksOK, Delivering, Deciding, TakingShared
  <1>7. PushOK'
    BY <1>2, <1>3, <1>4 DEF PushOK, Open
  <1>8. LocalOK' /\ OwnOK'
    BY <1>2, <1>3, <1>4 DEF LocalOK, OwnOK
  <1> QED BY <1>4, <1>6, <1>7, <1>8 DEF GateInv

LEMMA EndApplyGate ==
    ASSUME Typed, GateInv, Races = {}, ~forgetting, NEW t \in Tasks, EndApply(t)
    PROVE  GateInv'
  <1>1. at[t] \in {"applied", "failed"}
    BY DEF EndApply
  <1>2. /\ t = generation \/ t = Chooser
        /\ generation \in Tasks /\ generation # Chooser
        /\ connected /\ gate = Open /\ shared # NoRow
        /\ held[t].row = shared /\ held[t].generation = generation
        /\ t = generation => at[Chooser] = "ready" /\ Here = at[t]
        /\ t = Chooser => Here = "ready"
        /\ NoPush(Out, In)
    BY <1>1, Taking DEF Delivering, TakingShared
  <1>3. ~own /\ (Resumes = {} => local = shared.queue)
    BY <1>1, <1>2 DEF GateInv, OwnOK, LocalOK
  <1> DEFINE label == IF t = Chooser THEN "ready" ELSE "flush"
  <1>4. /\ UNCHANGED <<generation, connected, gate, shared, local, own, room, registered,
                       inbox, outbox, forgetting>>
        /\ Goto(t, label) /\ (t # Chooser => held' = held)
    BY <1>2 DEF EndApply, Finish, settingVars, serverVars, localVars
  <1>5. /\ ConnectionOK' /\ MessagesOK' /\ In' = In /\ Out' = Out
        /\ at'[t] = label /\ \A u \in Tasks : u # t => at'[u] = at[u]
        /\ t = generation => Here' = label
        /\ t = Chooser => Here' = "ready"
    BY <1>2, <1>4, DeviceStep DEF Disconnected
  <1>6. at'[Chooser] = "ready"
    BY <1>2, <1>5, TaskIds
  <1>7. TasksOK'
    BY <1>2, <1>4, <1>5, <1>6 DEF TasksOK, Delivering, Deciding, TakingShared
  <1>8. PushOK'
    BY <1>2, <1>4, <1>5 DEF PushOK, Open
  <1>9. LocalOK' /\ OwnOK'
    BY <1>2, <1>3, <1>4, <1>5 DEF LocalOK, OwnOK
  <1> QED BY <1>5, <1>7, <1>8, <1>9 DEF GateInv

LEMMA FlushGate ==
    ASSUME Typed, GateInv, Races = {}, ~forgetting, NEW g \in Loops, Flush(g)
    PROVE  GateInv'
  <1> DEFINE m == [kind |-> "report"]
  <1>1. g \in Tasks /\ g # Chooser /\ at[g] = "flush"
    BY TaskIds DEF Flush
  <1>2. /\ g = generation /\ connected /\ gate = Open /\ shared # NoRow
        /\ at[Chooser] = "ready" /\ Here = "flush" /\ NoPush(Out, In)
    BY <1>1, Taking DEF Delivering
  <1>3. m \in Outbound /\ m.kind # "push"
    BY DEF Outbound
  <1>4. /\ UNCHANGED <<generation, connected, gate, shared, local, own, synced, room, registered,
                       inbox, forgetting>>
        /\ Goto(generation, "ready")
        /\ outbox' = outbox \/ SendOut(m)
    BY <1>2 DEF Flush, settingVars, serverVars, localVars
  <1> HIDE DEF m
  <1>5. /\ ConnectionOK' /\ MessagesOK' /\ In' = In
        /\ Out' = Out \/ Out' = Append(Out, m)
        /\ Here' = "ready" /\ \A u \in Tasks : u # generation => at'[u] = at[u]
        /\ generation \in Tasks /\ generation # Chooser /\ at'[generation] = "ready"
    BY <1>2, <1>3, <1>4, DeviceStep DEF Disconnected
  <1>6. at'[Chooser] = "ready"
    BY <1>2, <1>5, TaskIds
  <1>7. TasksOK'
    BY <1>2, <1>4, <1>5, <1>6 DEF TasksOK, Delivering, Deciding, TakingShared, Open
  <1>8. PushOK'
    <2>1. In \in Seq(Inbound) /\ Out \in Seq(Outbound)
      BY BoxTypes DEF In, Out, Typed, Settings
    <2>2. NoPush(Append(Out, m), In)
      BY <1>2, <1>3, <2>1, OthersAppended
    <2> QED BY <1>2, <1>4, <1>5, <2>2 DEF PushOK, Open
  <1>9. LocalOK'
    BY <1>2, <1>4, <1>5 DEF LocalOK, GateInv
  <1>10. OwnOK'
    <2>1. \A u \in Tasks : at'[u] \in {"applied", "failed"} => ~own
      BY <1>5 DEF GateInv, OwnOK
    <2>2. ~own
      BY <1>2 DEF GateInv, OwnOK, Delivering
    <2> QED BY <1>4, <2>1, <2>2 DEF OwnOK, GateInv
  <1> QED BY <1>5, <1>7, <1>8, <1>9, <1>10 DEF GateInv

-----------------------------------------------------------------------------
(* What the device sends of itself, and the server's answers.              *)

\* A push under way is alone: without the race, nothing else is sent while a
\* loop decides about it, and no other device acts.
LEMMA NotUnderWay ==
    ASSUME Typed, GateInv, Races = {}, MayOvertake, connected
    PROVE  /\ shared # NoRow
           /\ Here \notin Deciding \cup {"pushing"}
           /\ ~(gate.kind = "pushing" /\ ~gate.user)
  <1>1. ~PushUnderWay /\ generation \in Loops
    BY DEF MayOvertake, Typed, Settings
  <1>2. Here \notin Deciding \cup {"pushing"} /\ ~(gate.kind = "pushing" /\ ~gate.user)
    BY <1>1 DEF PushUnderWay, Deciding, Here
  <1>3. shared # NoRow
    <2> SUFFICES ASSUME shared = NoRow PROVE FALSE
      OBVIOUS
    <2>1. In = <<SharedMessage(room, "snapshot")>>
      BY DEF GateInv, MessagesOK
    <2>2. 1 \in DOMAIN In /\ In[1].kind = "shared" /\ In[1].reason = "snapshot"
      BY <2>1 DEF SharedMessage
    <2> QED BY <1>1, <2>2 DEF PushUnderWay, In
  <1> QED BY <1>2, <1>3

\* Another message of the device, which is no push.
LEMMA SendGate ==
    ASSUME Typed, GateInv, ~forgetting, connected, shared # NoRow,
           Here \notin Deciding \cup {"pushing"}, ~(gate.kind = "pushing" /\ ~gate.user),
           NEW m \in Outbound, m.kind # "push", SendOut(m),
           UNCHANGED <<generation, connected, gate, shared, local, own, synced, room, registered,
                       inbox, forgetting, at, held, resume>>
    PROVE  GateInv'
  <1>1. In \in Seq(Inbound) /\ Out \in Seq(Outbound) /\ generation \in Loops
    BY BoxTypes DEF In, Out, Typed, Settings
  <1>2. In' = In /\ Out' = Append(Out, m) /\ Here' = Here
    BY <1>1 DEF SendOut, Typed, Channels, In, Out, Here
  <1>3. \A g \in Loops : g # generation => outbox'[g] = outbox[g]
    BY <1>1 DEF SendOut, Typed, Channels
  <1>4. registered = generation
    BY Served DEF GateInv
  <1>5. ConnectionOK'
    BY <1>2, <1>3, <1>4 DEF ConnectionOK, GateInv
  <1>6. TasksOK' /\ MessagesOK'
    BY <1>2 DEF TasksOK, MessagesOK, GateInv
  <1>7. PushOK'
    <2>1. (own => forgetting) \in BOOLEAN
      OBVIOUS
    <2>2. /\ NoPush(Out, In) => NoPush(Out', In')
          /\ OnePush(Out, In, local, own => forgetting)
                => OnePush(Out', In', local, own => forgetting)
      BY <1>1, <1>2, <2>1, OthersAppended
    <2> QED BY <2>2 DEF PushOK, GateInv
  <1>8. LocalOK' /\ OwnOK'
    BY <1>2 DEF LocalOK, OwnOK, GateInv, AppliesToBackend, OwnReport, OwnPush
  <1> QED BY <1>5, <1>6, <1>7, <1>8 DEF GateInv

LEMMA PublishGate ==
    ASSUME Typed, GateInv, Races = {}, ~forgetting, PublishStatus
    PROVE  GateInv'
  <1> DEFINE m == [kind |-> "report"]
  <1>1. m \in Outbound /\ m.kind # "push" /\ SendOut(m)
    BY DEF Outbound, PublishStatus
  <1>2. connected /\ shared # NoRow /\ gate = Open /\ shared.active = Me
    BY DEF PublishStatus, ActiveHere, MayReport
  <1>3. Here \notin Deciding \cup {"pushing"} /\ gate.kind # "pushing"
    BY <1>2 DEF GateInv, TasksOK, Open
  <1>4. UNCHANGED <<generation, connected, gate, shared, local, own, synced, room, registered,
                    inbox, forgetting, at, held, resume>>
    BY DEF PublishStatus, settingVars, serverVars, localVars
  <1> HIDE DEF m
  <1> QED BY <1>1, <1>2, <1>3, <1>4, SendGate

LEMMA EditGate ==
    ASSUME Typed, GateInv, Races = {}, ~forgetting, NEW queue \in Mine, EditQueue(queue)
    PROVE  GateInv'
  <1>1. UNCHANGED <<generation, connected, gate, shared, synced, room, registered,
                    inbox, forgetting, at, held, resume>>
    BY DEF EditQueue, settingVars, serverVars
  <1>2. CASE connected /\ gate # AwaitingChoice
    <2> DEFINE m == [kind |-> "edit", base |-> BaseSeq, queue |-> queue]
    <2>1. m \in Outbound /\ m.kind # "push"
      BY BaseType DEF Outbound, Queues
    <2>2. SendOut(m) /\ MayOvertake /\ UNCHANGED <<local, own>>
      BY <1>2 DEF EditQueue, localVars
    <2> HIDE DEF m
    <2> QED BY <1>1, <1>2, <2>1, <2>2, NotUnderWay, SendGate
  <1>3. CASE ~(connected /\ gate # AwaitingChoice)
    <2>1. /\ at[Chooser] = "ready" /\ local' = queue /\ own' = (queue \notin {Empty, synced})
          /\ outbox' = outbox
      BY <1>3 DEF EditQueue, MayHandle, ChoiceCarriedOut
    <2>2. Here' = Here /\ In' = In /\ Out' = Out
      BY <1>1, <2>1 DEF Here, In, Out
    <2>3. ConnectionOK'
      BY <1>1, <2>1, <2>2 DEF ConnectionOK, GateInv
    <2>4. own' => local' # Empty /\ local' # synced'
      BY <1>1, <2>1
    <2>5. CASE ~connected
      BY <1>1, <2>3, <2>4, <2>5, ApartKept
    <2>6. CASE connected
      <3>1. gate # Open /\ gate.kind # "pushing"
        BY <1>3, <2>6 DEF Open, AwaitingChoice
      <3>2. Here = "ready" /\ shared # NoRow
        BY <3>1 DEF GateInv, TasksOK
      <3>3. TasksOK'
        BY <1>1, <2>1, <2>2, <3>1, <3>2, <2>6 DEF TasksOK, Deciding, Delivering, TakingShared
      <3>4. MessagesOK'
        BY <1>1, <2>2 DEF MessagesOK, GateInv
      <3>5. PushOK'
        BY <1>1, <2>2, <3>1 DEF PushOK, GateInv
      <3>6. \A t \in Tasks : at'[t] \notin {"applied", "failed"}
        BY <1>1, <2>1, <3>2 DEF GateInv, ConnectionOK, Here, Idle, Tasks
      <3>7. LocalOK' /\ OwnOK'
        BY <1>1, <2>4, <3>1, <3>6 DEF LocalOK, OwnOK
      <3> QED BY <2>3, <3>3, <3>4, <3>5, <3>7 DEF GateInv
    <2> QED BY <2>5, <2>6
  <1> QED BY <1>2, <1>3

-----------------------------------------------------------------------------
(* The server.                                                             *)

\* Where the device is not connected, what a connection that is left still
\* brings does not reach the session.
LEMMA ApartServer ==
    ASSUME Typed, GateInv, ~connected,
           UNCHANGED <<generation, connected, gate, shared, local, synced, forgetting, at, held>>,
           own' = own \/ own' = FALSE,
           registered' = registered \/ registered' = Chooser,
           \A g \in Loops : outbox[g] = <<>> => outbox'[g] = <<>>,
           registered' # registered =>
              \A g \in Loops : at[g] \in Disconnected /\ outbox'[g] = <<>>,
           room'.active = Me => registered' # Chooser
    PROVE  GateInv'
  <1>1. ConnectionOK'
    BY TaskIds DEF ConnectionOK, GateInv, Here
  <1> QED BY <1>1, ApartKept, OwnLocal

LEMMA UnregisterGate ==
    ASSUME Typed, GateInv, Races = {}, ~forgetting, NEW g \in Loops, Unregister(g)
    PROVE  GateInv'
  <1>1. registered = g /\ at[g] \in Disconnected
    BY DEF Unregister, GateInv, ConnectionOK
  <1>2. ~connected
    BY <1>1, Served DEF GateInv, Here
  <1>3. /\ registered' = Chooser /\ outbox' = [outbox EXCEPT ![g] = <<>>]
        /\ UNCHANGED <<generation, connected, gate, shared, local, own, synced, forgetting, at, held>>
    BY <1>1 DEF Unregister, settingVars, localVars
  <1>4. \A h \in Loops : h # g => at[h] \in Disconnected /\ outbox[h] = <<>>
    BY <1>1 DEF GateInv, ConnectionOK
  <1>5. room'.active # Me
    <2>1. CASE room.active = Me
      <3> DEFINE r == [room EXCEPT !.seq = @ + 1, !.active = Nobody, !.by = Me]
      <3>1. room' = r
        BY <1>1, <2>1 DEF Unregister
      <3>2. r.active = Nobody
        BY DEF Typed, Settings, Row
      <3> QED BY <3>1, <3>2 DEF Me, Nobody
    <2>2. CASE room.active # Me
      BY <2>2 DEF Unregister
    <2> QED BY <2>1, <2>2
  <1>6. \A h \in Loops : at[h] \in Disconnected /\ outbox'[h] = <<>>
    BY <1>1, <1>3, <1>4 DEF Typed, Channels
  <1> QED BY <1>2, <1>3, <1>5, <1>6, ApartServer

\* What the server does to the device it serves.
LEMMA ServerStep ==
    ASSUME Typed, GateInv, ~forgetting, connected, shared # NoRow,
           Here \notin Deciding \cup {"pushing"},
           UNCHANGED <<generation, connected, gate, shared, local, synced, forgetting, at, held,
                       resume, registered>>,
           own' = own \/ own' = FALSE,
           \A g \in Loops : outbox[g] = <<>> => outbox'[g] = <<>>,
           Leads(In', shared, room'), PushOK'
    PROVE  GateInv'
  <1>1. Here' = Here
    BY DEF Here
  <1>2. registered = generation /\ generation # Chooser
    BY Served DEF GateInv
  <1>3. ConnectionOK'
    BY <1>1, <1>2 DEF ConnectionOK, GateInv
  <1>4. TasksOK'
    BY <1>1 DEF TasksOK, GateInv
  <1>5. MessagesOK'
    BY DEF MessagesOK
  <1>6. LocalOK'
    BY <1>1 DEF LocalOK, GateInv, AppliesToBackend, OwnReport, OwnPush
  <1>7. OwnOK'
    BY <1>1 DEF OwnOK, GateInv
  <1> QED BY <1>3, <1>4, <1>5, <1>6, <1>7 DEF GateInv

\* A change is told to the device.
LEMMA Told ==
    ASSUME Typed, GateInv, connected, shared # NoRow, NEW row \in Row, NEW reason \in Reasons \ {"snapshot"},
           Change(row, reason), generation' = generation, room.seq <= row.seq,
           reason \in Keeps => row.queue = room.queue,
           reason = "push" => row.by = Me
    PROVE  /\ room' = row /\ In' = Append(In, SharedMessage(row, reason))
           /\ Leads(In', shared, row) /\ SharedMessage(row, reason) \in Inbound
           /\ In \in Seq(Inbound) /\ Out \in Seq(Outbound)
  <1>1. /\ registered = generation /\ generation \in Loops /\ generation # Chooser
        /\ Here \notin Disconnected
    BY Served DEF GateInv
  <1>2. room' = row /\ inbox' = [inbox EXCEPT ![generation] = Append(@, SharedMessage(row, reason))]
    BY <1>1 DEF Change, Here
  <1>3. In' = Append(In, SharedMessage(row, reason))
    BY <1>1, <1>2 DEF In, Typed, Channels
  <1>4. In \in Seq(Inbound) /\ Out \in Seq(Outbound)
    BY <1>1, BoxTypes DEF In, Out
  <1>5. Leads(In, shared, room) /\ shared \in Row /\ room \in Row
    BY DEF GateInv, MessagesOK, Typed, Settings
  <1>6. Leads(In', shared, row)
    BY <1>3, <1>4, <1>5, AppendLeads
  <1> QED BY <1>2, <1>3, <1>4, <1>6, MessageTypes

LEMMA OtherGate ==
    ASSUME Typed, GateInv, Races = {}, ~forgetting,
           OtherOffline
             \/ \E queue \in Theirs \cup {room.queue}, active \in {Me, Other, Nobody} :
                   OtherDevice(queue, active)
    PROVE  GateInv'
  <1>1. room \in Row /\ room.seq \in Nat /\ room.seq + 1 \in Nat /\ room.queue \in Queues
    BY DEF Typed, Settings, Row
  <1>2. PICK row \in Row, reason \in {"command", "activeOffline"} :
          /\ Change(row, reason) /\ OthersMayAct /\ room.seq <= row.seq
          /\ reason \in Keeps => row.queue = room.queue
          /\ row.active = Me => registered # Chooser
          /\ UNCHANGED <<settingVars, generation, connected, gate, shared, applying, synced, resume,
                         localVars, at, held, registered, outbox>>
    <2>1. CASE OtherOffline
      <3> DEFINE row == [room EXCEPT !.seq = @ + 1, !.active = Nobody, !.by = Other]
      <3>1. /\ row \in Row
            /\ row.seq = room.seq + 1
            /\ row.active = Nobody
            /\ row.queue = room.queue
        <4>1. row \in Row
          BY <1>1 DEF Row
        <4>2. "seq" \in DOMAIN room /\ "active" \in DOMAIN room /\ "by" \in DOMAIN room
          BY <1>1 DEF Row
        <4>3. row.seq = room.seq + 1
          BY <4>2
        <4>4. row.active = Nobody
          BY <4>2
        <4>5. row.queue = room.queue
          OBVIOUS
        <4> QED BY <4>1, <4>3, <4>4, <4>5
      <3>2. Change(row, "activeOffline") /\ OthersMayAct
        BY <2>1 DEF OtherOffline
      <3> HIDE DEF row
      <3> QED BY <1>1, <2>1, <3>1, <3>2 DEF OtherOffline, Me, Nobody
    <2>2. ASSUME NEW queue \in Theirs \cup {room.queue}, NEW active \in {Me, Other, Nobody},
                 OtherDevice(queue, active)
          PROVE  \E row \in Row, reason \in {"command", "activeOffline"} :
                    /\ Change(row, reason) /\ OthersMayAct /\ room.seq <= row.seq
                    /\ reason \in Keeps => row.queue = room.queue
                    /\ row.active = Me => registered # Chooser
                    /\ UNCHANGED <<settingVars, generation, connected, gate, shared, applying,
                                   synced, resume, localVars, at, held, registered, outbox>>
      <3> DEFINE row == [seq |-> room.seq + 1, active |-> active, queue |-> queue, by |-> Other]
      <3>1. row \in Row /\ row.seq = room.seq + 1 /\ row.active = active
        BY <1>1 DEF Row, Queues
      <3>2. Change(row, "command") /\ OthersMayAct
        BY <2>2 DEF OtherDevice
      <3>3. active = Me => registered # Chooser
        BY <2>2 DEF OtherDevice, GateInv, ConnectionOK, Me, Other
      <3>4. UNCHANGED <<settingVars, generation, connected, gate, shared, applying,
                        synced, resume, localVars, at, held, registered, outbox>>
        BY <2>2 DEF OtherDevice
      <3> HIDE DEF row
      <3>5. room.seq <= row.seq /\ "command" \notin Keeps
        BY <1>1, <3>1 DEF Keeps
      <3> QED BY <3>1, <3>2, <3>3, <3>4, <3>5
    <2> QED BY <2>1, <2>2
  <1>3. room' = row /\ UNCHANGED <<generation, connected, gate, shared, local, own, synced,
                                   forgetting, at, held, resume, registered, outbox>>
    BY <1>2 DEF Change, settingVars, localVars
  <1>4. CASE ~connected
    BY <1>2, <1>3, <1>4, ApartServer
  <1>5. CASE connected
    <2>1. /\ shared # NoRow /\ Here \notin Deciding \cup {"pushing"}
          /\ ~(gate.kind = "pushing" /\ ~gate.user)
      BY <1>2, <1>5, NotUnderWay DEF OthersMayAct
    <2> DEFINE m == SharedMessage(row, reason)
    <2>2. reason \in Reasons \ {"snapshot"} /\ reason # "push"
      BY <1>2 DEF Reasons
    <2>3. /\ In' = Append(In, m) /\ Leads(In', shared, room') /\ m \in Inbound
          /\ In \in Seq(Inbound) /\ Out \in Seq(Outbound)
      BY <1>2, <1>3, <1>5, <2>1, <2>2, Told
    <2>4. ~Answering(m) /\ Out' = Out
      BY <1>3, <2>2 DEF Answering, SharedMessage, OwnPush, Out
    <2> HIDE DEF m
    <2>5. PushOK'
      <3>1. /\ NoPush(Out, In) => NoPush(Out', In')
            /\ OnePush(Out, In, local, own => forgetting)
                  => OnePush(Out', In', local, own => forgetting)
        <4>1. (own => forgetting) \in BOOLEAN
          OBVIOUS
        <4> QED BY <2>3, <2>4, <4>1, OthersAppended
      <3> QED BY <1>3, <1>5, <2>1, <3>1 DEF PushOK, GateInv
    <2> QED BY <1>3, <1>5, <2>1, <2>3, <2>5, ServerStep
  <1> QED BY <1>4, <1>5

\* The server handles a report of the device.
LEMMA ReportGate ==
    ASSUME Typed, GateInv, Races = {}, ~forgetting, connected, HandleMessage(generation),
           Head(Out).kind = "report", shared # NoRow, Here \notin Deciding \cup {"pushing"}
    PROVE  GateInv'
  <1> DEFINE row == [room EXCEPT !.active = Me, !.by = Me]
             m == SharedMessage(row, "report")
  <1>1. /\ generation \in Loops /\ In \in Seq(Inbound) /\ Out \in Seq(Outbound) /\ Out # <<>>
        /\ room \in Row /\ room.seq \in Nat
    BY BoxTypes DEF HandleMessage, In, Out, Typed, Settings, Row
  <1>2. /\ outbox' = [outbox EXCEPT ![generation] = Tail(@)]
        /\ UNCHANGED <<generation, connected, gate, shared, local, own, synced, forgetting, at, held,
                       resume, registered>>
        /\ Change(row, "report") \/ UNCHANGED <<room, inbox>>
    BY DEF HandleMessage, HandleReport, Out, settingVars
  <1>3. Out' = Tail(Out) /\ \A g \in Loops : outbox[g] = <<>> => outbox'[g] = <<>>
    BY <1>1, <1>2 DEF Out, Typed, Channels
  <1>4. row \in Row /\ row.seq = room.seq /\ row.queue = room.queue
    <2>1. row \in Row
      BY <1>1 DEF Row
    <2>2. row.seq = room.seq /\ row.queue = room.queue
      OBVIOUS
    <2> QED BY <2>1, <2>2
  <1> HIDE DEF row
  <1>5. ~Answering(m)
    BY DEF Answering, OwnPush, SharedMessage
  <1>6. /\ Leads(In', shared, room')
        /\ In' = In \/ (In' = Append(In, m) /\ m \in Inbound)
    <2>1. CASE Change(row, "report")
      BY <1>1, <1>2, <1>4, <2>1, Told DEF Reasons
    <2>2. CASE UNCHANGED <<room, inbox>>
      BY <1>2, <2>2 DEF GateInv, MessagesOK, In
    <2> QED BY <1>2, <2>1, <2>2
  <1> HIDE DEF m
  <1>7. /\ NoPush(Out, In) => NoPush(Out', In')
        /\ OnePush(Out, In, local, own => forgetting)
              => OnePush(Out', In', local, own => forgetting)
    <2>1. (own => forgetting) \in BOOLEAN /\ Tail(Out) \in Seq(Outbound)
      BY <1>1
    <2>2. /\ NoPush(Out, In) => NoPush(Tail(Out), In)
          /\ OnePush(Out, In, local, own => forgetting)
                => OnePush(Tail(Out), In, local, own => forgetting)
      BY <1>1, <2>1, TailPush
    <2>3. CASE In' = In
      BY <1>3, <2>2, <2>3
    <2>4. CASE In' = Append(In, m) /\ m \in Inbound
      <3>1. /\ NoPush(Tail(Out), In) => NoPush(Tail(Out), Append(In, m))
            /\ OnePush(Tail(Out), In, local, own => forgetting)
                  => OnePush(Tail(Out), Append(In, m), local, own => forgetting)
        BY <1>1, <1>5, <2>1, <2>4, OthersAppended
      <3> QED BY <1>3, <2>2, <2>4, <3>1
    <2> QED BY <1>6, <2>3, <2>4
  <1>8. ~(gate.kind = "pushing" /\ ~gate.user /\ Here = "ready")
    <2> SUFFICES ASSUME gate.kind = "pushing", ~gate.user, Here = "ready" PROVE FALSE
      OBVIOUS
    <2>1. LonePush
      BY DEF GateInv, PushOK
    <2>2. Out[1].kind = "report"
      BY <1>1
    <2> QED BY <1>1, <2>1, <2>2 DEF LonePush
  <1>9. PushOK'
    <2>1. Here' = Here
      BY <1>2 DEF Here
    <2> QED BY <1>2, <1>7, <1>8, <2>1 DEF PushOK, GateInv
  <1> QED BY <1>2, <1>3, <1>6, <1>9, ServerStep

\* The server rejects an edit or a push, and brings the device up to date.
LEMMA RejectGate ==
    ASSUME Typed, GateInv, Races = {}, ~forgetting, connected, HandleMessage(generation),
           Head(Out).kind # "report", shared # NoRow, Here \notin Deciding \cup {"pushing"},
           UNCHANGED <<room, own>>,
           \/ Head(Out).base # room.seq /\ Reply(generation, Head(Out), <<SharedMessage(room, "stale")>>)
           \/ Head(Out).kind # "push" /\ Reply(generation, Head(Out), <<>>)
    PROVE  GateInv'
  <1> DEFINE m == Head(Out)
             stale == SharedMessage(room, "stale")
             error == ErrorMessage(m.id)
  <1>1. /\ generation \in Loops /\ In \in Seq(Inbound) /\ Out \in Seq(Outbound) /\ Out # <<>>
        /\ m \in Outbound /\ room \in Row /\ room.seq \in Nat /\ shared \in Row
        /\ Here \notin Disconnected
    BY BoxTypes, Served DEF HandleMessage, In, Out, Typed, Settings, Row, GateInv
  <1>2. /\ outbox' = [outbox EXCEPT ![generation] = Tail(@)]
        /\ UNCHANGED <<generation, connected, gate, shared, local, own, synced, forgetting, at, held,
                       resume, registered, room>>
    BY DEF HandleMessage, settingVars
  <1>3. Out' = Tail(Out) /\ \A g \in Loops : outbox[g] = <<>> => outbox'[g] = <<>>
    BY <1>1, <1>2 DEF Out, Typed, Channels
  <1>4. stale \in Inbound /\ ~Answering(stale) /\ (m.kind = "push" => error \in Inbound)
    <2>1. stale \in Inbound /\ (m.kind = "push" => error \in Inbound)
      BY <1>1, MessageTypes DEF Reasons
    <2>2. ~Answering(stale)
      BY DEF Answering, OwnPush, SharedMessage
    <2> QED BY <2>1, <2>2
  <1>5. /\ m.kind # "push" => In' = In \/ In' = Append(In, stale)
        /\ m.kind = "push" => m.base # room.seq /\ In' = Append(Append(In, error), stale)
    <2> DEFINE replies(snapshot) == (IF m.kind = "push" THEN <<error>> ELSE <<>>) \o snapshot
    <2>1. \A snapshot : Reply(generation, m, snapshot) =>
             inbox' = [inbox EXCEPT ![generation] = @ \o replies(snapshot)]
      BY <1>1 DEF Reply, Here
    <2>2. \A snapshot : Reply(generation, m, snapshot) => In' = In \o replies(snapshot)
      BY <1>1, <1>2, <2>1 DEF In, Typed, Channels
    <2> HIDE DEF stale, error, m
    <2>3. CASE m.kind # "push"
      <3>1. replies(<<stale>>) = <<stale>> /\ replies(<<>>) = <<>>
        BY <1>4, <2>3
      <3>2. In' = In \o <<stale>> \/ In' = In \o <<>>
        BY <2>2, <3>1 DEF m, stale
      <3>3. In \o <<stale>> = Append(In, stale) /\ In \o <<>> = In
        BY <1>1, <1>4
      <3> QED BY <2>3, <3>2, <3>3
    <2>4. CASE m.kind = "push"
      <3>1. replies(<<stale>>) = <<error>> \o <<stale>>
        BY <2>4
      <3>2. m.base # room.seq /\ In' = In \o (<<error>> \o <<stale>>)
        BY <2>2, <2>4, <3>1 DEF m, stale
      <3>3. In \o (<<error>> \o <<stale>>) = Append(Append(In, error), stale)
        BY <1>1, <1>4, <2>4
      <3> QED BY <2>4, <3>2, <3>3
    <2> QED BY <2>3, <2>4
  <1>6. Leads(In', shared, room')
    <2>1. Leads(In, shared, room)
      BY DEF GateInv, MessagesOK
    <2>2. \A box \in Seq(Inbound) : Leads(box, shared, room) => Leads(Append(box, stale), shared, room)
      BY <1>1, AppendLeads DEF Reasons
    <2>3. m.kind = "push" => Leads(Append(In, error), shared, room) /\ Append(In, error) \in Seq(Inbound)
      <3>1. m.kind = "push" => m.id \in Nat
        BY <1>1, MessageTypes
      <3> QED BY <1>1, <1>4, <2>1, <3>1, AppendError
    <2> HIDE DEF m, stale, error
    <2> QED BY <1>1, <1>2, <1>5, <2>1, <2>2, <2>3
  <1> HIDE DEF stale, error
  <1>7. Here' = Here /\ (own => forgetting) \in BOOLEAN /\ Tail(Out) \in Seq(Outbound)
    BY <1>1, <1>2 DEF Here
  <1>8. \A box \in Seq(Inbound) :
           /\ NoPush(Tail(Out), box) => NoPush(Tail(Out), Append(box, stale))
           /\ OnePush(Tail(Out), box, local, own => forgetting)
                 => OnePush(Tail(Out), Append(box, stale), local, own => forgetting)
    BY <1>4, <1>7, OthersAppended
  <1>9. CASE m.kind # "push"
    <2>1. /\ NoPush(Out, In) => NoPush(Tail(Out), In)
          /\ OnePush(Out, In, local, own => forgetting)
                => OnePush(Tail(Out), In, local, own => forgetting)
      BY <1>1, <1>7, TailPush
    <2>2. ~(gate.kind = "pushing" /\ ~gate.user /\ Here = "ready")
      <3> SUFFICES ASSUME gate.kind = "pushing", ~gate.user, Here = "ready" PROVE FALSE
        OBVIOUS
      <3>1. LonePush
        BY DEF GateInv, PushOK
      <3>2. Out[1].kind # "push"
        BY <1>1, <1>9
      <3> QED BY <1>1, <3>1, <3>2 DEF LonePush
    <2>3. /\ NoPush(Out, In) => NoPush(Out', In')
          /\ OnePush(Out, In, local, own => forgetting)
                => OnePush(Out', In', local, own => forgetting)
      <3>1. CASE In' = In
        BY <1>3, <2>1, <3>1
      <3>2. CASE In' = Append(In, stale)
        BY <1>1, <1>3, <1>8, <2>1, <3>2
      <3> QED BY <1>5, <1>9, <3>1, <3>2
    <2>4. PushOK'
      BY <1>2, <1>7, <2>2, <2>3 DEF PushOK, GateInv
    <2> QED BY <1>2, <1>3, <1>6, <2>4, ServerStep
  <1>10. CASE m.kind = "push"
    <2>1. gate.kind = "pushing"
      <3>1. gate.kind # "pushing" => NoPush(Out, In)
        BY DEF GateInv, PushOK
      <3> QED BY <1>1, <1>7, <1>10, <3>1, TailPush
    <2>2. gate.user
      <3> SUFFICES ASSUME ~gate.user PROVE FALSE
        OBVIOUS
      <3>1. Here = "ready"
        BY <2>1 DEF GateInv, TasksOK, Open
      <3>2. LonePush
        BY <2>1, <3>1 DEF GateInv, PushOK
      <3>3. Out[1].base # room.seq
        BY <1>1, <1>5, <1>10
      <3> QED BY <1>1, <3>2, <3>3 DEF LonePush
    <2>3. OnePush(Out, In, local, own => forgetting)
      BY <2>1, <2>2 DEF GateInv, PushOK
    <2>4. at[Chooser] # "pushing"
      <3>1. at[Chooser] = "pushing" => NoPush(Out, In)
        BY <2>1, <2>2 DEF GateInv, PushOK
      <3> QED BY <1>1, <1>7, <1>10, <3>1, TailPush
    <2>5. NoPush(Tail(Out), In)
      BY <1>1, <1>7, <1>10, <2>3, TailPush
    <2>6. OnePush(Tail(Out), Append(In, error), local, own => forgetting)
      <3>1. error.kind # "shared"
        BY DEF error, ErrorMessage
      <3> QED BY <1>1, <1>4, <1>7, <1>10, <2>5, <3>1, PushMoves
    <2>7. OnePush(Out', In', local, own => forgetting)
      <3>1. Append(In, error) \in Seq(Inbound)
        BY <1>1, <1>4, <1>10
      <3> QED BY <1>3, <1>5, <1>8, <1>10, <2>6, <3>1
    <2>8. PushOK'
      BY <1>2, <1>7, <2>1, <2>2, <2>4, <2>7 DEF PushOK
    <2> QED BY <1>2, <1>3, <1>6, <2>8, ServerStep
  <1> QED BY <1>9, <1>10

\* The server accepts an edit or a push.
LEMMA AcceptGate ==
    ASSUME Typed, GateInv, Races = {}, ~forgetting, connected, HandleMessage(generation),
           Head(Out).kind # "report", shared # NoRow, Here \notin Deciding \cup {"pushing"},
           NEW active \in {Me, Other, Nobody},
           Change([seq |-> room.seq + 1, active |-> active, queue |-> Head(Out).queue, by |-> Me],
                  IF Head(Out).kind = "push" THEN "push" ELSE "command"),
           own' = (own /\ ~(Head(Out).kind = "push" /\ Head(Out).queue = local))
    PROVE  GateInv'
  <1> DEFINE m == Head(Out)
             row == [seq |-> room.seq + 1, active |-> active, queue |-> m.queue, by |-> Me]
             reason == IF m.kind = "push" THEN "push" ELSE "command"
             told == SharedMessage(row, reason)
  <1>1. /\ generation \in Loops /\ In \in Seq(Inbound) /\ Out \in Seq(Outbound) /\ Out # <<>>
        /\ m \in Outbound /\ m.queue \in Queues /\ room \in Row /\ room.seq \in Nat
    BY BoxTypes, MessageTypes DEF HandleMessage, In, Out, Typed, Settings, Row
  <1>2. /\ outbox' = [outbox EXCEPT ![generation] = Tail(@)]
        /\ UNCHANGED <<generation, connected, gate, shared, local, synced, forgetting, at, held,
                       resume, registered>>
        /\ own' = own \/ own' = FALSE
    BY DEF HandleMessage, settingVars, Typed, Settings
  <1>3. Out' = Tail(Out) /\ \A g \in Loops : outbox[g] = <<>> => outbox'[g] = <<>>
    BY <1>1, <1>2 DEF Out, Typed, Channels
  <1>4. /\ row \in Row /\ room.seq <= row.seq /\ row.queue = m.queue /\ row.by = Me
        /\ reason \in Reasons \ {"snapshot"} /\ reason \notin Keeps
    BY <1>1 DEF Row, Reasons, Keeps
  <1>5. Change(row, reason)
    OBVIOUS
  <1>6. told.row = row /\ told.reason = reason /\ told.kind = "shared"
    BY DEF SharedMessage
  <1>7. reason = "push" <=> m.kind = "push"
    OBVIOUS
  <1> HIDE DEF row, reason
  <1>8. /\ room' = row /\ In' = Append(In, told) /\ Leads(In', shared, room') /\ told \in Inbound
    BY <1>2, <1>4, <1>5, Told
  <1> HIDE DEF told
  <1>9. Here' = Here /\ (own' => forgetting) \in BOOLEAN /\ (own => forgetting) \in BOOLEAN
        /\ Tail(Out) \in Seq(Outbound)
    BY <1>1, <1>2 DEF Here
  <1>10. CASE m.kind # "push"
    <2>1. /\ NoPush(Out, In) => NoPush(Tail(Out), In)
          /\ OnePush(Out, In, local, own => forgetting)
                => OnePush(Tail(Out), In, local, own => forgetting)
      BY <1>1, <1>9, TailPush
    <2>2. ~Answering(told)
      BY <1>6, <1>7, <1>10 DEF Answering, OwnPush
    <2>3. /\ NoPush(Tail(Out), In) => NoPush(Tail(Out), In')
          /\ OnePush(Tail(Out), In, local, own => forgetting)
                => OnePush(Tail(Out), In', local, own => forgetting)
      BY <1>1, <1>8, <1>9, <2>2, OthersAppended
    <2>4. ~(gate.kind = "pushing" /\ ~gate.user /\ Here = "ready")
      <3> SUFFICES ASSUME gate.kind = "pushing", ~gate.user, Here = "ready" PROVE FALSE
        OBVIOUS
      <3>1. LonePush
        BY DEF GateInv, PushOK
      <3>2. Out[1].kind # "push"
        BY <1>1, <1>10
      <3> QED BY <1>1, <3>1, <3>2 DEF LonePush
    <2>5. own' = own
      BY <1>10 DEF Typed, Settings
    <2>6. PushOK'
      BY <1>2, <1>3, <1>9, <2>1, <2>3, <2>4, <2>5 DEF PushOK, GateInv
    <2> QED BY <1>2, <1>3, <1>8, <2>6, ServerStep
  <1>11. CASE m.kind = "push"
    <2>1. gate.kind = "pushing"
      <3>1. gate.kind # "pushing" => NoPush(Out, In)
        BY DEF GateInv, PushOK
      <3> QED BY <1>1, <1>9, <1>11, <3>1, TailPush
    <2>2. CASE gate.user
      <3>1. OnePush(Out, In, local, own => forgetting)
        BY <2>1, <2>2 DEF GateInv, PushOK
      <3>2. at[Chooser] # "pushing"
        <4>1. at[Chooser] = "pushing" => NoPush(Out, In)
          BY <2>1, <2>2 DEF GateInv, PushOK
        <4> QED BY <1>1, <1>9, <1>11, <4>1, TailPush
      <3>3. NoPush(Tail(Out), In) /\ m.queue = local
        BY <1>1, <1>9, <1>11, <3>1, TailPush
      <3>4. ~own'
        BY <1>11, <3>3
      <3>5. told.row.queue = local
        BY <1>4, <1>6, <3>3
      <3>6. OnePush(Tail(Out), Append(In, told), local, own' => forgetting)
        BY <1>1, <1>8, <1>9, <3>3, <3>4, <3>5, PushMoves
      <3>7. PushOK'
        BY <1>2, <1>3, <1>8, <1>9, <2>1, <2>2, <3>2, <3>6 DEF PushOK
      <3> QED BY <1>2, <1>3, <1>8, <3>7, ServerStep
    <2>3. CASE ~gate.user
      <3>1. Here = "ready"
        BY <2>1, <2>3 DEF GateInv, TasksOK, Open
      <3>2. LonePush /\ at[Chooser] = "ready"
        BY <2>1, <2>3, <3>1 DEF GateInv, PushOK
      <3>3. /\ shared = room /\ In = <<>> /\ Len(Out) = 1 /\ Out[1].queue = local
        BY <1>1, <3>2 DEF LonePush
      <3>4. Tail(Out) = <<>> /\ m.queue = local
        <4>1. Len(Tail(Out)) = 0
          BY <1>1, <3>3
        <4>2. Tail(Out) = <<>>
          <5>1. \A s \in Seq(Outbound) : Len(s) = 0 => s = <<>>
            OBVIOUS
          <5> QED BY <1>9, <4>1, <5>1
        <4>3. m = Out[1]
          BY <1>1
        <4> QED BY <3>3, <4>2, <4>3
      <3>5. ~own'
        BY <1>11, <3>4
      <3>6. In' = <<SharedMessage(room', "push")>>
        BY <1>7, <1>8, <1>11, <3>3 DEF told
      <3>7. LonePush'
        BY <1>2, <1>3, <1>4, <1>8, <3>3, <3>4, <3>5, <3>6 DEF LonePush
      <3>8. PushOK'
        BY <1>2, <1>9, <2>1, <2>3, <3>1, <3>2, <3>7 DEF PushOK
      <3> QED BY <1>2, <1>3, <1>8, <3>8, ServerStep
    <2> QED BY <2>2, <2>3
  <1> QED BY <1>10, <1>11

LEMMA HandleGate ==
    ASSUME Typed, GateInv, Races = {}, ~forgetting, NEW g \in Loops, HandleMessage(g)
    PROVE  GateInv'
  <1> DEFINE m == Head(outbox[g])
  <1>1. /\ outbox[g] # <<>> /\ outbox' = [outbox EXCEPT ![g] = Tail(@)]
        /\ UNCHANGED <<generation, connected, gate, shared, local, synced, forgetting, at, held,
                       resume, registered>>
    BY DEF HandleMessage, settingVars
  <1>2. registered = g /\ g # Chooser
    BY <1>1, TaskIds DEF GateInv, ConnectionOK
  <1>3. room \in Row /\ room.active \in {Me, Other, Nobody}
    BY DEF Typed, Settings, Row
  <1> DEFINE active == IF m.kind = "push" THEN Me
                       ELSE IF m.queue # Empty /\ room.active = Nobody THEN Me
                       ELSE room.active
  <1>4. \/ m.kind = "report" /\ own' = own
        \/ /\ m.kind # "report" /\ UNCHANGED <<room, own>>
           /\ \/ m.base # room.seq /\ Reply(g, m, <<SharedMessage(room, "stale")>>)
              \/ m.kind # "push" /\ Reply(g, m, <<>>)
        \/ /\ m.kind # "report"
           /\ Change([seq |-> room.seq + 1, active |-> active, queue |-> m.queue, by |-> Me],
                     IF m.kind = "push" THEN "push" ELSE "command")
           /\ own' = (own /\ ~(m.kind = "push" /\ m.queue = local))
    BY DEF HandleMessage, HandleReport, HandleCommand
  <1>5. active \in {Me, Other, Nobody}
    BY <1>3
  <1> HIDE DEF active
  <1>6. CASE ~connected
    <2>1. own' = own \/ own' = FALSE
      BY <1>4 DEF Typed, Settings
    <2>2. \A h \in Loops : outbox[h] = <<>> => outbox'[h] = <<>>
      BY <1>1 DEF Typed, Channels
    <2> QED BY <1>1, <1>2, <1>6, <2>1, <2>2, ApartServer
  <1>7. CASE connected
    <2>1. g = generation /\ outbox[g] = Out /\ Out # <<>>
      BY <1>1, <1>2, <1>7, Served DEF GateInv, Out
    <2>2. shared # NoRow /\ Here \notin Deciding \cup {"pushing"}
      BY <1>7, <2>1 DEF GateInv, MessagesOK, TasksOK
    <2>3. CASE m.kind = "report"
      BY <1>7, <2>1, <2>2, <2>3, ReportGate
    <2>4. CASE /\ m.kind # "report" /\ UNCHANGED <<room, own>>
               /\ \/ m.base # room.seq /\ Reply(g, m, <<SharedMessage(room, "stale")>>)
                  \/ m.kind # "push" /\ Reply(g, m, <<>>)
      BY <1>7, <2>1, <2>2, <2>4, RejectGate
    <2>5. CASE /\ m.kind # "report"
               /\ Change([seq |-> room.seq + 1, active |-> active, queue |-> m.queue, by |-> Me],
                         IF m.kind = "push" THEN "push" ELSE "command")
               /\ own' = (own /\ ~(m.kind = "push" /\ m.queue = local))
      BY <1>5, <1>7, <2>1, <2>2, <2>5, AcceptGate
    <2> QED BY <1>4, <2>3, <2>4, <2>5
  <1> QED BY <1>6, <1>7

-----------------------------------------------------------------------------
(* All steps.                                                              *)

LEMMA SameGate ==
    ASSUME GateInv, UNCHANGED vars
    PROVE  GateInv'
  <1>1. Here' = Here /\ In' = In /\ Out' = Out
    BY DEF vars, Here, In, Out
  <1>2. ConnectionOK' /\ TasksOK' /\ MessagesOK'
    BY <1>1 DEF vars, settingVars, localVars, serverVars, GateInv, ConnectionOK, TasksOK, MessagesOK
  <1>3. PushOK'
    BY <1>1 DEF vars, settingVars, localVars, serverVars, GateInv, PushOK, LonePush
  <1>4. LocalOK' /\ OwnOK'
    BY <1>1 DEF vars, settingVars, localVars, serverVars, GateInv, LocalOK, OwnOK, AppliesToBackend,
       OwnReport, OwnPush
  <1> QED BY <1>2, <1>3, <1>4 DEF GateInv

LEMMA LoopGate ==
    ASSUME Typed, GateInv, Races = {}, ~forgetting, NEW g \in Loops,
           LoopStep(g) \/ Login(g) \/ Connect(g) \/ Disconnect(g) \/ HandleMessage(g) \/ Unregister(g)
    PROVE  GateInv'
  <1>1. g \in Tasks
    BY TaskIds
  <1>2. CASE EndLoop(g) \/ Login(g) \/ Disconnect(g)
    BY <1>2, LeavingGate
  <1>3. CASE Connect(g)
    BY <1>3, ConnectGate
  <1>4. CASE ReceiveShared(g)
    BY <1>4, OldReceiveGate, FirstSnapshotGate, LaterSharedGate
  <1>5. CASE ReceiveError(g)
    BY <1>5, OldReceiveGate, ReceiveErrorGate
  <1>6. CASE Classify(g) \/ AskUser(g)
    BY <1>6, ClassifyGate, AskUserGate
  <1>7. CASE ReadLocal(g) \/ ClosePush(g) \/ SendPush(g)
    BY <1>1, <1>7, ReadLocalGate, ClosePushGate, SendPushGate
  <1>8. CASE Deliver(g) \/ BeginApply(g) \/ ApplyShared(g)
    BY <1>1, <1>8, DeliverGate, BeginApplyGate, ApplySharedGate
  <1>9. CASE EndApply(g) \/ Flush(g)
    BY <1>1, <1>9, EndApplyGate, FlushGate
  <1>10. CASE HandleMessage(g) \/ Unregister(g)
    BY <1>10, HandleGate, UnregisterGate
  <1> QED BY <1>2, <1>3, <1>4, <1>5, <1>6, <1>7, <1>8, <1>9, <1>10 DEF LoopStep

LEMMA NextGate ==
    ASSUME Typed, GateInv, Races = {}, [Next]_vars
    PROVE  GateInv'
  <1>1. CASE UNCHANGED vars
    BY <1>1, SameGate
  <1>2. CASE TurnOff \/ Restart
    BY <1>2, RestartGate
  <1>3. CASE ~(UNCHANGED vars) /\ ~(TurnOff \/ Restart)
    <2>1. ~forgetting
      BY <1>3 DEF Next
    <2>2. CASE \E g \in Loops :
                  LoopStep(g) \/ Login(g) \/ Connect(g) \/ Disconnect(g)
                    \/ HandleMessage(g) \/ Unregister(g)
      BY <2>1, <2>2, LoopGate
    <2>3. CASE ChooserStep \/ ReadLocal(Chooser) \/ ChoosePull
      BY <2>1, <2>3, TaskIds, ReadLocalGate, ClosePushGate, SendPushGate, BeginApplyGate,
         ApplySharedGate, EndApplyGate, ChoosePullGate DEF ChooserStep
    <2>4. CASE PublishStatus \/ \E queue \in Mine : EditQueue(queue)
      BY <2>1, <2>4, PublishGate, EditGate
    <2>5. CASE OtherOffline
                 \/ \E queue \in Theirs \cup {room.queue}, active \in {Me, Other, Nobody} :
                       OtherDevice(queue, active)
      BY <2>1, <2>5, OtherGate
    <2> QED BY <1>3, <2>2, <2>3, <2>4, <2>5 DEF Next
  <1> QED BY <1>1, <1>2, <1>3

LEMMA InitGate == Init => GateInv
  <1> SUFFICES ASSUME Init PROVE GateInv
    OBVIOUS
  <1>1. /\ ~connected /\ gate = Open /\ shared = NoRow /\ at[Chooser] = "ready" /\ Here = "offline"
        /\ generation = 1 /\ 1 \in Loops /\ \A g \in Loops : at[g] \in {"offline", "over"}
    BY SessionBoundsAssumption, TaskIds DEF Init, Here, Loops
  <1>2. ConnectionOK
    BY <1>1, TaskIds DEF Init, ConnectionOK, Disconnected, Idle, Nobody, Me
  <1>3. TasksOK
    BY <1>1 DEF TasksOK, Delivering, Deciding, TakingShared, Open, AwaitingChoice
  <1>4. OwnOK
    <2>1. \A t \in Tasks : at[t] \notin {"applied", "failed"}
      BY <1>1 DEF Tasks
    <2>2. own => local # Empty /\ local # synced
      BY UnknownAssumption DEF Init, Queues
    <2> QED BY <1>1, <2>1, <2>2 DEF OwnOK
  <1> QED BY <1>1, <1>2, <1>3, <1>4 DEF GateInv, MessagesOK, PushOK, LocalOK

\* What the invariant says of a session at rest.
LEMMA QuietGate ==
    ASSUME Typed, GateInv, Resumes = {}
    PROVE  SessionInSync
  <1> SUFFICES ASSUME Quiet PROVE shared = room /\ local = room.queue
    BY DEF SessionInSync
  <1>1. connected /\ gate = Open /\ In = <<>> /\ Here = "ready" /\ at[Chooser] = "ready"
    BY DEF Quiet, In, Here
  <1>2. shared # NoRow
    BY <1>1 DEF GateInv, MessagesOK
  <1>3. shared = room
    <2>1. EndsIn(In, shared, room)
      BY <1>1, <1>2 DEF GateInv, MessagesOK, Leads
    <2> QED BY <1>1, <2>1 DEF EndsIn, Shareds
  <1>4. local = shared.queue
    BY <1>1, <1>2 DEF GateInv, LocalOK
  <1> QED BY <1>3, <1>4

\* A loop that is applying a state has nothing of the user's to replace.
LEMMA AppliedGate ==
    ASSUME Typed, GateInv, Races = {}, [Next]_vars, NEW g \in Loops,
           own, at[g] = "applying", at'[g] # "applying"
    PROVE  local' = local
  <1>1. /\ g = generation /\ connected /\ shared # NoRow /\ gate = Open /\ at[Chooser] = "ready"
        /\ Here = "applying"
    BY Taking, TaskIds DEF Delivering
  <1>2. forgetting
    BY <1>1 DEF GateInv, OwnOK, Delivering
  <1>3. at[g] \in Idle
    BY <1>2, TaskIds DEF GateInv, ConnectionOK
  <1> QED BY <1>3 DEF Idle

\* Where nothing overlaps and no resumed app takes its own state back: once
\* all messages are handled and no conflict is open, the device has the row
\* and the queue of the server (set_shared_playback, apply_connect_shared_state).
THEOREM QuietIsInSync ==
    ASSUME Races = {}, Resumes = {}
    PROVE  Spec => []SessionInSync
  <1>1. Init => Typed /\ GateInv
    BY InitTyped, InitGate
  <1>2. (Typed /\ GateInv) /\ [Next]_vars => (Typed /\ GateInv)'
    BY NextTyped, NextGate
  <1>3. Typed /\ GateInv => SessionInSync
    BY QuietGate
  <1> QED BY <1>1, <1>2, <1>3, PTL DEF Spec

\* Where nothing overlaps: no connection loop replaces a queue of the user's
\* (classify_initial_snapshot, QueueGate).  By the invariant a loop that
\* applies has found the gate open and the queue none of the user's.
THEOREM OwnQueueSurvives ==
    ASSUME Races = {}
    PROVE  Spec => LocalQueueSurvives
  <1>1. Init => Typed /\ GateInv
    BY InitTyped, InitGate
  <1>2. (Typed /\ GateInv) /\ [Next]_vars => (Typed /\ GateInv)'
    BY NextTyped, NextGate
  <1>3. (Typed /\ GateInv) /\ [Next]_vars =>
           [\A g \in Loops : own /\ at[g] = "applying" /\ at'[g] # "applying" => local' = local]_vars
    BY AppliedGate
  <1> QED BY <1>1, <1>2, <1>3, PTL DEF Spec, LocalQueueSurvives
=============================================================================
