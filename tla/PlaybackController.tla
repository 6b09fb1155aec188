-------------------------- MODULE PlaybackController --------------------------
(***************************************************************************)
(* PlaybackController of the app (playback/controller.rs), with what it    *)
(* can tell of the backend it drives: the commands of the user and of      *)
(* Connect, the native events that wait in the hub until somebody takes    *)
(* the controller's lock and drains them, gapless preparation, recovery    *)
(* from errors of the output stream, and the state file.                   *)
(*                                                                         *)
(* The controller is locked for a whole command, and asks the backend as   *)
(* it goes: a command is one step, built from functions of a world, the    *)
(* controller's and the backend's fields together.  Where the outcome is   *)
(* open (a load may fail) the functions return a set of worlds.            *)
(*                                                                         *)
(* Entries of the queue have an identity here that the program does not    *)
(* know; it compares indices and song ids.  The queue's arithmetic is that *)
(* of PlaybackQueue, its revision and index map are left to QueueSelection.*)
(***************************************************************************)
EXTENDS PlaybackQueue, SequencesExt

CONSTANTS NoEntry,
          Queues,         \* what set_queue and Connect bring
          Troubles,       \* what a backend may report of its own accord: a set per backend
          MaxCalls,       \* bound: commands and restarts
          MaxTroubles     \* bound: such reports

\* cpal's stream errors, once per stream, and the states Android reports.
Desktop == {"error"}
Android == {"buffering", "ready", "playing", "paused", "failure"}

ASSUME ControllerAssumption ==
    /\ NoEntry \notin Entries /\ Queues \subseteq Seq(Entries)
    /\ \A kinds \in Troubles : kinds \subseteq Desktop \/ kinds \subseteq Android
    /\ MaxCalls \in Nat /\ MaxTroubles \in Nat

(***************************************************************************)
(* Short moments and odd calls, of which a behaviour opens one kind:       *)
(*   "events"    a command gets the lock while events wait in the hub, or  *)
(*               the backend goes on to the prepared track, having told    *)
(*               the end of the one before already                         *)
(*   "recovery"  the queue changes while a recovery is scheduled, or the   *)
(*               stream that failed ends its track before that is handled  *)
(*   "stall"     seek, next or prev while the backend is buffering, or     *)
(*               pause when the queue has ended                            *)
(*   "save"      the app dies between truncating and writing the state     *)
(*               file, or the track after a removed one fails to load,     *)
(*               before the queue without it was saved                     *)
(***************************************************************************)
Windows == {"events", "recovery", "stall", "save"}

MaxAttempts == 3    \* OUTPUT_STREAM_RECOVERY_MAX_ATTEMPTS

VARIABLES
    windows,    \* the windows this behaviour opens
    reports,    \* what the backend reports
    player,     \* the controller: status, prepared_next, recovery
    backend,    \* what is heard, what is prepared, and the events of its hub
    saved,      \* the state file
    count       \* history: commands, troubles, and reloads by recovery since a
                \* command or another track

vars == <<windows, reports, player, backend, saved, count>>

Nothing == "none"
NoPrepared == [state |-> Nothing, index |-> NoIndex, song |-> Nothing]
NoPlan == [index |-> NoIndex, position |-> AtStart, autoplay |-> FALSE, attempt |-> 0]
NoNext == [entry |-> NoEntry, state |-> Nothing]

\* prepared_next, pending_output_stream_recovery, and what the backend prepared:
\* "stored" with a format the stream does not have.
PreparedTracks == [state: {Nothing, "preparing", "ready", "failed"}, index: Int,
                   song: Songs \cup {Nothing}]
Plans == [index: Int, position: {AtStart, Later}, autoplay: BOOLEAN,
          attempt: 0 .. MaxAttempts]
NextTracks == [entry: Entries \cup {NoEntry},
               state: {Nothing, "preparing", "stored", "installed"}]

\* resume: interrupted_resume_state; active: Connect plays here, or is off.
Player ==
    [queue: Seq(Entries), currentIndex: Int, playNextQueueLen: Nat,
     position: {AtStart, Later}, playingState: PlayingStates,
     resume: PlayingStates \cup {Nothing}, gapless: BOOLEAN, active: BOOLEAN,
     prepared: PreparedTracks, attempts: 0 .. MaxAttempts, plan: Plans]

\* Generations are only compared: an event is of the preparation that is under
\* way, or stale.
NativeEvents == [kind: {"prepared", "failed", "transition", "ended", "seek"} \cup reports,
                 stale: BOOLEAN]
Backend ==
    [heard: Entries \cup {NoEntry}, paused: BOOLEAN, position: {AtStart, Later},
     ended: BOOLEAN, next: NextTracks, events: Seq(NativeEvents)]

Saved == [queue: Seq(Entries), currentIndex: Int, playNextQueueLen: Nat,
          position: {AtStart, Later}]

TypeOK ==
    /\ windows \subseteq Windows /\ reports \in Troubles
    /\ player \in Player /\ backend \in Backend /\ saved \in Saved
    /\ count \in [calls: 0 .. MaxCalls, troubles: 0 .. MaxTroubles, recovered: Nat]

\* restore_state, of a file whose index was checked.
Restored(file) ==
    [queue |-> file.queue, currentIndex |-> file.currentIndex,
     playNextQueueLen |->
        ClampedPlayNextLen(Len(file.queue), file.currentIndex, file.playNextQueueLen),
     position |-> file.position, playingState |-> StoppedOrIdle(file.queue),
     resume |-> Nothing, gapless |-> TRUE, active |-> TRUE, prepared |-> NoPrepared,
     attempts |-> 0, plan |-> NoPlan]

SilentBackend ==
    [heard |-> NoEntry, paused |-> FALSE, position |-> AtStart, ended |-> FALSE,
     next |-> NoNext, events |-> <<>>]

Init ==
    /\ windows \in {{}} \cup {{window} : window \in Windows}
    /\ reports \in Troubles
    /\ \E queue \in Queues :
         saved = [queue |-> queue, currentIndex |-> IF queue = <<>> THEN NoIndex ELSE 0,
                  playNextQueueLen |-> 0, position |-> AtStart]
    /\ player = Restored(saved)
    /\ backend = SilentBackend
    /\ count = [calls |-> 0, troubles |-> 0, recovered |-> 0]

-----------------------------------------------------------------------------
\* Worlds.  refused: the handler returned an error and did no more; taken: the
\* events it took out of the hub.

World == [p |-> player, b |-> backend, saved |-> saved, refused |-> FALSE, taken |-> <<>>]
Refused(w) == [w EXCEPT !.refused = TRUE]

\* The rest of a handler, in every world its first part may end in.
Then(worlds, Rest(_)) ==
    UNION {IF w.refused THEN {w} ELSE Rest(w) : w \in worlds}

Playing(w) == w.p.playingState = "playing"
PlayingOrPaused(w) == w.p.playingState \in {"playing", "paused"}
Loaded(w) == w.p.playingState \in LoadedStates
Valid(w, index) == index \in Indices(w.p.queue)
Entry(w, index) == ItemAt(w.p.queue, index)
ShouldAutoplay(w) == Playing(w) \/ w.p.resume = "playing"

-----------------------------------------------------------------------------
\* What the backend does when it is asked.

ClearNativeEvents(w) == [w EXCEPT !.b.events = <<>>]

\* The preparation is dropped, under a new generation.
AllStale(events) == [i \in DOMAIN events |-> [events[i] EXCEPT !.stale = TRUE]]
DropNext(w) ==
    [w EXCEPT !.b.next = NoNext, !.b.events = AllStale(@), !.taken = AllStale(@)]

StopBackend(w) == [DropNext(w) EXCEPT !.b.heard = NoEntry]

\* A track starts, and the hub is reset.
Heard(w, entry, position, autoplay) ==
    [DropNext(w) EXCEPT !.b = [heard |-> entry, paused |-> ~autoplay, position |-> position,
                               ended |-> FALSE, next |-> NoNext, events |-> <<>>]]

\* load, raw or transcoded, or both in turn.
LoadStream(w, entry, position, autoplay) ==
    {Heard(w, entry, position, autoplay), Refused(ClearNativeEvents(StopBackend(w)))}

ClearGapless(w) ==
    IF w.p.prepared = NoPrepared THEN w
    ELSE DropNext([w EXCEPT !.p.prepared = NoPrepared])

\* sync_current_position_from_backend, which a silent backend cannot answer.
SyncPosition(w) ==
    CASE ~PlayingOrPaused(w) -> w
      [] PlayingOrPaused(w) /\ w.b.heard = NoEntry -> Refused(w)
      [] OTHER -> [w EXCEPT !.p.position = w.b.position]
SyncIfPossible(w) == [SyncPosition(w) EXCEPT !.refused = FALSE]

-----------------------------------------------------------------------------
\* Gapless preparation.

NextIndex(w) == w.p.currentIndex + 1
HasTarget(w) ==
    w.p.gapless /\ PlayingOrPaused(w) /\ w.p.currentIndex # NoIndex /\ Valid(w, NextIndex(w))

IsTarget(w, index) ==
    /\ w.p.prepared.index = index
    /\ w.p.prepared.song = SongAt(w.p.queue, index)

PreparedAs(w, state) ==
    [w EXCEPT !.p.prepared = [state |-> state, index |-> NextIndex(w),
                              song |-> SongAt(w.p.queue, NextIndex(w))]]

\* sync_gapless_for_current_track: what is prepared is the next entry, if any.
SyncGapless(w) ==
    IF ~HasTarget(w) THEN {ClearGapless(w)}
    ELSE IF w.p.prepared # NoPrepared /\ IsTarget(w, NextIndex(w)) THEN {w}
    ELSE LET cleared == ClearGapless(w)
             asked == [DropNext(cleared) EXCEPT
                         !.b.next = [entry |-> Entry(w, NextIndex(w)), state |-> "preparing"]]
         IN  {PreparedAs(asked, "preparing"), PreparedAs(cleared, "failed")}

-----------------------------------------------------------------------------
\* Loading.

Persist(w) ==
    [w EXCEPT !.saved = [queue |-> w.p.queue, currentIndex |-> w.p.currentIndex,
                         playNextQueueLen |-> w.p.playNextQueueLen,
                         position |-> w.p.position]]

ResetRecovery(w) == [w EXCEPT !.p.attempts = 0, !.p.plan = NoPlan]

At(w, index, position, state) ==
    [w EXCEPT !.p.currentIndex = index, !.p.position = position,
              !.p.playingState = state, !.p.resume = Nothing]

\* What load_track_at_index and reload_track_at_index_exact do once it plays.
Started(w, index, position, autoplay) ==
    SyncGapless(ResetRecovery(ClearNativeEvents(
        At(w, index, position, IF autoplay THEN "playing" ELSE "paused"))))

\* try_activate_prepared_gapless_track, if what is prepared is what is wanted.
MayActivate(w, index, position) ==
    /\ position = AtStart /\ IsTarget(w, index)
    /\ w.p.prepared.state \in {"preparing", "ready"}
    /\ w.b.next.state \in {"stored", "installed"}

LoadTrack(w, index, position, autoplay) ==
    IF ~Valid(w, index) THEN {Refused(w)}
    ELSE LET loading == ClearNativeEvents(At(w, index, position, "interrupted"))
             activated == Heard([loading EXCEPT !.p.prepared = NoPrepared],
                                w.b.next.entry, AtStart, autoplay)
             loaded == LoadStream(ClearGapless(loading), Entry(w, index), position, autoplay)
             tried == IF MayActivate(w, index, position) THEN {activated} \cup loaded ELSE loaded
         IN  UNION {IF t.refused THEN {[t EXCEPT !.p.playingState = "error"]}
                    ELSE Started(t, index, position, autoplay) : t \in tried}

\* A failure leaves the status as it was.
ReloadExact(w, index, position, autoplay) ==
    IF ~Valid(w, index) THEN {Refused(w)}
    ELSE LET loaded == LoadStream(ClearNativeEvents(w), Entry(w, index), position, autoplay)
         IN  Then(loaded, LAMBDA t : Started(t, index, position, autoplay))

-----------------------------------------------------------------------------
\* Recovery of the output stream.

ToError(w) == [w EXCEPT !.p.playingState = "error", !.p.resume = Nothing]

StopAfterStreamError(w) == ClearGapless(ClearNativeEvents(StopBackend(w)))

Schedule(w, plan) ==
    [w EXCEPT !.p.plan = plan, !.p.playingState = "interrupted",
              !.p.position = plan.position, !.p.resume = Nothing]

Exhausted(w) == w.p.attempts >= MaxAttempts

HandleStreamError(w) ==
    IF w.p.plan # NoPlan THEN w
    ELSE IF ~Loaded(w) THEN ToError(w)
    ELSE IF Exhausted(w) \/ w.p.currentIndex = NoIndex
    THEN ToError(StopAfterStreamError(w))
    ELSE LET synced == SyncIfPossible(w)
         IN  Schedule(StopAfterStreamError(synced),
                      [index |-> w.p.currentIndex, position |-> synced.p.position,
                       autoplay |-> ShouldAutoplay(w), attempt |-> w.p.attempts + 1])

\* Mutant: the reload's own reset is the last word.
AttemptedForgetting(w, attempt) == [w EXCEPT !.refused = FALSE]
Attempted(w, attempt) == [w EXCEPT !.p.attempts = attempt, !.refused = FALSE]

\* run_output_stream_recovery_attempt, once it is due.
Recover(w) ==
    LET plan == w.p.plan
        taken == [w EXCEPT !.p.plan = NoPlan]
        attempted(t) == Attempted(t, plan.attempt)
        failed(t) ==
            IF plan.attempt < MaxAttempts
            THEN Schedule(attempted(t), [plan EXCEPT !.attempt = @ + 1])
            ELSE ClearGapless(ToError([attempted(t) EXCEPT !.p.position = plan.position]))
    IN  {IF t.refused THEN failed(t) ELSE attempted(t) :
            t \in ReloadExact(taken, plan.index, plan.position, plan.autoplay)}

-----------------------------------------------------------------------------
\* Native events.

StoppedAtEnd(w) == At(ClearGapless(w), w.p.currentIndex, AtStart, "stopped")

AdvancedLen(w, index) ==
    AdjustedPlayNextLen(Len(w.p.queue), w.p.currentIndex, w.p.playNextQueueLen, index)

\* context: there is a session to load from.
HandleEnded(w, context) ==
    IF w.p.currentIndex = NoIndex THEN {w}
    ELSE IF ~Valid(w, NextIndex(w)) \/ ~context THEN {StoppedAtEnd(w)}
    ELSE LoadTrack([w EXCEPT !.p.playNextQueueLen = AdvancedLen(w, NextIndex(w))],
                   NextIndex(w), AtStart, TRUE)

\* The transition names no generation: what is prepared now is what is heard.
HandleTransition(w, context) ==
    LET target == w.p.prepared.index
        moved == At([w EXCEPT !.p.playNextQueueLen = AdvancedLen(w, target),
                              !.p.prepared = NoPrepared], target, AtStart, "playing")
    IN  IF w.p.prepared.state \notin {"preparing", "ready"} THEN {w}
        ELSE IF ~Valid(w, target) THEN {ClearGapless(w)}
        ELSE IF context THEN SyncGapless(moved) ELSE {ClearGapless(moved)}

OfPrepared(w, event) == w.p.prepared # NoPrepared /\ ~event.stale

\* The states a backend reports of its own accord.
HandleNative(w, kind) ==
    CASE kind = "buffering" ->
            [w EXCEPT !.p.resume = IF w.p.playingState = "interrupted" THEN @
                                   ELSE w.p.playingState,
                      !.p.playingState = "interrupted"]
      [] kind = "ready" ->
            [w EXCEPT !.p.playingState =
                         IF @ # "interrupted" THEN @
                         ELSE IF w.p.resume = Nothing THEN "paused" ELSE w.p.resume,
                      !.p.resume = Nothing]
      [] kind \in {"playing", "paused"} ->
            [w EXCEPT !.p.playingState = kind, !.p.resume = Nothing]
      [] kind = "failure" -> ToError(w)

Handle(w, event, context) ==
    CASE event.kind = "prepared" ->
            {IF OfPrepared(w, event) /\ w.p.prepared.state = "preparing"
             THEN [w EXCEPT !.p.prepared.state = "ready"] ELSE w}
      [] event.kind = "failed" ->
            {IF OfPrepared(w, event) THEN [w EXCEPT !.p.prepared.state = "failed"] ELSE w}
      [] event.kind = "transition" -> HandleTransition(w, context)
      [] event.kind = "ended" -> HandleEnded(w, context)
      [] event.kind = "error" ->
            {IF context THEN HandleStreamError(w)
             ELSE IF w.p.plan # NoPlan THEN w
             ELSE IF Loaded(w) THEN ToError(StopAfterStreamError(w)) ELSE ToError(w)}
      [] event.kind = "seek" -> {[w EXCEPT !.p.position = w.b.position]}
      [] OTHER -> {HandleNative(w, event.kind)}

\* process_native_events_inner: what waits is taken out first; an error drops
\* the rest of it.  A recovery runs when it is due.
HandleEach(worlds, i, context) ==
    Then(worlds, LAMBDA t : Handle(t, t.taken[i], context))

\* The worlds that the first n of them leave.
HandledUpTo(w, n, context) ==
    LET after[i \in 0 .. n] ==
            IF i = 0 THEN {w} ELSE HandleEach(after[i - 1], i, context)
    IN  after[n]

ProcessEvents(w, context) ==
    LET taken == [ClearNativeEvents(w) EXCEPT !.taken = w.b.events]
        handled == HandledUpTo(taken, Len(w.b.events), context)
        due(t) == IF t.p.plan = NoPlan THEN {t}
                  ELSE {t} \cup (IF context THEN Recover(t)
                                 ELSE {ToError([t EXCEPT !.p.plan = NoPlan,
                                                         !.p.attempts = MaxAttempts])})
    IN  Then(handled, due)

-----------------------------------------------------------------------------
\* The commands: what is done to a world.

Silenced(w) == ClearNativeEvents(ClearGapless(StopBackend(w)))

\* ensure_current_index
Ensured(w) ==
    CASE w.p.queue = <<>> -> Refused(w)
      [] w.p.queue # <<>> /\ w.p.currentIndex = NoIndex ->
            [w EXCEPT !.p.currentIndex = 0,
                      !.p.playNextQueueLen = ClampedPlayNextLen(Len(w.p.queue), 0, @)]
      [] OTHER -> w

WithQueue(w, queue, index, len) ==
    [w EXCEPT !.p.queue = queue, !.p.currentIndex = index,
              !.p.playNextQueueLen = ClampedPlayNextLen(Len(queue), index, len)]

SetQueueCommand(w, queue, index) ==
    LET set == WithQueue(ResetRecovery(Silenced(w)), queue, index, 0)
    IN  {Persist(At(set, index, AtStart, StoppedOrIdle(queue)))}

ClearQueueCommand(w) ==
    Then({SyncPosition(w)}, LAMBDA t :
        {Persist(At(WithQueue(ResetRecovery(Silenced(t)), <<>>, NoIndex, 0),
                    NoIndex, AtStart, "idle"))})

SetPosition(w, position) ==
    Then({Ensured(w)}, LAMBDA t :
        LET state == IF Loaded(t) THEN "stopped" ELSE t.p.playingState
            silenced == IF Loaded(t) THEN Silenced(t) ELSE t
        IN  {Persist(ResetRecovery(At(silenced, t.p.currentIndex, position, state)))})

Play(w) ==
    Then({Ensured(w)}, LAMBDA t :
        LET resumed == ResetRecovery([t EXCEPT !.b.paused = FALSE,
                                               !.p.playingState = "playing"])
        IN  Then(IF t.p.playingState = "paused"
                 THEN {IF t.b.heard = NoEntry THEN Refused(t) ELSE resumed}
                 ELSE LoadTrack(t, t.p.currentIndex, t.p.position, TRUE),
                 LAMBDA u : ProcessEvents(u, TRUE)))

\* Neither the preparation nor a scheduled recovery is given up here.
PlayQueueIndexCommand(w, index) ==
    IF ~Valid(w, index) THEN {Refused(w)}
    ELSE Then({IF Loaded(w) THEN SyncPosition(w) ELSE w}, LAMBDA t :
            LET stopped == ClearNativeEvents(StopBackend(t))
                moved == [stopped EXCEPT !.p.playNextQueueLen = AdvancedLen(t, index)]
            IN  Play(Persist(At(moved, index, AtStart, "stopped"))))

\* Events are processed without a session here.
Pause(w) ==
    Then({SyncPosition(w)}, LAMBDA t :
        IF t.b.heard = NoEntry THEN {Refused(t)}
        ELSE LET paused == [t EXCEPT !.b.paused = TRUE, !.p.playingState = "paused",
                                     !.p.resume = Nothing]
             IN  Then(ProcessEvents(paused, FALSE), LAMBDA u : {Persist(u)}))

Stop(w) ==
    Then({SyncPosition(w)}, LAMBDA t :
        {Persist(ResetRecovery(At(Silenced(t), t.p.currentIndex, AtStart, "stopped")))})

\* The backend answers after it has told of the seek; it may fail to seek, or
\* want the track reloaded.
SeekCommand(w, position) ==
    Then({Ensured(w)}, LAMBDA t :
        LET sought(u) == [u EXCEPT !.b.position = position, !.b.ended = FALSE,
                                   !.b.events = Append(@, [kind |-> "seek", stale |-> FALSE])]
            moved(u) == [u EXCEPT !.p.position = position, !.p.resume = Nothing]
        IN  Then(IF PlayingOrPaused(t)
                 THEN Then({SyncPosition(t)}, LAMBDA u : {sought(u), Refused(u)})
                 ELSE {moved(t)},
                 LAMBDA u : ProcessEvents(u, TRUE)))

\* next and prev: the play-next length is adjusted before anything can fail.
MoveTo(w, index) ==
    LET adjusted == [w EXCEPT !.p.playNextQueueLen = AdvancedLen(w, index)]
    IN  Then(IF PlayingOrPaused(w)
             THEN Then({SyncPosition(adjusted)}, LAMBDA t :
                        LoadTrack(t, index, AtStart, ShouldAutoplay(w)))
             ELSE {At(adjusted, index, AtStart, "stopped")},
             LAMBDA t : ProcessEvents(Persist(t), TRUE))

NextCommand(w) ==
    Then({Ensured(w)}, LAMBDA t :
        IF Valid(t, NextIndex(t)) THEN MoveTo(t, NextIndex(t)) ELSE {Refused(t)})

\* Near the start of the track, which is not told from its start.
PrevCommand(w) ==
    Then({Ensured(w)}, LAMBDA t : Then({SyncPosition(t)}, LAMBDA u :
        LET restarted == Then(SeekCommand(u, AtStart), LAMBDA v : {Persist(v)})
        IN  IF u.p.currentIndex = 0 THEN restarted
            ELSE MoveTo(u, u.p.currentIndex - 1)
                    \cup (IF u.p.position = Later THEN restarted ELSE {})))

\* The queue edits give up the preparation; whoever polls next prepares again.
\* Mutant: what was prepared stays.
EditedKeeping(w) == SyncIfPossible(w)
Edited(w) == SyncIfPossible(ClearGapless(w))

InsertCommand(w, items) ==
    LET t == Edited(w)
        n == Len(t.p.queue)
        at == PlayNextEnd(n, t.p.currentIndex, t.p.playNextQueueLen)
        queue == SubSeq(t.p.queue, 1, at) \o items \o SubSeq(t.p.queue, at + 1, n)
        len == ClampedPlayNextLen(n, t.p.currentIndex, t.p.playNextQueueLen) + Len(items)
    IN  {Persist(IF n = 0
                 THEN [WithQueue(t, items, 0, Len(items) - 1) EXCEPT
                         !.p.playingState = "stopped"]
                 ELSE WithQueue(t, queue, t.p.currentIndex, len))}

\* Mutant: not saved.
AppendUnsaved(w, items) ==
    LET t == Edited(w)
    IN  {IF t.p.queue = <<>>
         THEN [WithQueue(t, items, 0, 0) EXCEPT !.p.playingState = "stopped"]
         ELSE [t EXCEPT !.p.queue = @ \o items]}
AppendCommand(w, items) ==
    LET t == Edited(w)
    IN  {Persist(IF t.p.queue = <<>>
                 THEN [WithQueue(t, items, 0, 0) EXCEPT !.p.playingState = "stopped"]
                 ELSE [t EXCEPT !.p.queue = @ \o items])}

MoveCommand(w, moving, before) ==
    LET map == MovedIndexMap(Len(w.p.queue), moving, before)
        t == Edited(w)
        index == IF t.p.currentIndex = NoIndex THEN NoIndex ELSE ItemAt(map, t.p.currentIndex)
        len == AdvancedLen(t, index)
    IN  IF \A i \in Indices(map) : ItemAt(map, i) = i THEN {w}
        ELSE {Persist(WithQueue(t, ApplyIndexMap(t.p.queue, map), index, len))}

\* Removing the current entry while it is loaded goes on with the next one, or
\* with several removed, waits there.  The last one left is not loaded.
AfterRemoval(w, queue, index, len, removedCurrent, reload, autoplay) ==
    LET silenced == IF removedCurrent /\ Loaded(w)
                    THEN ClearNativeEvents(StopBackend(w)) ELSE w
        removed == WithQueue(silenced, queue, index, len)
        state == IF queue = <<>> THEN "idle" ELSE "stopped"
    IN  IF ~removedCurrent THEN {Persist(removed)}
        ELSE IF reload /\ Loaded(w) /\ queue # <<>>
        THEN Then({t \in LoadTrack(At(removed, index, AtStart, state), index, AtStart, autoplay) :
                        "save" \in windows \/ ~t.refused},
                  LAMBDA t : ProcessEvents(Persist(t), TRUE))
        ELSE {Persist(At(removed, index, AtStart, state))}

RemoveIndexCommand(w, index) ==
    LET n == Len(w.p.queue)
        removingCurrent == w.p.currentIndex = index
        consumes == /\ w.p.playNextQueueLen > 0
                    /\ \/ removingCurrent
                       \/ index \in PlayNextRegion(n, w.p.currentIndex, w.p.playNextQueueLen)
        len == IF consumes THEN w.p.playNextQueueLen - 1 ELSE w.p.playNextQueueLen
        current == IF w.p.currentIndex = NoIndex \/ n = 1 THEN NoIndex
                   ELSE IF w.p.currentIndex > index THEN w.p.currentIndex - 1
                   ELSE IF removingCurrent /\ index = n - 1 THEN n - 2
                   ELSE w.p.currentIndex
        synced == IF removingCurrent THEN SyncPosition(w) ELSE SyncIfPossible(w)
    IN  Then({synced}, LAMBDA t :
            AfterRemoval(ClearGapless(t), ApplyIndexMap(w.p.queue, RemovedIndexMap(n, {index})),
                         current, len, removingCurrent, TRUE, ShouldAutoplay(w)))

RemoveIndicesCommand(w, removing) ==
    LET n == Len(w.p.queue)
        map == RemovedIndexMap(n, removing)
        removedCurrent == w.p.currentIndex \in removing
        after == {i \in Survivors(map) : removedCurrent /\ i > w.p.currentIndex}
        replacement == IF after = {} THEN NoIndex ELSE CHOOSE i \in after : \A j \in after : i <= j
        kept == (Survivors(map) \ {replacement})
                    \cap PlayNextRegion(n, w.p.currentIndex, w.p.playNextQueueLen)
        left == Cardinality(Survivors(map))
        current == IF w.p.currentIndex = NoIndex \/ left = 0 THEN NoIndex
                   ELSE IF ~removedCurrent THEN ItemAt(map, w.p.currentIndex)
                   ELSE IF after # {} THEN ItemAt(map, replacement)
                   ELSE left - 1
        synced == IF removedCurrent THEN SyncPosition(w) ELSE SyncIfPossible(w)
    IN  Then({synced}, LAMBDA t :
            AfterRemoval(ClearGapless(t), ApplyIndexMap(w.p.queue, map), current,
                         Cardinality(kept), removedCurrent, after # {}, FALSE))

\* apply_connect_shared_state.  A device that is not the active one shows what
\* plays elsewhere; the active one starts over, unless it plays it already.
\* Mutant: whatever song it is.
PreservesAnySong(w, shared) ==
    PlayingOrPaused(w) /\ w.p.playingState = shared.playingState
Preserves(w, shared) ==
    /\ PlayingOrPaused(w) /\ w.p.playingState = shared.playingState
    /\ w.p.currentIndex # NoIndex /\ shared.currentIndex # NoIndex
    /\ SongAt(w.p.queue, w.p.currentIndex) = SongAt(shared.queue, shared.currentIndex)

ApplySharedCommand(w, shared, active, mayPreserve) ==
    LET here == [w EXCEPT !.p.active = active]
        adopted(t) == WithQueue(t, shared.queue, shared.currentIndex, shared.playNextQueueLen)
        preserved == [adopted(ClearGapless(SyncIfPossible(here))) EXCEPT !.p.resume = Nothing]
        replaced(state) ==
            Persist(At(adopted(Silenced(here)), shared.currentIndex, shared.position, state))
        started == Play(replaced("stopped"))
    IN  IF mayPreserve /\ active /\ Preserves(w, shared)
        THEN {Persist(t) : t \in SyncGapless(preserved)}
        ELSE IF shared.queue = <<>>
        THEN {Persist(At(adopted(Silenced(here)), NoIndex, AtStart, "idle"))}
        ELSE IF ~active THEN {replaced(shared.playingState)}
        ELSE CASE shared.playingState = "playing" -> started
               [] shared.playingState = "paused" -> Then(started, Pause)
               [] OTHER -> {[replaced("stopped") EXCEPT
                               !.p.playingState = IF shared.playingState \in {"stopped", "idle"}
                                                  THEN shared.playingState ELSE @]}

\* Logging in again: reset, and restore_state from the file.  A recovery that is
\* scheduled stays scheduled.
SwitchProfile(w) ==
    {[Silenced(w) EXCEPT !.p = [Restored(w.saved) EXCEPT
        !.gapless = w.p.gapless, !.attempts = w.p.attempts, !.plan = w.p.plan]]}

\* The device may be refused, and the old one plays on; the reload may fail, and
\* nothing plays.
SetOutputDevice(w) ==
    LET failed(t) == ClearGapless([ToError(t) EXCEPT !.p.position = w.b.position])
    IN  IF ~PlayingOrPaused(w)
        THEN {Persist(ResetRecovery(ClearGapless(w)))}
        ELSE Then(Then({Ensured(w)}, LAMBDA t : {SyncPosition(t)}), LAMBDA t :
                {t} \cup {IF r.refused THEN failed(r) ELSE Persist(ResetRecovery(r)) :
                            r \in ReloadExact(Silenced(t), t.p.currentIndex, t.p.position,
                                              Playing(w))})

\* set_gapless_playback_enabled; set_stream_settings prepares anew.
SetGapless(w) == SyncGapless([w EXCEPT !.p.gapless = ~@])
SetStreamSettings(w) == SyncGapless(ClearGapless(w))

\* synced_state_with_context, what a poll of the status does.
Poll(w) ==
    Then(ProcessEvents(w, TRUE), LAMBDA t : Then({SyncPosition(t)}, SyncGapless))

-----------------------------------------------------------------------------
\* Steps of the controller.

Becomes(worlds) ==
    \E w \in worlds : player' = w.p /\ backend' = w.b /\ saved' = w.saved

\* A command of the user, who drives this device.
Perform(worlds) ==
    /\ count.calls < MaxCalls
    /\ "events" \in windows \/ backend.events = <<>>
    /\ Becomes(worlds)
    /\ count' = [count EXCEPT !.calls = @ + 1, !.recovered = 0]
    /\ UNCHANGED <<windows, reports>>

\* One that moves or replaces the current entry and may leave a recovery scheduled.
Recovering == player.plan # NoPlan
Relocation(worlds) == ("recovery" \in windows \/ ~Recovering) /\ Perform(worlds)

Positions == {AtStart, Later}
Here == player.active
Below(n) == 0 .. n - 1

SetQueueOrPosition ==
    /\ Here
    /\ \/ \E queue \in Queues : \E index \in Indices(queue) \cup {NoIndex} :
            Perform(SetQueueCommand(World, queue, index))
       \/ Perform(ClearQueueCommand(World))
       \/ \E position \in Positions : Perform(SetPosition(World, position))

EditQueue ==
    /\ Here
    /\ LET n == Len(player.queue)
           unused == Entries \ Range(player.queue)
       IN  \/ \E entry \in unused : \/ Perform(InsertCommand(World, <<entry>>))
                                    \/ Perform(AppendCommand(World, <<entry>>))
           \/ \E i \in Below(n), before \in 0 .. n : Relocation(MoveCommand(World, {i}, before))
           \/ \E i \in Below(n) : Relocation(RemoveIndexCommand(World, i))
           \/ \E removing \in SUBSET Below(n) :
                removing # {} /\ Relocation(RemoveIndicesCommand(World, removing))

PlayOrPause ==
    /\ Here
    /\ \/ Perform(Play(World))
       \/ ("stall" \in windows \/ Loaded(World)) /\ Perform(Pause(World))
StopPlaying == Here /\ Perform(Stop(World))
\* Waiting for a backend that is buffering.
Stalled == player.playingState = "interrupted" /\ ~Recovering
Seek ==
    /\ Here /\ ("stall" \in windows \/ ~Stalled)
    /\ \E position \in Positions : Perform(SeekCommand(World, position))

PlayQueueIndexHere ==
    Here /\ \E i \in Below(Len(player.queue)) : Relocation(PlayQueueIndexCommand(World, i))

Skip ==
    /\ Here /\ ("stall" \in windows \/ ~Stalled)
    /\ Relocation(NextCommand(World)) \/ Relocation(PrevCommand(World))

ChangeSettings ==
    \/ Perform(SetOutputDevice(World))
    \/ Perform(SetGapless(World))
    \/ Perform(SetStreamSettings(World))

LogInAgain == Relocation(SwitchProfile(World))

\* Connect brings the shared state, to a device that plays it or shows it.  What
\* plays is preserved only where the device was the active one before.
ApplyShared ==
    \E queue \in Queues, state \in {"playing", "paused", "stopped"},
       active, mayPreserve \in BOOLEAN :
        /\ mayPreserve => player.active /\ active
        /\ Relocation(ApplySharedCommand(World,
              [queue |-> queue, currentIndex |-> Len(queue) - 1, playNextQueueLen |-> 0,
               position |-> Later, playingState |-> state], active, mayPreserve))

Recovered(old, new) ==
    IF old # NoPlan /\ (new = NoPlan \/ new.attempt > old.attempt) THEN 1 ELSE 0

\* Whoever gets the lock to process events, or to read the status.
Dispatch(worlds) ==
    /\ Becomes(worlds)
    /\ count' = [count EXCEPT !.recovered =
                    IF player'.currentIndex # player.currentIndex THEN 0
                    ELSE @ + Recovered(player.plan, player'.plan)]
    /\ UNCHANGED <<windows, reports>>

ProcessNativeEvents ==
    /\ backend.events # <<>> \/ Recovering
    /\ Dispatch(ProcessEvents(World, TRUE))

PollState == Dispatch(Poll(World))

\* The app exits, which saves the position, or crashes.
Restart ==
    /\ count.calls < MaxCalls
    /\ count' = [count EXCEPT !.calls = @ + 1, !.recovered = 0]
    /\ \/ /\ saved' \in {saved, Persist(IF Playing(World) THEN SyncIfPossible(World)
                                        ELSE World).saved}
          /\ player' = Restored(saved')
       \/ /\ "save" \in windows
          /\ saved' = [queue |-> <<>>, currentIndex |-> NoIndex, playNextQueueLen |-> 0,
                       position |-> AtStart]
          /\ player' = Restored(saved')
    /\ backend' = SilentBackend
    /\ UNCHANGED <<windows, reports>>

-----------------------------------------------------------------------------
\* Steps of the backend, in short what TrackPipeline and GaplessBackend do.

BackendOnly == UNCHANGED <<windows, reports, player, saved>>
Pushed(b, kind) ==
    [b EXCEPT !.events = Append(@, [kind |-> kind, stale |-> FALSE])]
Sounding == backend.heard # NoEntry /\ ~backend.paused
Failed == \E i \in DOMAIN backend.events : backend.events[i].kind = "error"

Prepared ==
    /\ backend.next.state = "preparing"
    /\ \/ \E state \in {"stored"} \cup (IF backend.heard = NoEntry THEN {} ELSE {"installed"}) :
            backend' = Pushed([backend EXCEPT !.next.state = state], "prepared")
       \/ backend' = Pushed([backend EXCEPT !.next = NoNext], "failed")
    /\ BackendOnly /\ UNCHANGED count

\* The end of the track, or the handover to the one installed, even if the end
\* was told already.
TrackEnds ==
    /\ Sounding
    /\ "recovery" \in windows \/ ~Failed
    /\ \/ /\ backend.next.state = "installed"
          /\ "events" \in windows \/ ~backend.ended
          /\ backend' = Pushed([backend EXCEPT
                !.heard = backend.next.entry, !.next = NoNext, !.position = AtStart,
                !.ended = FALSE], "transition")
       \/ /\ backend.next.state # "installed" /\ ~backend.ended
          /\ backend' = Pushed([backend EXCEPT !.ended = TRUE], "ended")
    /\ BackendOnly /\ UNCHANGED count

PlayOn ==
    /\ Sounding /\ ~backend.ended /\ backend.position = AtStart
    /\ backend' = [backend EXCEPT !.position = Later]
    /\ BackendOnly /\ UNCHANGED count

\* The stream fails, the player does, or it reports a state.
Trouble ==
    /\ backend.heard # NoEntry /\ count.troubles < MaxTroubles
    /\ \E kind \in reports :
         /\ IF kind = "error" THEN ~Failed ELSE ~backend.ended
         /\ backend' = Pushed([backend EXCEPT
                !.paused = CASE kind = "paused" -> TRUE
                             [] kind = "playing" -> FALSE
                             [] OTHER -> @,
                !.ended = (kind = "failure") \/ @], kind)
    /\ count' = [count EXCEPT !.troubles = @ + 1]
    /\ BackendOnly

-----------------------------------------------------------------------------
Calls ==
    \/ SetQueueOrPosition \/ EditQueue \/ PlayOrPause \/ StopPlaying \/ Seek
    \/ PlayQueueIndexHere \/ Skip \/ ChangeSettings \/ LogInAgain \/ ApplyShared

Next ==
    \/ Calls
    \/ ProcessNativeEvents
    \/ PollState
    \/ Restart
    \/ Prepared
    \/ TrackEnds
    \/ PlayOn
    \/ Trouble

Spec == Init /\ [][Next]_vars

-----------------------------------------------------------------------------
Settled == backend.events = <<>> /\ player.plan = NoPlan /\ player.active

\* What is shown as playing or paused is the song that is heard or held, and has
\* not ended, through gapless transitions, ends, recoveries and queue edits; and
\* what is shown as stopped is silent.
StatusIsHeard ==
    Settled /\ windows \cap {"events", "stall"} = {} =>
      /\ player.playingState \in {"playing", "paused"} =>
           /\ Valid(World, player.currentIndex)
           /\ backend.heard # NoEntry /\ ~backend.ended
           /\ SongOf[backend.heard] = SongAt(player.queue, player.currentIndex)
           /\ backend.paused = (player.playingState = "paused")
      /\ player.playingState \in {"stopped", "idle"} => ~Sounding \/ backend.ended

\* What is prepared is what would be heard next, once no event waits
\* (GaplessTransition names no generation: the controller takes what it prepared
\* last for what is heard).  On the desktop in every window; on Android, whose
\* player goes on, stalls and fails by itself, on the device that plays, and not
\* where a command overtakes that.
PreparedIsNext ==
    (/\ backend.events = <<>> /\ PlayingOrPaused(World) /\ player.prepared.state = "ready"
     /\ \/ reports \subseteq Desktop
        \/ player.active /\ windows \cap {"events", "stall"} = {})
        => /\ IsTarget(World, player.currentIndex + 1)
           /\ backend.next.state \in {"stored", "installed"}
           /\ SongOf[backend.next.entry] = player.prepared.song

\* A stream that keeps failing is given up after three attempts
\* (output_stream_recovery_attempts survives a reload that works), and until
\* then what was current when it failed is loaded again, not another track.
RecoveryIsOrderly ==
    /\ count.recovered <= MaxAttempts
    /\ player.plan # NoPlan /\ "recovery" \notin windows
         => player.plan.index = player.currentIndex

\* The state file holds the queue, whatever was edited, and however a load that
\* followed failed.
SavedQueue == "save" \notin windows => saved.queue = player.queue

=============================================================================
