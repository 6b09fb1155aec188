----------------------- MODULE PlaybackControllerProofs -----------------------
(***************************************************************************)
(* Theorems about the playback controller.  For any queues, any number of  *)
(* commands and reports, and a backend of either kind: the state file      *)
(* holds the queue, a stream that keeps failing is given up, what is       *)
(* prepared is what comes next, and the status shown is what is heard.     *)
(*                                                                         *)
(* The invariant (Sound) is one of worlds, not of states: a command is a   *)
(* function of a world, and goes through several that are no states.  It   *)
(* relates the controller to the backend through the events that wait      *)
(* between them, so that it can be followed through a batch of events,     *)
(* each handled in the world the one before left (SoundAfter).             *)
(***************************************************************************)
EXTENDS PlaybackController, PlaybackRoomProofs

\* A world, with what its fields may be.
Worlds == [p: Player, b: Backend, saved: Saved, refused: BOOLEAN, taken: Seq(NativeEvents)]

\* What the invariant reads of a player and of a backend.
PlayerIs(p, queue, index, state, resume, active, prepared, attempts, plan) ==
    /\ p \in Player
    /\ p.queue = queue /\ p.currentIndex = index
    /\ p.playingState = state /\ p.resume = resume /\ p.active = active
    /\ p.prepared = prepared /\ p.attempts = attempts /\ p.plan = plan
BackendIs(b, heard, paused, ended, next, events) ==
    /\ b \in Backend
    /\ b.heard = heard /\ b.paused = paused /\ b.ended = ended
    /\ b.next = next /\ b.events = events

\* The rest of a world.
WorldIs(w, file, refused, taken) ==
    w \in Worlds /\ w.saved = file /\ w.refused = refused /\ w.taken = taken

LEMMA Values ==
  /\ NoNext \in NextTracks /\ NoPrepared \in PreparedTracks /\ NoPlan \in Plans
  /\ AtStart \in {AtStart, Later} /\ <<>> \in Seq(NativeEvents)
  /\ NoIndex \in Int /\ Nothing \in PlayingStates \cup {Nothing}
  /\ NoNext.entry = NoEntry /\ NoNext.state = Nothing
  /\ NoPrepared.state = Nothing /\ NoPrepared.index = NoIndex
  /\ NoPlan.attempt = 0 /\ NoPlan.index = NoIndex
BY DEF NoNext, NextTracks, NoPrepared, PreparedTracks, NoPlan, Plans, Nothing, NoIndex,
       AtStart, MaxAttempts

\* The fields of a player, and of a backend.
LEMMA PlayerFields ==
  ASSUME NEW p \in Player
  PROVE  /\ p.queue \in Seq(Entries) /\ Len(p.queue) \in Nat
         /\ p.currentIndex \in Int /\ p.playNextQueueLen \in Nat
         /\ p.position \in {AtStart, Later} /\ p.playingState \in PlayingStates
         /\ p.resume \in PlayingStates \cup {Nothing} /\ p.gapless \in BOOLEAN
         /\ p.active \in BOOLEAN /\ p.prepared \in PreparedTracks
         /\ p.attempts \in 0 .. MaxAttempts /\ p.plan \in Plans
BY DEF Player

LEMMA BackendFields ==
  ASSUME NEW b \in Backend
  PROVE  /\ b.heard \in Entries \cup {NoEntry} /\ b.paused \in BOOLEAN
         /\ b.position \in {AtStart, Later} /\ b.ended \in BOOLEAN
         /\ b.next \in NextTracks /\ b.events \in Seq(NativeEvents)
BY DEF Backend

LEMMA WorldFields ==
  ASSUME NEW w \in Worlds
  PROVE  /\ w.p \in Player /\ w.b \in Backend /\ w.saved \in Saved
         /\ w.refused \in BOOLEAN /\ w.taken \in Seq(NativeEvents)
         /\ WorldIs(w, w.saved, w.refused, w.taken)
         /\ PlayerIs(w.p, w.p.queue, w.p.currentIndex, w.p.playingState, w.p.resume,
                     w.p.active, w.p.prepared, w.p.attempts, w.p.plan)
         /\ BackendIs(w.b, w.b.heard, w.b.paused, w.b.ended, w.b.next, w.b.events)
BY DEF Worlds, WorldIs, PlayerIs, BackendIs

\* A world with another player or another backend.
LEMMA WithPlayer ==
  ASSUME NEW w \in Worlds, NEW p \in Player
  PROVE  /\ WorldIs([w EXCEPT !.p = p], w.saved, w.refused, w.taken)
         /\ [w EXCEPT !.p = p].p = p /\ [w EXCEPT !.p = p].b = w.b
BY DEF Worlds, WorldIs

LEMMA WithBackend ==
  ASSUME NEW w \in Worlds, NEW b \in Backend
  PROVE  /\ WorldIs([w EXCEPT !.b = b], w.saved, w.refused, w.taken)
         /\ [w EXCEPT !.b = b].b = b /\ [w EXCEPT !.b = b].p = w.p
BY DEF Worlds, WorldIs

LEMMA AllStaleEvents ==
  ASSUME NEW events \in Seq(NativeEvents)
  PROVE  /\ AllStale(events) \in Seq(NativeEvents)
         /\ DOMAIN AllStale(events) = DOMAIN events
         /\ Len(AllStale(events)) = Len(events)
         /\ \A i \in DOMAIN events : /\ AllStale(events)[i].kind = events[i].kind
                                     /\ AllStale(events)[i].stale = TRUE
<1>. DEFINE gone(e) == [e EXCEPT !.stale = TRUE]
<1>1. \A e \in NativeEvents :
        gone(e) \in NativeEvents /\ gone(e).kind = e.kind /\ gone(e).stale = TRUE
  BY DEF NativeEvents
<1>2. \A i \in DOMAIN events : AllStale(events)[i] = gone(events[i])
  BY DEF AllStale
<1>3. AllStale(events) = [i \in 1 .. Len(events) |-> gone(events[i])]
  BY DEF AllStale
<1>. HIDE DEF gone
<1>4. AllStale(events) \in [1 .. Len(events) -> NativeEvents]
  BY <1>1, <1>3
<1>. QED BY <1>1, <1>2, <1>4

LEMMA DroppedNext ==
  ASSUME NEW w \in Worlds
  PROVE  /\ WorldIs(DropNext(w), w.saved, w.refused, AllStale(w.taken))
         /\ DropNext(w).p = w.p
         /\ BackendIs(DropNext(w).b, w.b.heard, w.b.paused, w.b.ended, NoNext,
                      AllStale(w.b.events))
<1>. DEFINE e == AllStale(w.b.events)
            t == AllStale(w.taken)
            b == [w.b EXCEPT !.next = NoNext, !.events = e]
<1>1. e \in Seq(NativeEvents) /\ t \in Seq(NativeEvents)
  BY AllStaleEvents DEF Worlds, Backend
<1>2. DropNext(w) = [[w EXCEPT !.b = b] EXCEPT !.taken = t]
  BY DEF DropNext, Worlds
<1>. HIDE DEF e, t
<1>3. BackendIs(b, w.b.heard, w.b.paused, w.b.ended, NoNext, e)
  BY <1>1, Values DEF Backend, BackendIs, Worlds
<1>. HIDE DEF b
<1>4. b \in Backend
  BY <1>3 DEF BackendIs
<1>. QED BY <1>1, <1>2, <1>3, <1>4 DEF Worlds, WorldIs, e, t

LEMMA ClearedEvents ==
  ASSUME NEW w \in Worlds
  PROVE  /\ WorldIs(ClearNativeEvents(w), w.saved, w.refused, w.taken)
         /\ ClearNativeEvents(w).p = w.p
         /\ BackendIs(ClearNativeEvents(w).b, w.b.heard, w.b.paused, w.b.ended, w.b.next, <<>>)
<1>. DEFINE b == [w.b EXCEPT !.events = <<>>]
<1>1. BackendIs(b, w.b.heard, w.b.paused, w.b.ended, w.b.next, <<>>)
  BY Values DEF Backend, BackendIs, Worlds
<1>2. ClearNativeEvents(w) = [w EXCEPT !.b = b]
  BY DEF ClearNativeEvents
<1>. HIDE DEF b
<1>. QED BY <1>1, <1>2, WithBackend DEF BackendIs

LEMMA StoppedBackend ==
  ASSUME NEW w \in Worlds
  PROVE  /\ WorldIs(StopBackend(w), w.saved, w.refused, AllStale(w.taken))
         /\ StopBackend(w).p = w.p
         /\ BackendIs(StopBackend(w).b, NoEntry, w.b.paused, w.b.ended, NoNext,
                      AllStale(w.b.events))
<1>. DEFINE d == DropNext(w)
            b == [d.b EXCEPT !.heard = NoEntry]
<1>1. StopBackend(w) = [d EXCEPT !.b = b]
  BY DEF StopBackend
<1>2. /\ WorldIs(d, w.saved, w.refused, AllStale(w.taken)) /\ d.p = w.p
      /\ BackendIs(d.b, w.b.heard, w.b.paused, w.b.ended, NoNext, AllStale(w.b.events))
  BY DroppedNext
<1>. HIDE DEF d
<1>3. BackendIs(b, NoEntry, w.b.paused, w.b.ended, NoNext, AllStale(w.b.events))
  BY <1>2 DEF Backend, BackendIs
<1>. HIDE DEF b
<1>. QED BY <1>1, <1>2, <1>3, WithBackend DEF WorldIs, BackendIs

LEMMA HeardWorld ==
  ASSUME NEW w \in Worlds, NEW entry \in Entries, NEW position \in {AtStart, Later},
         NEW autoplay \in BOOLEAN
  PROVE  /\ WorldIs(Heard(w, entry, position, autoplay), w.saved, w.refused,
                    AllStale(w.taken))
         /\ Heard(w, entry, position, autoplay).p = w.p
         /\ BackendIs(Heard(w, entry, position, autoplay).b, entry, ~autoplay, FALSE, NoNext,
                      <<>>)
<1>. DEFINE d == DropNext(w)
            b == [heard |-> entry, paused |-> ~autoplay, position |-> position,
                  ended |-> FALSE, next |-> NoNext, events |-> <<>>]
<1>1. Heard(w, entry, position, autoplay) = [d EXCEPT !.b = b]
  BY DEF Heard
<1>2. WorldIs(d, w.saved, w.refused, AllStale(w.taken)) /\ d.p = w.p
  BY DroppedNext
<1>3. BackendIs(b, entry, ~autoplay, FALSE, NoNext, <<>>)
  BY Values DEF Backend, BackendIs
<1>. HIDE DEF d, b
<1>. QED BY <1>1, <1>2, <1>3, WithBackend DEF WorldIs, BackendIs

LEMMA ClearedGapless ==
  ASSUME NEW w \in Worlds
  PROVE  /\ ClearGapless(w) \in Worlds
         /\ ClearGapless(w).saved = w.saved /\ ClearGapless(w).refused = w.refused
         /\ PlayerIs(ClearGapless(w).p, w.p.queue, w.p.currentIndex, w.p.playingState,
                     w.p.resume, w.p.active, NoPrepared, w.p.attempts, w.p.plan)
         /\ w.p.prepared = NoPrepared => ClearGapless(w) = w
         /\ w.p.prepared # NoPrepared =>
              /\ ClearGapless(w).taken = AllStale(w.taken)
              /\ BackendIs(ClearGapless(w).b, w.b.heard, w.b.paused, w.b.ended, NoNext,
                           AllStale(w.b.events))
<1>1. CASE w.p.prepared = NoPrepared
  BY <1>1 DEF ClearGapless, Worlds, PlayerIs
<1>2. CASE w.p.prepared # NoPrepared
  <2>. DEFINE p == [w.p EXCEPT !.prepared = NoPrepared]
              d == [w EXCEPT !.p = p]
  <2>1. PlayerIs(p, w.p.queue, w.p.currentIndex, w.p.playingState,
                 w.p.resume, w.p.active, NoPrepared, w.p.attempts, w.p.plan)
    BY Values DEF Worlds, Player, PlayerIs
  <2>2. ClearGapless(w) = DropNext(d)
    BY <1>2 DEF ClearGapless
  <2>. HIDE DEF p
  <2>3. WorldIs(d, w.saved, w.refused, w.taken) /\ d.p = p /\ d.b = w.b
    BY <2>1, WithPlayer DEF PlayerIs
  <2>. HIDE DEF d
  <2>. QED BY <1>2, <2>1, <2>2, <2>3, DroppedNext DEF WorldIs
<1>. QED BY <1>1, <1>2

\* What is left where everything was silenced: nothing is heard, prepared or waits.
LEMMA SilencedWorld ==
  ASSUME NEW w \in Worlds
  PROVE  /\ Silenced(w) \in Worlds
         /\ Silenced(w).saved = w.saved /\ Silenced(w).refused = w.refused
         /\ PlayerIs(Silenced(w).p, w.p.queue, w.p.currentIndex, w.p.playingState,
                     w.p.resume, w.p.active, NoPrepared, w.p.attempts, w.p.plan)
         /\ BackendIs(Silenced(w).b, NoEntry, w.b.paused, w.b.ended, NoNext, <<>>)
<1>. DEFINE s == StopBackend(w)
            c == ClearGapless(s)
<1>1. /\ WorldIs(s, w.saved, w.refused, AllStale(w.taken)) /\ s.p = w.p
      /\ BackendIs(s.b, NoEntry, w.b.paused, w.b.ended, NoNext, AllStale(w.b.events))
  BY StoppedBackend
<1>. HIDE DEF s
<1>2. /\ c \in Worlds /\ c.saved = w.saved /\ c.refused = w.refused
      /\ PlayerIs(c.p, w.p.queue, w.p.currentIndex, w.p.playingState,
                     w.p.resume, w.p.active, NoPrepared, w.p.attempts, w.p.plan)
  BY <1>1, ClearedGapless DEF WorldIs
<1>3. BackendIs(c.b, NoEntry, w.b.paused, w.b.ended, NoNext, c.b.events)
  <2>1. s \in Worlds
    BY <1>1 DEF WorldIs
  <2>2. CASE s.p.prepared = NoPrepared
    BY <2>1, <2>2, <1>1, ClearedGapless DEF BackendIs
  <2>3. CASE s.p.prepared # NoPrepared
    BY <2>1, <2>3, <1>1, ClearedGapless DEF BackendIs
  <2>. QED BY <2>2, <2>3
<1>4. Silenced(w) = ClearNativeEvents(c)
  BY DEF Silenced, s
<1>. HIDE DEF c
<1>. QED BY <1>2, <1>3, <1>4, ClearedEvents DEF WorldIs, BackendIs

\* The same player, as far as the invariant reads it.
PlayerLike(p, old) ==
    PlayerIs(p, old.queue, old.currentIndex, old.playingState, old.resume, old.active,
             old.prepared, old.attempts, old.plan)

LEMMA RefusedWorld ==
  ASSUME NEW w \in Worlds
  PROVE  /\ WorldIs(Refused(w), w.saved, TRUE, w.taken)
         /\ Refused(w).p = w.p /\ Refused(w).b = w.b
BY DEF Refused, Worlds, WorldIs

LEMMA SyncedWorld ==
  ASSUME NEW w \in Worlds
  PROVE  /\ WorldIs(SyncPosition(w), w.saved, SyncPosition(w).refused, w.taken)
         /\ SyncPosition(w).b = w.b /\ PlayerLike(SyncPosition(w).p, w.p)
         /\ SyncPosition(w).refused
              <=> (w.refused \/ (PlayingOrPaused(w) /\ w.b.heard = NoEntry))
         /\ WorldIs(SyncIfPossible(w), w.saved, FALSE, w.taken)
         /\ SyncIfPossible(w).b = w.b /\ PlayerLike(SyncIfPossible(w).p, w.p)
<1>. DEFINE p == [w.p EXCEPT !.position = w.b.position]
            s == SyncPosition(w)
<1>1. PlayerLike(p, w.p) /\ PlayerLike(w.p, w.p)
  BY DEF Worlds, Player, Backend, PlayerLike, PlayerIs
<1>2. \/ s = w /\ (w.refused <=> w.refused \/ (PlayingOrPaused(w) /\ w.b.heard = NoEntry))
      \/ s = Refused(w) /\ PlayingOrPaused(w) /\ w.b.heard = NoEntry
      \/ s = [w EXCEPT !.p = p] /\ ~(PlayingOrPaused(w) /\ w.b.heard = NoEntry)
  BY DEF SyncPosition
<1>3. SyncIfPossible(w) = [s EXCEPT !.refused = FALSE]
  BY DEF SyncIfPossible
<1>. HIDE DEF p, s
<1>4. /\ WorldIs(s, w.saved, s.refused, w.taken) /\ s.b = w.b /\ PlayerLike(s.p, w.p)
      /\ s.refused <=> (w.refused \/ (PlayingOrPaused(w) /\ w.b.heard = NoEntry))
  <2>1. CASE s = w /\ (w.refused <=> w.refused \/ (PlayingOrPaused(w) /\ w.b.heard = NoEntry))
    BY <1>1, <2>1, WorldFields
  <2>2. CASE s = Refused(w) /\ PlayingOrPaused(w) /\ w.b.heard = NoEntry
    BY <1>1, <2>2, RefusedWorld DEF WorldIs
  <2>3. CASE s = [w EXCEPT !.p = p] /\ ~(PlayingOrPaused(w) /\ w.b.heard = NoEntry)
    BY <1>1, <2>3, WithPlayer DEF WorldIs, PlayerLike, PlayerIs
  <2>. QED BY <1>2, <2>1, <2>2, <2>3
<1>. QED BY <1>3, <1>4 DEF Worlds, WorldIs, s

LEMMA PreparedWorld ==
  ASSUME NEW w \in Worlds, NEW state \in {"preparing", "failed"},
         NextIndex(w) \in Indices(w.p.queue)
  PROVE  /\ WorldIs(PreparedAs(w, state), w.saved, w.refused, w.taken)
         /\ PreparedAs(w, state).b = w.b
         /\ PreparedAs(w, state).p.prepared
              = [state |-> state, index |-> w.p.currentIndex + 1,
                 song |-> SongAt(w.p.queue, w.p.currentIndex + 1)]
         /\ PreparedAs(w, state).p.prepared # NoPrepared
         /\ PlayerIs(PreparedAs(w, state).p, w.p.queue, w.p.currentIndex, w.p.playingState,
                     w.p.resume, w.p.active, PreparedAs(w, state).p.prepared, w.p.attempts,
                     w.p.plan)
<1>. DEFINE next == w.p.currentIndex + 1
            prepared == [state |-> state, index |-> next, song |-> SongAt(w.p.queue, next)]
            p == [w.p EXCEPT !.prepared = prepared]
<1>1. w.p.queue \in Seq(Entries) /\ w.p.currentIndex \in Int
  BY WorldFields, PlayerFields
<1>2. next \in Int /\ SongAt(w.p.queue, next) \in Songs
  <2>1. next \in Indices(w.p.queue)
    BY DEF NextIndex
  <2>2. ItemAt(w.p.queue, next) \in Entries
    BY <1>1, <2>1 DEF Indices, ItemAt
  <2>. QED BY <1>1, <2>2, SongOfAssumption DEF SongAt
<1>3. prepared \in PreparedTracks /\ prepared.state = state
  BY <1>2 DEF PreparedTracks
<1>4. PreparedAs(w, state) = [w EXCEPT !.p = p]
  BY DEF PreparedAs, NextIndex
<1>5. prepared # NoPrepared
  BY <1>3, Values DEF Nothing
<1>. HIDE DEF prepared
<1>6. PlayerIs(p, w.p.queue, w.p.currentIndex, w.p.playingState,
                     w.p.resume, w.p.active, prepared, w.p.attempts, w.p.plan)
  BY <1>3 DEF Worlds, Player, PlayerIs
<1>. HIDE DEF p
<1>. QED BY <1>4, <1>5, <1>6, WithPlayer DEF PlayerIs, prepared

LEMMA PersistedWorld ==
  ASSUME NEW w \in Worlds
  PROVE  /\ WorldIs(Persist(w), Persist(w).saved, w.refused, w.taken)
         /\ Persist(w).b = w.b /\ Persist(w).p = w.p
         /\ Persist(w).saved.queue = w.p.queue
         /\ Persist(w).saved.currentIndex = w.p.currentIndex
<1>. DEFINE file == [queue |-> w.p.queue, currentIndex |-> w.p.currentIndex,
                     playNextQueueLen |-> w.p.playNextQueueLen, position |-> w.p.position]
<1>1. Persist(w) = [w EXCEPT !.saved = file]
  BY DEF Persist
<1>2. file \in Saved /\ file.queue = w.p.queue /\ file.currentIndex = w.p.currentIndex
  BY WorldFields, PlayerFields DEF Saved
<1>. HIDE DEF file
<1>. QED BY <1>1, <1>2 DEF Worlds, WorldIs

LEMMA ResetWorld ==
  ASSUME NEW w \in Worlds
  PROVE  /\ WorldIs(ResetRecovery(w), w.saved, w.refused, w.taken)
         /\ ResetRecovery(w).b = w.b
         /\ PlayerIs(ResetRecovery(w).p, w.p.queue, w.p.currentIndex, w.p.playingState,
                     w.p.resume, w.p.active, w.p.prepared, 0, NoPlan)
<1>. DEFINE p == [w.p EXCEPT !.attempts = 0, !.plan = NoPlan]
<1>1. ResetRecovery(w) = [w EXCEPT !.p = p]
  BY DEF ResetRecovery, Worlds
<1>2. PlayerIs(p, w.p.queue, w.p.currentIndex, w.p.playingState,
                     w.p.resume, w.p.active, w.p.prepared, 0, NoPlan)
  <2>1. 0 \in 0 .. MaxAttempts
    BY DEF MaxAttempts
  <2>. QED BY <2>1, Values DEF Worlds, Player, PlayerIs
<1>. HIDE DEF p
<1>. QED BY <1>1, <1>2, WithPlayer DEF PlayerIs

LEMMA AtWorld ==
  ASSUME NEW w \in Worlds, NEW index \in Int, NEW position \in {AtStart, Later},
         NEW state \in PlayingStates
  PROVE  /\ WorldIs(At(w, index, position, state), w.saved, w.refused, w.taken)
         /\ At(w, index, position, state).b = w.b
         /\ PlayerIs(At(w, index, position, state).p, w.p.queue, index, state, Nothing,
                     w.p.active, w.p.prepared, w.p.attempts, w.p.plan)
<1>. DEFINE p == [w.p EXCEPT !.currentIndex = index, !.position = position,
                             !.playingState = state, !.resume = Nothing]
<1>1. At(w, index, position, state) = [w EXCEPT !.p = p]
  BY DEF At, Worlds
<1>2. PlayerIs(p, w.p.queue, index, state, Nothing,
                     w.p.active, w.p.prepared, w.p.attempts, w.p.plan)
  BY Values DEF Worlds, Player, PlayerIs
<1>. HIDE DEF p
<1>. QED BY <1>1, <1>2, WithPlayer DEF PlayerIs

LEMMA ErrorWorld ==
  ASSUME NEW w \in Worlds
  PROVE  /\ WorldIs(ToError(w), w.saved, w.refused, w.taken)
         /\ ToError(w).b = w.b
         /\ PlayerIs(ToError(w).p, w.p.queue, w.p.currentIndex, "error", Nothing,
                     w.p.active, w.p.prepared, w.p.attempts, w.p.plan)
<1>. DEFINE p == [w.p EXCEPT !.playingState = "error", !.resume = Nothing]
<1>1. ToError(w) = [w EXCEPT !.p = p]
  BY DEF ToError, Worlds
<1>2. PlayerIs(p, w.p.queue, w.p.currentIndex, "error", Nothing,
                     w.p.active, w.p.prepared, w.p.attempts, w.p.plan)
  BY Values DEF Worlds, Player, PlayerIs, PlayingStates
<1>. HIDE DEF p
<1>. QED BY <1>1, <1>2, WithPlayer DEF PlayerIs

LEMMA ScheduledWorld ==
  ASSUME NEW w \in Worlds, NEW plan \in Plans
  PROVE  /\ WorldIs(Schedule(w, plan), w.saved, w.refused, w.taken)
         /\ Schedule(w, plan).b = w.b
         /\ PlayerIs(Schedule(w, plan).p, w.p.queue, w.p.currentIndex, "interrupted", Nothing,
                     w.p.active, w.p.prepared, w.p.attempts, plan)
<1>. DEFINE p == [w.p EXCEPT !.plan = plan, !.playingState = "interrupted",
                             !.position = plan.position, !.resume = Nothing]
<1>1. Schedule(w, plan) = [w EXCEPT !.p = p]
  BY DEF Schedule, Worlds
<1>2. plan.position \in {AtStart, Later}
  BY DEF Plans
<1>3. PlayerIs(p, w.p.queue, w.p.currentIndex, "interrupted", Nothing,
                     w.p.active, w.p.prepared, w.p.attempts, plan)
  BY <1>2, Values DEF Worlds, Player, PlayerIs, PlayingStates
<1>. HIDE DEF p
<1>. QED BY <1>1, <1>3, WithPlayer DEF PlayerIs

\* An index into a queue, or none.
IndexIn(queue, index) == index = NoIndex \/ index \in Indices(queue)

LEMMA IndexInRange ==
  ASSUME NEW queue \in Seq(Entries), NEW index \in Int
  PROVE  /\ Len(queue) \in Nat
         /\ IndexIn(queue, index) <=> index \in -1 .. Len(queue) - 1
         /\ queue = <<>> <=> Len(queue) = 0
BY DEF IndexIn, Indices, NoIndex

LEMMA QueueWorld ==
  ASSUME NEW w \in Worlds, NEW queue \in Seq(Entries), NEW index \in Int, NEW len \in Int,
         IndexIn(queue, index)
  PROVE  /\ WorldIs(WithQueue(w, queue, index, len), w.saved, w.refused, w.taken)
         /\ WithQueue(w, queue, index, len).b = w.b
         /\ PlayerIs(WithQueue(w, queue, index, len).p, queue, index, w.p.playingState,
                     w.p.resume, w.p.active, w.p.prepared, w.p.attempts, w.p.plan)
<1>. DEFINE clamped == ClampedPlayNextLen(Len(queue), index, len)
            p == [w.p EXCEPT !.queue = queue, !.currentIndex = index,
                             !.playNextQueueLen = clamped]
<1>1. clamped \in Nat
  <2>1. Len(queue) \in Nat /\ index \in -1 .. Len(queue) - 1
    BY IndexInRange
  <2>2. clamped \in 0 .. Len(queue) - (index + 1)
    BY <2>1, ClampedFits
  <2>. QED BY <2>1, <2>2
<1>2. WithQueue(w, queue, index, len) = [w EXCEPT !.p = p]
  BY DEF WithQueue, Worlds
<1>. HIDE DEF clamped
<1>3. PlayerIs(p, queue, index, w.p.playingState,
                     w.p.resume, w.p.active, w.p.prepared, w.p.attempts, w.p.plan)
  BY <1>1 DEF Worlds, Player, PlayerIs
<1>. HIDE DEF p
<1>. QED BY <1>2, <1>3, WithPlayer DEF PlayerIs

LEMMA AdvancedLenNat ==
  ASSUME NEW w \in Worlds, NEW index \in Int, IndexIn(w.p.queue, w.p.currentIndex),
         IndexIn(w.p.queue, index)
  PROVE  AdvancedLen(w, index) \in Nat
<1>1. /\ w.p.queue \in Seq(Entries) /\ w.p.currentIndex \in Int /\ w.p.playNextQueueLen \in Int
      /\ Len(w.p.queue) \in Nat
  BY WorldFields, PlayerFields
<1>2. w.p.currentIndex \in -1 .. Len(w.p.queue) - 1 /\ index \in -1 .. Len(w.p.queue) - 1
  BY <1>1, IndexInRange
<1>3. AdvancedLen(w, index) \in 0 .. Len(w.p.queue)
  BY <1>1, <1>2, AdjustedFits DEF AdvancedLen
<1>. QED BY <1>1, <1>3

LEMMA AdvancedWorld ==
  ASSUME NEW w \in Worlds, NEW len \in Nat
  PROVE  /\ WorldIs([w EXCEPT !.p.playNextQueueLen = len], w.saved, w.refused, w.taken)
         /\ [w EXCEPT !.p.playNextQueueLen = len].b = w.b
         /\ PlayerLike([w EXCEPT !.p.playNextQueueLen = len].p, w.p)
<1>. DEFINE p == [w.p EXCEPT !.playNextQueueLen = len]
<1>1. PlayerLike(p, w.p)
  BY DEF Worlds, Player, PlayerLike, PlayerIs
<1>. HIDE DEF p
<1>2. p \in Player
  BY <1>1 DEF PlayerLike, PlayerIs
<1>. QED BY <1>1, <1>2, WithPlayer DEF p

LEMMA EnsuredWorld ==
  ASSUME NEW w \in Worlds
  PROVE  /\ WorldIs(Ensured(w), w.saved, Ensured(w).refused, w.taken)
         /\ Ensured(w).b = w.b
         /\ PlayerIs(Ensured(w).p, w.p.queue, Ensured(w).p.currentIndex, w.p.playingState,
                     w.p.resume, w.p.active, w.p.prepared, w.p.attempts, w.p.plan)
         /\ Ensured(w).p.currentIndex
              = IF w.p.queue # <<>> /\ w.p.currentIndex = NoIndex THEN 0 ELSE w.p.currentIndex
         /\ Ensured(w).refused <=> (w.refused \/ w.p.queue = <<>>)
<1>. DEFINE len == ClampedPlayNextLen(Len(w.p.queue), 0, w.p.playNextQueueLen)
            p == [w.p EXCEPT !.currentIndex = 0, !.playNextQueueLen = len]
<1>1. CASE w.p.queue = <<>>
  BY <1>1, RefusedWorld, WorldFields DEF Ensured, WorldIs
<1>2. CASE w.p.queue # <<>> /\ w.p.currentIndex = NoIndex
  <2>1. len \in Nat
    <3>1. w.p.queue \in Seq(Entries) /\ w.p.playNextQueueLen \in Int
      BY WorldFields, PlayerFields
    <3>2. Len(w.p.queue) \in Nat /\ 0 \in -1 .. Len(w.p.queue) - 1
      BY <1>2, <3>1, IndexInRange
    <3>3. len \in 0 .. Len(w.p.queue) - (0 + 1)
      BY <3>1, <3>2, ClampedFits
    <3>. QED BY <3>3
  <2>2. Ensured(w) = [w EXCEPT !.p = p]
    BY <1>2 DEF Ensured, Worlds
  <2>. HIDE DEF len
  <2>3. PlayerIs(p, w.p.queue, 0, w.p.playingState,
                     w.p.resume, w.p.active, w.p.prepared, w.p.attempts, w.p.plan)
    BY <2>1, 0 \in Int DEF Worlds, Player, PlayerIs
  <2>. HIDE DEF p
  <2>. QED BY <1>2, <2>2, <2>3, WithPlayer DEF PlayerIs, WorldIs
<1>3. CASE w.p.queue # <<>> /\ w.p.currentIndex # NoIndex
  BY <1>3, WorldFields DEF Ensured, WorldIs
<1>. QED BY <1>1, <1>2, <1>3

OnDesktop == reports \subseteq Desktop
OnAndroid == reports \subseteq Android
\* No window in which the events and the commands of a backend overtake each other.
Undisturbed == windows \cap {"events", "stall"} = {}

\* The events of q after the first i, and what is among them.
Waiting(q, i) == {k \in DOMAIN q : k > i}
Waits(q, i, kinds) == \E k \in Waiting(q, i) : q[k].kind \in kinds
WaitsFresh(q, i, kind) == \E k \in Waiting(q, i) : q[k].kind = kind /\ ~q[k].stale

ShowingStates == {"playing", "paused"}
PlayerKinds == {"buffering", "ready", "playing", "paused"}
EndKinds == {"ended", "failure"}
Deciding == {"playing", "paused", "transition"}

\* What is shown, or will be once the backend has buffered.
Showing(p) == IF p.playingState = "interrupted" THEN p.resume ELSE p.playingState
PreparedActive(p) == p.prepared.state \in {"preparing", "ready"}
NextTarget(p) ==
    /\ p.currentIndex # NoIndex /\ p.prepared.index = p.currentIndex + 1
    /\ p.prepared.index \in Indices(p.queue)
    /\ p.prepared.song = SongAt(p.queue, p.prepared.index)

IndexInv(p, file) ==
    /\ IndexIn(p.queue, p.currentIndex) /\ IndexIn(file.queue, file.currentIndex)
    /\ p.prepared = NoPrepared <=> p.prepared.state = Nothing
    /\ p.plan = NoPlan <=> p.plan.attempt = 0
SavedInv(p, file) == "save" \notin windows => file.queue = p.queue
PlanInv(p) ==
    /\ OnAndroid => p.plan = NoPlan
    /\ p.plan # NoPlan => p.plan.attempt = p.attempts + 1
    /\ p.plan # NoPlan /\ "recovery" \notin windows
         => p.plan.index = p.currentIndex /\ p.currentIndex # NoIndex
DesktopInv(p) ==
    OnDesktop =>
      /\ p.prepared # NoPrepared =>
           /\ p.playingState \in ShowingStates /\ p.plan = NoPlan
           /\ NextTarget(p)
      /\ p.plan # NoPlan /\ p.playingState \in ShowingStates
           => ~p.active /\ p.currentIndex + 1 \notin Indices(p.queue)

NextInv(p, b, q, i) ==
    /\ b.next = NoNext <=> b.next.entry = NoEntry
    /\ b.next = NoNext <=> b.next.state = Nothing
    /\ b.next # NoNext /\ PreparedActive(p) => SongOf[b.next.entry] = p.prepared.song
    /\ b.next # NoNext => ~WaitsFresh(q, i, "failed")
    /\ b.next # NoNext /\ WaitsFresh(q, i, "prepared")
         => b.next.state \in {"stored", "installed"}
ReadyInv(p, b, q, i) ==
    (OnDesktop \/ Undisturbed) /\ PreparedActive(p) /\ ~Waits(q, i, {"transition"}) =>
        /\ b.next # NoNext \/ WaitsFresh(q, i, "failed")
        /\ p.prepared.state = "ready" /\ b.next # NoNext
             => b.next.state \in {"stored", "installed"}
\* A stream that failed does not tell the end of its track.
ErrorsEnd(q, i) ==
    \A k, l \in Waiting(q, i) : k < l /\ q[k].kind = "error" => q[l].kind # "ended"
RecoveryInv(p, b, q, i) ==
    /\ p.plan # NoPlan => b.heard = NoEntry
    /\ "recovery" \notin windows =>
         /\ p.plan # NoPlan => ~Waits(q, i, {"ended"})
         /\ ErrorsEnd(q, i)
OrderInv(p, b, q, i) ==
    Undisturbed =>
      /\ \A k, l \in Waiting(q, i) : k < l /\ q[k].kind \in EndKinds
            => q[l].kind \notin PlayerKinds \cup EndKinds \cup {"transition"}
      /\ \A k, l \in Waiting(q, i) : k < l /\ q[k].kind = "transition" => q[l].kind # "transition"
      /\ b.next # NoNext => PreparedActive(p)
      /\ Waits(q, i, {"transition"}) => b.next = NoNext
      /\ Waits(q, i, EndKinds) => b.ended
HeardInv(p, b, q, i) ==
    Undisturbed /\ p.active /\ Showing(p) \in ShowingStates =>
      /\ p.currentIndex \in Indices(p.queue) /\ b.heard # NoEntry
      /\ PreparedActive(p) => NextTarget(p)
      /\ Waits(q, i, {"transition"}) =>
            /\ PreparedActive(p) /\ ~WaitsFresh(q, i, "failed")
            /\ SongOf[b.heard] = p.prepared.song
      /\ ~Waits(q, i, {"transition"}) => SongOf[b.heard] = SongAt(p.queue, p.currentIndex)
      /\ ~Waits(q, i, Deciding) => b.paused = (Showing(p) = "paused")
      /\ \A k \in Waiting(q, i) :
            q[k].kind \in Deciding
              /\ (\A l \in Waiting(q, i) : l > k => q[l].kind \notin Deciding)
              => b.paused = (q[k].kind = "paused")
      /\ b.ended => Waits(q, i, EndKinds)
SilentInv(p, b, q, i) ==
    Undisturbed /\ p.active /\ Showing(p) \notin ShowingStates =>
      /\ b.heard = NoEntry \/ b.ended
      /\ p.playingState = "interrupted" => b.heard = NoEntry
      /\ ~Waits(q, i, PlayerKinds)
      /\ PreparedActive(p) => ~Waits(q, i, {"transition"})

\* Of the controller and the state file, and of the events that wait.
CoreInv(p, file) == IndexInv(p, file) /\ PlanInv(p) /\ DesktopInv(p)
StatusInv(p, b, q, i) ==
    /\ RecoveryInv(p, b, q, i) /\ OrderInv(p, b, q, i)
    /\ HeardInv(p, b, q, i) /\ SilentInv(p, b, q, i)
EventInv(p, b, q, i) ==
    NextInv(p, b, q, i) /\ ReadyInv(p, b, q, i) /\ StatusInv(p, b, q, i)

\* A world between two steps, and one in which i of the events taken are handled.
Sound(w) == w \in Worlds /\ CoreInv(w.p, w.saved) /\ EventInv(w.p, w.b, w.b.events, 0)
SoundAfter(w, i) == w \in Worlds /\ CoreInv(w.p, w.saved) /\ EventInv(w.p, w.b, w.taken, i)

LEMMA StaleTwice ==
  ASSUME NEW events \in Seq(NativeEvents)
  PROVE  AllStale(AllStale(events)) = AllStale(events)
<1>. DEFINE once == AllStale(events)
            twice == AllStale(once)
<1>1. \A e \in NativeEvents : e.stale = TRUE => [e EXCEPT !.stale = TRUE] = e
  BY DEF NativeEvents
<1>2. /\ once \in Seq(NativeEvents)
      /\ \A i \in DOMAIN once : once[i].stale = TRUE
  BY AllStaleEvents
<1>3. twice = [i \in DOMAIN once |-> [once[i] EXCEPT !.stale = TRUE]]
  BY DEF AllStale
<1>. HIDE DEF once, twice
<1>4. \A i \in DOMAIN once : once[i] \in NativeEvents
  BY <1>2
<1>5. \A i \in DOMAIN once : [once[i] EXCEPT !.stale = TRUE] = once[i]
  BY <1>1, <1>2, <1>4
<1>6. once = [i \in DOMAIN once |-> once[i]]
  BY <1>2
<1>. QED BY <1>3, <1>5, <1>6 DEF once, twice

\* What waits, after a preparation was dropped.
LEMMA StaleWaits ==
  ASSUME NEW q \in Seq(NativeEvents), NEW i \in Nat
  PROVE  /\ AllStale(q) \in Seq(NativeEvents)
         /\ Waiting(AllStale(q), i) = Waiting(q, i)
         /\ \A k \in Waiting(q, i) : AllStale(q)[k].kind = q[k].kind
         /\ \A kinds : Waits(AllStale(q), i, kinds) <=> Waits(q, i, kinds)
         /\ \A kind : ~WaitsFresh(AllStale(q), i, kind)
<1>1. /\ AllStale(q) \in Seq(NativeEvents) /\ DOMAIN AllStale(q) = DOMAIN q
      /\ \A k \in DOMAIN q : AllStale(q)[k].kind = q[k].kind /\ AllStale(q)[k].stale = TRUE
  BY AllStaleEvents
<1>2. Waiting(AllStale(q), i) = Waiting(q, i) /\ Waiting(q, i) \subseteq DOMAIN q
  BY <1>1 DEF Waiting
<1>3. \A k \in Waiting(q, i) : AllStale(q)[k].kind = q[k].kind /\ AllStale(q)[k].stale = TRUE
  BY <1>1, <1>2
<1>. QED BY <1>1, <1>2, <1>3 DEF Waits, WaitsFresh

LEMMA NoneWaits ==
  /\ Waiting(<<>>, 0) = {} /\ <<>> \in Seq(NativeEvents)
  /\ \A kinds : ~Waits(<<>>, 0, kinds)
  /\ \A kind : ~WaitsFresh(<<>>, 0, kind)
<1>1. Waiting(<<>>, 0) = {}
  BY DEF Waiting
<1>. QED BY <1>1 DEF Waits, WaitsFresh

-----------------------------------------------------------------------------
\* What happens to the events of a world.
KeepsEvents(t, w) == t.taken = w.taken /\ t.b.events = w.b.events
DropsEvents(t, w) == t.taken = AllStale(w.taken) /\ t.b.events = AllStale(w.b.events)

\* The preparation of the next entry: asked for, or refused at once.
Asked(t, w) ==
    /\ t.p.prepared = [state |-> "preparing", index |-> w.p.currentIndex + 1,
                       song |-> SongAt(w.p.queue, w.p.currentIndex + 1)]
    /\ t.b.next = [entry |-> ItemAt(w.p.queue, w.p.currentIndex + 1), state |-> "preparing"]
    /\ DropsEvents(t, w)
Failing(t, w) ==
    /\ t.p.prepared = [state |-> "failed", index |-> w.p.currentIndex + 1,
                       song |-> SongAt(w.p.queue, w.p.currentIndex + 1)]
    /\ \/ DropsEvents(t, w) /\ t.b.next = NoNext
       \/ w.p.prepared = NoPrepared /\ KeepsEvents(t, w) /\ t.b.next = w.b.next
Released(t, w) ==
    /\ t.p.prepared = NoPrepared
    /\ \/ DropsEvents(t, w) /\ t.b.next = NoNext
       \/ w.p.prepared = NoPrepared /\ KeepsEvents(t, w) /\ t.b.next = w.b.next

\* A world that differs from w in what is prepared, and in the events, at most.
PreparationOnly(t, w) ==
    /\ t \in Worlds /\ t.saved = w.saved /\ t.refused = w.refused
    /\ PlayerIs(t.p, w.p.queue, w.p.currentIndex, w.p.playingState, w.p.resume, w.p.active,
                t.p.prepared, w.p.attempts, w.p.plan)
    /\ BackendIs(t.b, w.b.heard, w.b.paused, w.b.ended, t.b.next, t.b.events)

LEMMA ReleasedWorld ==
  ASSUME NEW w \in Worlds
  PROVE  PreparationOnly(ClearGapless(w), w) /\ Released(ClearGapless(w), w)
<1>1. /\ ClearGapless(w) \in Worlds
      /\ ClearGapless(w).saved = w.saved /\ ClearGapless(w).refused = w.refused
      /\ PlayerIs(ClearGapless(w).p, w.p.queue, w.p.currentIndex, w.p.playingState,
                     w.p.resume, w.p.active, NoPrepared, w.p.attempts, w.p.plan)
  BY ClearedGapless
<1>2. CASE w.p.prepared = NoPrepared
  <2>1. ClearGapless(w) = w
    BY <1>2, ClearedGapless
  <2>. QED BY <1>2, <2>1, WorldFields DEF PreparationOnly, Released, KeepsEvents
<1>3. CASE w.p.prepared # NoPrepared
  <2>1. /\ ClearGapless(w).taken = AllStale(w.taken)
        /\ BackendIs(ClearGapless(w).b, w.b.heard, w.b.paused, w.b.ended, NoNext,
                           AllStale(w.b.events))
    BY <1>3, ClearedGapless
  <2>. QED BY <1>1, <2>1 DEF PreparationOnly, Released, DropsEvents, PlayerIs, BackendIs
<1>. QED BY <1>2, <1>3

LEMMA SyncGaplessWorlds ==
  ASSUME NEW w \in Worlds
  PROVE  \A t \in SyncGapless(w) :
           /\ PreparationOnly(t, w)
           /\ \/ t = w /\ HasTarget(w) /\ w.p.prepared # NoPrepared /\ IsTarget(w, NextIndex(w))
              \/ ~HasTarget(w) /\ Released(t, w)
              \/ HasTarget(w) /\ (Asked(t, w) \/ Failing(t, w))
<1>1. CASE ~HasTarget(w)
  BY <1>1, ReleasedWorld DEF SyncGapless
<1>2. CASE HasTarget(w) /\ w.p.prepared # NoPrepared /\ IsTarget(w, NextIndex(w))
  BY <1>2, WorldFields DEF SyncGapless, PreparationOnly
<1>3. CASE HasTarget(w) /\ ~(w.p.prepared # NoPrepared /\ IsTarget(w, NextIndex(w)))
  <2>. DEFINE c == ClearGapless(w)
              d == DropNext(c)
              next == [entry |-> Entry(w, NextIndex(w)), state |-> "preparing"]
              b == [d.b EXCEPT !.next = next]
              a == [d EXCEPT !.b = b]
              t1 == PreparedAs(a, "preparing")
              t2 == PreparedAs(c, "failed")
  <2>1. SyncGapless(w) = {t1, t2}
    BY <1>3 DEF SyncGapless
  <2>2. PreparationOnly(c, w) /\ Released(c, w)
    BY ReleasedWorld
  <2>. HIDE DEF c
  <2>3. /\ NextIndex(w) \in Indices(w.p.queue) /\ NextIndex(c) = NextIndex(w)
        /\ c.p.queue = w.p.queue /\ c \in Worlds
    BY <1>3, <2>2 DEF HasTarget, Valid, PreparationOnly, PlayerIs, NextIndex
  <2>4. PreparationOnly(t2, w) /\ Failing(t2, w)
    <3>1. /\ WorldIs(t2, c.saved, c.refused, c.taken)
          /\ t2.b = c.b
          /\ t2.p.prepared
              = [state |-> "failed", index |-> c.p.currentIndex + 1,
                 song |-> SongAt(c.p.queue, c.p.currentIndex + 1)]
          /\ PlayerIs(t2.p, c.p.queue, c.p.currentIndex, c.p.playingState,
                     c.p.resume, c.p.active, t2.p.prepared, c.p.attempts, c.p.plan)
      BY <2>3, PreparedWorld
    <3>. HIDE DEF t2
    <3>2. PreparationOnly(t2, w)
      BY <2>2, <3>1 DEF PreparationOnly, PlayerIs, BackendIs, WorldIs
    <3>3. Failing(t2, w)
      BY <2>2, <3>1 DEF PreparationOnly, PlayerIs, Failing, Released, KeepsEvents, DropsEvents, WorldIs
    <3>. QED BY <3>2, <3>3
  <2>5. /\ WorldIs(d, c.saved, c.refused, AllStale(c.taken)) /\ d.p = c.p
        /\ BackendIs(d.b, c.b.heard, c.b.paused, c.b.ended, NoNext, AllStale(c.b.events))
    BY <2>3, DroppedNext
  <2>. HIDE DEF d
  <2>6. AllStale(c.taken) = AllStale(w.taken) /\ AllStale(c.b.events) = AllStale(w.b.events)
    <3>1. w.taken \in Seq(NativeEvents) /\ w.b.events \in Seq(NativeEvents)
      BY WorldFields, BackendFields
    <3>2. CASE KeepsEvents(c, w)
      BY <3>2 DEF KeepsEvents
    <3>3. CASE DropsEvents(c, w)
      BY <3>1, <3>3, StaleTwice DEF DropsEvents
    <3>. QED BY <2>2, <3>2, <3>3 DEF Released
  <2>7. next \in NextTracks
    <3>1. w.p.queue \in Seq(Entries)
      BY WorldFields, PlayerFields
    <3>2. Entry(w, NextIndex(w)) \in Entries
      BY <2>3, <3>1 DEF Entry, ItemAt, Indices
    <3>. QED BY <3>2 DEF NextTracks
  <2>8. next = [entry |-> ItemAt(w.p.queue, w.p.currentIndex + 1), state |-> "preparing"]
    BY DEF Entry, NextIndex
  <2>. HIDE DEF next
  <2>9. BackendIs(b, w.b.heard, w.b.paused, w.b.ended, next, AllStale(w.b.events))
    BY <2>2, <2>5, <2>6, <2>7 DEF PreparationOnly, Backend, BackendIs
  <2>. HIDE DEF b
  <2>10. /\ WorldIs(a, w.saved, w.refused, AllStale(w.taken)) /\ a.p = c.p /\ a.b = b
    BY <2>2, <2>5, <2>6, <2>9, WithBackend DEF PreparationOnly, BackendIs, WorldIs
  <2>. HIDE DEF a
  <2>11. PreparationOnly(t1, w) /\ Asked(t1, w)
    <3>1. a \in Worlds /\ NextIndex(a) \in Indices(a.p.queue)
      BY <2>3, <2>10 DEF NextIndex, WorldIs
    <3>2. /\ WorldIs(t1, a.saved, a.refused, a.taken)
          /\ t1.b = a.b
          /\ t1.p.prepared
              = [state |-> "preparing", index |-> a.p.currentIndex + 1,
                 song |-> SongAt(a.p.queue, a.p.currentIndex + 1)]
          /\ PlayerIs(t1.p, a.p.queue, a.p.currentIndex, a.p.playingState,
                     a.p.resume, a.p.active, t1.p.prepared, a.p.attempts, a.p.plan)
      BY <3>1, PreparedWorld
    <3>. HIDE DEF t1
    <3>3. PreparationOnly(t1, w)
      BY <2>2, <2>9, <2>10, <3>2 DEF PreparationOnly, PlayerIs, BackendIs, WorldIs
    <3>4. Asked(t1, w)
      BY <2>2, <2>8, <2>9, <2>10, <3>2 DEF PreparationOnly, PlayerIs, BackendIs, Asked, DropsEvents, WorldIs
    <3>. QED BY <3>3, <3>4
  <2>. QED BY <1>3, <2>1, <2>4, <2>11
<1>. QED BY <1>1, <1>2, <1>3

-----------------------------------------------------------------------------
\* The events of w, or what is left of them in t, with i of them handled.
EventsKept(t, w, q, i) ==
    \/ KeepsEvents(t, w) /\ EventInv(t.p, t.b, q, i)
    \/ DropsEvents(t, w) /\ EventInv(t.p, t.b, AllStale(q), i)

LEMMA AskedFacts ==
  ASSUME NEW w \in Worlds, NEW t, HasTarget(w), PreparationOnly(t, w), Asked(t, w)
  PROVE  /\ t.p.prepared.state = "preparing" /\ t.p.prepared # NoPrepared
         /\ PreparedActive(t.p) /\ NextTarget(t.p)
         /\ t.b.next # NoNext /\ t.b.next.entry # NoEntry /\ t.b.next.state = "preparing"
         /\ SongOf[t.b.next.entry] = t.p.prepared.song
<1>1. /\ w.p.currentIndex # NoIndex /\ w.p.currentIndex + 1 \in Indices(w.p.queue)
      /\ w.p.queue \in Seq(Entries) /\ w.p.currentIndex \in Int
  BY WorldFields, PlayerFields DEF HasTarget, Valid, NextIndex
<1>2. ItemAt(w.p.queue, w.p.currentIndex + 1) \in Entries
  BY <1>1 DEF ItemAt, Indices
<1>3. /\ t.p.prepared.state = "preparing" /\ t.p.prepared.index = w.p.currentIndex + 1
      /\ t.p.prepared.song = SongAt(w.p.queue, w.p.currentIndex + 1)
      /\ t.b.next.entry = ItemAt(w.p.queue, w.p.currentIndex + 1)
      /\ t.b.next.state = "preparing"
  BY DEF Asked
<1>4. t.p.queue = w.p.queue /\ t.p.currentIndex = w.p.currentIndex
  BY DEF PreparationOnly, PlayerIs
<1>5. t.b.next.entry # NoEntry
  BY <1>2, <1>3, ControllerAssumption
<1>6. t.p.prepared # NoPrepared /\ t.b.next # NoNext
  BY <1>3, Values DEF Nothing
<1>. QED BY <1>1, <1>3, <1>4, <1>5, <1>6 DEF PreparedActive, NextTarget, SongAt

LEMMA FailingFacts ==
  ASSUME NEW w \in Worlds, NEW t, HasTarget(w), PreparationOnly(t, w), Failing(t, w)
  PROVE  /\ t.p.prepared.state = "failed" /\ t.p.prepared # NoPrepared
         /\ ~PreparedActive(t.p) /\ NextTarget(t.p)
<1>1. /\ w.p.currentIndex # NoIndex /\ w.p.currentIndex + 1 \in Indices(w.p.queue)
  BY DEF HasTarget, Valid, NextIndex
<1>3. /\ t.p.prepared.state = "failed" /\ t.p.prepared.index = w.p.currentIndex + 1
      /\ t.p.prepared.song = SongAt(w.p.queue, w.p.currentIndex + 1)
  BY DEF Failing
<1>4. t.p.queue = w.p.queue /\ t.p.currentIndex = w.p.currentIndex
  BY DEF PreparationOnly, PlayerIs
<1>6. t.p.prepared # NoPrepared
  BY <1>3, Values DEF Nothing
<1>. QED BY <1>1, <1>3, <1>4, <1>6 DEF PreparedActive, NextTarget

LEMMA NotPrepared ==
  ASSUME NEW p, p.prepared = NoPrepared
  PROVE  p.prepared.state = Nothing /\ ~PreparedActive(p)
BY Values DEF PreparedActive, Nothing

\* What holds of the controller goes on holding when only the preparation changes.
LEMMA PreparationCore ==
  ASSUME NEW w \in Worlds, NEW t, CoreInv(w.p, w.saved), PreparationOnly(t, w),
         \/ t.p.prepared = NoPrepared
         \/ HasTarget(w) /\ t.p.prepared.state # Nothing /\ t.p.prepared # NoPrepared
              /\ NextTarget(t.p)
  PROVE  CoreInv(t.p, t.saved)
<1>1. /\ t.saved = w.saved
      /\ t.p.queue = w.p.queue /\ t.p.currentIndex = w.p.currentIndex
      /\ t.p.playingState = w.p.playingState /\ t.p.active = w.p.active
      /\ t.p.attempts = w.p.attempts /\ t.p.plan = w.p.plan
  BY DEF PreparationOnly, PlayerIs
<1>2. IndexInv(t.p, t.saved)
  BY <1>1, NotPrepared DEF CoreInv, IndexInv
<1>4. PlanInv(t.p)
  BY <1>1 DEF CoreInv, PlanInv
<1>5. DesktopInv(t.p)
  <2>1. CASE t.p.prepared = NoPrepared
    BY <1>1, <2>1 DEF CoreInv, DesktopInv
  <2>2. CASE HasTarget(w) /\ t.p.prepared # NoPrepared /\ NextTarget(t.p)
    <3>1. w.p.playingState \in ShowingStates /\ w.p.currentIndex + 1 \in Indices(w.p.queue)
      BY <2>2 DEF HasTarget, PlayingOrPaused, Valid, NextIndex, ShowingStates
    <3>. QED BY <1>1, <2>2, <3>1 DEF CoreInv, DesktopInv
  <2>. QED BY <2>1, <2>2
<1>. QED BY <1>2, <1>4, <1>5 DEF CoreInv

\* And what holds of its events, where no transition waits among them.
LEMMA PreparationEvents ==
  ASSUME NEW w \in Worlds, NEW t, NEW q \in Seq(NativeEvents), NEW i \in Nat,
         StatusInv(w.p, w.b, q, i), Undisturbed => ~Waits(q, i, {"transition"}),
         PreparationOnly(t, w), NEW r \in {q, AllStale(q)},
         NextInv(t.p, t.b, r, i), ReadyInv(t.p, t.b, r, i),
         Undisturbed => (t.b.next # NoNext => PreparedActive(t.p)),
         PreparedActive(t.p) => NextTarget(t.p)
  PROVE  EventInv(t.p, t.b, r, i)
<1>1. /\ t.p.queue = w.p.queue /\ t.p.currentIndex = w.p.currentIndex
      /\ t.p.playingState = w.p.playingState /\ t.p.active = w.p.active
      /\ t.p.resume = w.p.resume /\ t.p.plan = w.p.plan
      /\ t.b.heard = w.b.heard /\ t.b.paused = w.b.paused /\ t.b.ended = w.b.ended
  BY DEF PreparationOnly, PlayerIs, BackendIs
<1>2. /\ Waiting(r, i) = Waiting(q, i) /\ \A k \in Waiting(q, i) : r[k].kind = q[k].kind
      /\ \A kinds : Waits(r, i, kinds) <=> Waits(q, i, kinds)
  BY StaleWaits
<1>3. Showing(t.p) = Showing(w.p)
  BY <1>1 DEF Showing
<1>4. RecoveryInv(t.p, t.b, r, i)
  BY <1>1, <1>2 DEF EventInv, StatusInv, RecoveryInv, ErrorsEnd
<1>5. OrderInv(t.p, t.b, r, i)
  BY <1>1, <1>2 DEF EventInv, StatusInv, OrderInv
<1>6. HeardInv(t.p, t.b, r, i)
  BY <1>1, <1>2, <1>3 DEF EventInv, StatusInv, HeardInv
<1>7. SilentInv(t.p, t.b, r, i)
  BY <1>1, <1>2, <1>3 DEF EventInv, StatusInv, SilentInv
<1>. QED BY <1>4, <1>5, <1>6, <1>7 DEF EventInv, StatusInv

\* ClearGapless leaves a sound world sound.
LEMMA ReleasedKeeps ==
  ASSUME NEW w \in Worlds, NEW t, NEW q \in Seq(NativeEvents), NEW i \in Nat,
         CoreInv(w.p, w.saved), EventInv(w.p, w.b, q, i),
         Undisturbed => ~Waits(q, i, {"transition"}),
         PreparationOnly(t, w), Released(t, w)
  PROVE  CoreInv(t.p, t.saved) /\ EventsKept(t, w, q, i)
<1>1. t.p.prepared = NoPrepared /\ ~PreparedActive(t.p)
  BY NotPrepared DEF Released
<1>2. CoreInv(t.p, t.saved)
  BY <1>1, PreparationCore
<1>3. CASE DropsEvents(t, w) /\ t.b.next = NoNext
  <2>1. NextInv(t.p, t.b, AllStale(q), i) /\ ReadyInv(t.p, t.b, AllStale(q), i)
    BY <1>1, <1>3, Values DEF NextInv, ReadyInv
  <2>2. EventInv(t.p, t.b, AllStale(q), i)
    BY <1>1, <1>3, <2>1, PreparationEvents DEF EventInv
  <2>. QED BY <1>2, <1>3, <2>2 DEF EventsKept
<1>4. CASE w.p.prepared = NoPrepared /\ KeepsEvents(t, w) /\ t.b.next = w.b.next
  <2>1. NextInv(t.p, t.b, q, i) /\ ReadyInv(t.p, t.b, q, i)
    BY <1>1, <1>4 DEF EventInv, NextInv, ReadyInv
  <2>2. ~PreparedActive(w.p)
    BY <1>4, NotPrepared
  <2>3. EventInv(t.p, t.b, q, i)
    <3>1. Undisturbed => (t.b.next # NoNext => PreparedActive(t.p))
      BY <1>4, <2>2 DEF EventInv, StatusInv, OrderInv
    <3>. QED BY <1>1, <2>1, <3>1, PreparationEvents DEF EventInv
  <2>. QED BY <1>2, <1>4, <2>3 DEF EventsKept
<1>. QED BY <1>3, <1>4 DEF Released

LEMMA AskedKeeps ==
  ASSUME NEW w \in Worlds, NEW t, NEW q \in Seq(NativeEvents), NEW i \in Nat,
         CoreInv(w.p, w.saved), EventInv(w.p, w.b, q, i),
         Undisturbed => ~Waits(q, i, {"transition"}),
         HasTarget(w), PreparationOnly(t, w), Asked(t, w)
  PROVE  CoreInv(t.p, t.saved) /\ EventsKept(t, w, q, i)
<1>1. /\ t.p.prepared.state = "preparing" /\ t.p.prepared # NoPrepared
      /\ PreparedActive(t.p) /\ NextTarget(t.p)
      /\ t.b.next # NoNext /\ t.b.next.entry # NoEntry /\ t.b.next.state = "preparing"
      /\ SongOf[t.b.next.entry] = t.p.prepared.song
  BY AskedFacts
<1>2. CoreInv(t.p, t.saved)
  BY <1>1, PreparationCore DEF Nothing
<1>3. \A kind : ~WaitsFresh(AllStale(q), i, kind)
  BY StaleWaits
<1>4. NextInv(t.p, t.b, AllStale(q), i) /\ ReadyInv(t.p, t.b, AllStale(q), i)
  BY <1>1, <1>3 DEF NextInv, ReadyInv, Nothing
<1>5. EventInv(t.p, t.b, AllStale(q), i)
  BY <1>1, <1>4, PreparationEvents DEF EventInv
<1>. QED BY <1>2, <1>5 DEF EventsKept, Asked

LEMMA FailingKeeps ==
  ASSUME NEW w \in Worlds, NEW t, NEW q \in Seq(NativeEvents), NEW i \in Nat,
         CoreInv(w.p, w.saved), EventInv(w.p, w.b, q, i),
         Undisturbed => ~Waits(q, i, {"transition"}),
         HasTarget(w), PreparationOnly(t, w), Failing(t, w)
  PROVE  CoreInv(t.p, t.saved) /\ EventsKept(t, w, q, i)
<1>1. /\ t.p.prepared.state = "failed" /\ t.p.prepared # NoPrepared
      /\ ~PreparedActive(t.p) /\ NextTarget(t.p)
  BY FailingFacts
<1>2. CoreInv(t.p, t.saved)
  BY <1>1, PreparationCore DEF Nothing
<1>3. CASE DropsEvents(t, w) /\ t.b.next = NoNext
  <2>1. NextInv(t.p, t.b, AllStale(q), i) /\ ReadyInv(t.p, t.b, AllStale(q), i)
    BY <1>1, <1>3, Values DEF NextInv, ReadyInv
  <2>2. EventInv(t.p, t.b, AllStale(q), i)
    BY <1>1, <1>3, <2>1, PreparationEvents DEF EventInv
  <2>. QED BY <1>2, <1>3, <2>2 DEF EventsKept
<1>4. CASE w.p.prepared = NoPrepared /\ KeepsEvents(t, w) /\ t.b.next = w.b.next
  <2>1. NextInv(t.p, t.b, q, i) /\ ReadyInv(t.p, t.b, q, i)
    BY <1>1, <1>4 DEF EventInv, NextInv, ReadyInv
  <2>2. ~PreparedActive(w.p)
    BY <1>4, NotPrepared
  <2>3. EventInv(t.p, t.b, q, i)
    <3>1. Undisturbed => (t.b.next # NoNext => PreparedActive(t.p))
      BY <1>4, <2>2 DEF EventInv, StatusInv, OrderInv
    <3>. QED BY <1>1, <2>1, <3>1, PreparationEvents DEF EventInv
  <2>. QED BY <1>2, <1>4, <2>3 DEF EventsKept
<1>. QED BY <1>3, <1>4 DEF Failing

\* sync_gapless_for_current_track: what is prepared is the next entry, and what
\* waited of an older preparation is stale.
LEMMA SyncGaplessKeeps ==
  ASSUME NEW w \in Worlds, NEW q \in Seq(NativeEvents), NEW i \in Nat,
         CoreInv(w.p, w.saved), EventInv(w.p, w.b, q, i),
         Undisturbed => ~Waits(q, i, {"transition"}),
         NEW t \in SyncGapless(w)
  PROVE  PreparationOnly(t, w) /\ CoreInv(t.p, t.saved) /\ EventsKept(t, w, q, i)
<1>1. PreparationOnly(t, w)
  BY SyncGaplessWorlds
<1>2. CASE t = w
  BY <1>1, <1>2 DEF EventsKept, KeepsEvents
<1>3. CASE Released(t, w)
  BY <1>1, <1>3, ReleasedKeeps
<1>4. CASE HasTarget(w) /\ Asked(t, w)
  BY <1>1, <1>4, AskedKeeps
<1>5. CASE HasTarget(w) /\ Failing(t, w)
  BY <1>1, <1>5, FailingKeeps
<1>. QED BY <1>2, <1>3, <1>4, <1>5, SyncGaplessWorlds

-----------------------------------------------------------------------------
\* Loading.

\* A world in which nothing is heard, prepared, or waits is sound if what it
\* shows does not say otherwise.
LEMMA QuietSound ==
  ASSUME NEW w \in Worlds,
         w.p.prepared = NoPrepared, w.b.heard = NoEntry, w.b.next = NoNext,
         w.b.events = <<>>,
         Undisturbed /\ w.p.active => Showing(w.p) \notin ShowingStates,
         IndexIn(w.p.queue, w.p.currentIndex), IndexIn(w.saved.queue, w.saved.currentIndex),
         PlanInv(w.p), w.p.plan = NoPlan <=> w.p.plan.attempt = 0,
         OnDesktop /\ w.p.plan # NoPlan /\ w.p.playingState \in ShowingStates
           => ~w.p.active /\ w.p.currentIndex + 1 \notin Indices(w.p.queue)
  PROVE  Sound(w)
<1>1. w.p.prepared.state = Nothing /\ ~PreparedActive(w.p)
  BY NotPrepared
<1>2. CoreInv(w.p, w.saved)
  <2>1. IndexInv(w.p, w.saved)
    BY <1>1 DEF IndexInv
  <2>2. DesktopInv(w.p)
    BY DEF DesktopInv
  <2>. QED BY <2>1, <2>2 DEF CoreInv
<1>3. EventInv(w.p, w.b, w.b.events, 0)
  <2>1. NextInv(w.p, w.b, <<>>, 0) /\ ReadyInv(w.p, w.b, <<>>, 0)
    BY <1>1, Values DEF NextInv, ReadyInv
  <2>2. RecoveryInv(w.p, w.b, <<>>, 0)
    BY NoneWaits DEF RecoveryInv, ErrorsEnd
  <2>3. OrderInv(w.p, w.b, <<>>, 0)
    BY NoneWaits DEF OrderInv
  <2>4. HeardInv(w.p, w.b, <<>>, 0)
    BY DEF HeardInv
  <2>5. SilentInv(w.p, w.b, <<>>, 0)
    BY NoneWaits DEF SilentInv
  <2>. QED BY <2>1, <2>2, <2>3, <2>4, <2>5 DEF EventInv, StatusInv
<1>. QED BY <1>2, <1>3 DEF Sound

\* Nothing waits that moves, pauses or ends what is heard.
Settling(q, i) ==
    Undisturbed => ~Waits(q, i, PlayerKinds \cup EndKinds \cup {"transition"})

LEMMA SettlingWaits ==
  ASSUME NEW q, NEW i, Settling(q, i), Undisturbed
  PROVE  /\ \A k \in Waiting(q, i) :
              q[k].kind \notin PlayerKinds \cup EndKinds \cup Deciding
         /\ ~Waits(q, i, {"transition"}) /\ ~Waits(q, i, PlayerKinds)
         /\ ~Waits(q, i, EndKinds) /\ ~Waits(q, i, Deciding)
BY DEF Settling, Waits, PlayerKinds, EndKinds, Deciding

\* A world in which the current entry has just begun.
Begun(w, index, autoplay) ==
    /\ w \in Worlds /\ index \in Indices(w.p.queue)
    /\ w.p.currentIndex = index /\ w.p.prepared = NoPrepared
    /\ w.p.playingState = (IF autoplay THEN "playing" ELSE "paused")
    /\ w.p.plan = NoPlan
    /\ w.b.heard # NoEntry /\ SongOf[w.b.heard] = SongAt(w.p.queue, index)
    /\ w.b.paused = ~autoplay /\ w.b.ended = FALSE /\ w.b.next = NoNext
    /\ IndexIn(w.saved.queue, w.saved.currentIndex)

LEMMA BegunSound ==
  ASSUME NEW w, NEW index, NEW autoplay \in BOOLEAN, Begun(w, index, autoplay),
         NEW q \in Seq(NativeEvents), NEW i \in Nat, Settling(q, i),
         "recovery" \notin windows => ErrorsEnd(q, i)
  PROVE  CoreInv(w.p, w.saved) /\ EventInv(w.p, w.b, q, i)
<1>1. w.p.prepared.state = Nothing /\ ~PreparedActive(w.p)
  BY NotPrepared DEF Begun
<1>2. CoreInv(w.p, w.saved)
  <2>1. IndexInv(w.p, w.saved)
    BY <1>1, Values DEF IndexInv, Begun, IndexIn
  <2>2. PlanInv(w.p)
    BY DEF PlanInv, Begun
  <2>3. DesktopInv(w.p)
    BY DEF DesktopInv, Begun
  <2>. QED BY <2>1, <2>2, <2>3 DEF CoreInv, Begun
<1>3. NextInv(w.p, w.b, q, i) /\ ReadyInv(w.p, w.b, q, i)
  BY <1>1, Values DEF NextInv, ReadyInv, Begun
<1>4. RecoveryInv(w.p, w.b, q, i)
  BY DEF RecoveryInv, Begun
<1>5. OrderInv(w.p, w.b, q, i)
  <2>. SUFFICES ASSUME Undisturbed PROVE OrderInv(w.p, w.b, q, i)
    BY DEF OrderInv
  <2>1. /\ \A k \in Waiting(q, i) : q[k].kind \notin PlayerKinds \cup EndKinds \cup Deciding
        /\ ~Waits(q, i, {"transition"}) /\ ~Waits(q, i, EndKinds)
    BY SettlingWaits
  <2>. QED BY <2>1 DEF OrderInv, Begun, Deciding
<1>6. /\ Showing(w.p) = w.p.playingState /\ w.p.playingState \in ShowingStates
      /\ w.b.paused = (w.p.playingState = "paused")
  BY DEF Showing, Begun, ShowingStates
<1>7. HeardInv(w.p, w.b, q, i)
  <2>. SUFFICES ASSUME Undisturbed PROVE HeardInv(w.p, w.b, q, i)
    BY DEF HeardInv
  <2>1. /\ \A k \in Waiting(q, i) : q[k].kind \notin PlayerKinds \cup EndKinds \cup Deciding
        /\ ~Waits(q, i, {"transition"})
    BY SettlingWaits
  <2>2. /\ w.p.currentIndex \in Indices(w.p.queue) /\ w.b.heard # NoEntry
        /\ SongOf[w.b.heard] = SongAt(w.p.queue, w.p.currentIndex)
        /\ w.b.ended = FALSE
    BY DEF Begun
  <2>. QED BY <1>1, <1>6, <2>1, <2>2 DEF HeardInv
<1>8. SilentInv(w.p, w.b, q, i)
  BY <1>6 DEF SilentInv
<1>. QED BY <1>2, <1>3, <1>4, <1>5, <1>7, <1>8 DEF EventInv, StatusInv

\* What a load that succeeded leaves.
Loading(t, w, index, autoplay) ==
    /\ t \in Worlds /\ t.saved = w.saved /\ t.refused = w.refused
    /\ t.taken \in {w.taken, AllStale(w.taken)} /\ t.b.events = <<>>
    /\ PlayerIs(t.p, w.p.queue, index, IF autoplay THEN "playing" ELSE "paused", Nothing,
                w.p.active, t.p.prepared, 0, NoPlan)
    /\ Sound(t)
    /\ \A i \in Nat : Settling(w.taken, i) /\ ("recovery" \notin windows => ErrorsEnd(w.taken, i))
         => SoundAfter(t, i)

LEMMA StartedKeeps ==
  ASSUME NEW w \in Worlds, NEW index \in Int, NEW position \in {AtStart, Later},
         NEW autoplay \in BOOLEAN, index \in Indices(w.p.queue),
         w.p.prepared = NoPrepared, w.b.next = NoNext,
         w.b.heard # NoEntry, SongOf[w.b.heard] = SongAt(w.p.queue, index),
         w.b.paused = ~autoplay, w.b.ended = FALSE,
         IndexIn(w.saved.queue, w.saved.currentIndex),
         NEW t \in Started(w, index, position, autoplay)
  PROVE  Loading(t, w, index, autoplay)
<1>. DEFINE state == IF autoplay THEN "playing" ELSE "paused"
            a == At(w, index, position, state)
            c == ClearNativeEvents(a)
            r == ResetRecovery(c)
<1>1. t \in SyncGapless(r)
  BY DEF Started
<1>2. state \in PlayingStates
  BY DEF PlayingStates
<1>3. /\ WorldIs(a, w.saved, w.refused, w.taken) /\ a.b = w.b
      /\ PlayerIs(a.p, w.p.queue, index, state, Nothing,
                     w.p.active, w.p.prepared, w.p.attempts, w.p.plan)
  BY <1>2, AtWorld
<1>. HIDE DEF a
<1>4. /\ WorldIs(c, w.saved, w.refused, w.taken) /\ c.p = a.p
      /\ BackendIs(c.b, w.b.heard, w.b.paused, w.b.ended, w.b.next, <<>>)
  BY <1>3, ClearedEvents DEF WorldIs
<1>. HIDE DEF c
<1>5. /\ WorldIs(r, w.saved, w.refused, w.taken)
      /\ BackendIs(r.b, w.b.heard, w.b.paused, w.b.ended, w.b.next, <<>>)
      /\ PlayerIs(r.p, w.p.queue, index, state, Nothing, w.p.active, NoPrepared, 0, NoPlan)
  BY <1>3, <1>4, ResetWorld DEF WorldIs, PlayerIs
<1>. HIDE DEF r
<1>6. Begun(r, index, autoplay)
  BY <1>5 DEF Begun, WorldIs, PlayerIs, BackendIs
<1>7. r \in Worlds /\ r.taken = w.taken /\ r.b.events = <<>> /\ w.taken \in Seq(NativeEvents)
  BY <1>5, WorldFields DEF WorldIs, BackendIs
<1>8. /\ PreparationOnly(t, r)
      /\ \A q \in Seq(NativeEvents), i \in Nat :
           Settling(q, i) /\ ("recovery" \notin windows => ErrorsEnd(q, i))
             => CoreInv(t.p, t.saved) /\ EventsKept(t, r, q, i)
  <2>1. PreparationOnly(t, r)
    BY <1>1, <1>7, SyncGaplessWorlds
  <2>2. ASSUME NEW q \in Seq(NativeEvents), NEW i \in Nat, Settling(q, i),
               "recovery" \notin windows => ErrorsEnd(q, i)
        PROVE  CoreInv(t.p, t.saved) /\ EventsKept(t, r, q, i)
    <3>1. CoreInv(r.p, r.saved) /\ EventInv(r.p, r.b, q, i)
      BY <1>6, <2>2, BegunSound
    <3>2. Undisturbed => ~Waits(q, i, {"transition"})
      BY <2>2, SettlingWaits
    <3>. QED BY <1>1, <1>7, <3>1, <3>2, SyncGaplessKeeps
  <2>. QED BY <2>1, <2>2
<1>9. t.b.events = <<>> /\ t.taken \in {w.taken, AllStale(w.taken)}
  <2>1. AllStale(<<>>) = <<>>
    BY DEF AllStale
  <2>2. \/ KeepsEvents(t, r) \/ DropsEvents(t, r)
    BY <1>1, <1>7, SyncGaplessWorlds DEF Asked, Failing, Released, KeepsEvents
  <2>. QED BY <1>7, <2>1, <2>2 DEF KeepsEvents, DropsEvents
<1>10. Sound(t)
  <2>1. Settling(<<>>, 0) /\ ErrorsEnd(<<>>, 0)
    BY NoneWaits DEF Settling, ErrorsEnd
  <2>2. CoreInv(t.p, t.saved) /\ EventsKept(t, r, <<>>, 0)
    BY <1>8, <2>1, NoneWaits
  <2>3. AllStale(<<>>) = <<>>
    BY DEF AllStale
  <2>4. EventInv(t.p, t.b, <<>>, 0)
    BY <2>2, <2>3 DEF EventsKept
  <2>. QED BY <1>8, <1>9, <2>2, <2>4 DEF Sound, PreparationOnly
<1>11. ASSUME NEW i \in Nat, Settling(w.taken, i),
              "recovery" \notin windows => ErrorsEnd(w.taken, i)
       PROVE  SoundAfter(t, i)
  <2>1. CoreInv(t.p, t.saved) /\ EventsKept(t, r, w.taken, i)
    BY <1>7, <1>8, <1>11
  <2>2. EventInv(t.p, t.b, t.taken, i)
    BY <1>7, <2>1 DEF EventsKept, KeepsEvents, DropsEvents
  <2>. QED BY <1>8, <2>1, <2>2 DEF SoundAfter, PreparationOnly
<1>12. /\ t.saved = w.saved /\ t.refused = w.refused /\ t \in Worlds
       /\ PlayerIs(t.p, w.p.queue, index, state, Nothing, w.p.active, t.p.prepared, 0, NoPlan)
  BY <1>5, <1>8 DEF PreparationOnly, PlayerIs, WorldIs
<1>. QED BY <1>9, <1>10, <1>11, <1>12 DEF Loading

\* What loading a stream leaves: the entry is heard, or nothing is.
StreamEnds(t, w, entry, autoplay) ==
    /\ WorldIs(t, w.saved, t.refused, AllStale(w.taken)) /\ t.p = w.p
    /\ \/ t.refused = TRUE /\ BackendIs(t.b, NoEntry, t.b.paused, t.b.ended, NoNext, <<>>)
       \/ t.refused = w.refused /\ BackendIs(t.b, entry, ~autoplay, FALSE, NoNext, <<>>)

LEMMA StreamWorlds ==
  ASSUME NEW w \in Worlds, NEW entry \in Entries, NEW position \in {AtStart, Later},
         NEW autoplay \in BOOLEAN, NEW t \in LoadStream(w, entry, position, autoplay)
  PROVE  StreamEnds(t, w, entry, autoplay)
<1>. DEFINE s == StopBackend(w)
            c == ClearNativeEvents(s)
            h == Heard(w, entry, position, autoplay)
<1>1. /\ WorldIs(s, w.saved, w.refused, AllStale(w.taken)) /\ s.p = w.p
      /\ BackendIs(s.b, NoEntry, w.b.paused, w.b.ended, NoNext, AllStale(w.b.events))
  BY StoppedBackend
<1>. HIDE DEF s
<1>2. /\ WorldIs(c, w.saved, w.refused, AllStale(w.taken)) /\ c.p = w.p
      /\ BackendIs(c.b, NoEntry, c.b.paused, c.b.ended, NoNext, <<>>)
  BY <1>1, ClearedEvents DEF WorldIs, BackendIs
<1>. HIDE DEF c
<1>3. /\ WorldIs(Refused(c), w.saved, TRUE, AllStale(w.taken)) /\ Refused(c).p = w.p
      /\ BackendIs(Refused(c).b, NoEntry, Refused(c).b.paused, Refused(c).b.ended, NoNext, <<>>)
  BY <1>2, RefusedWorld DEF WorldIs
<1>4. /\ WorldIs(h, w.saved, w.refused, AllStale(w.taken)) /\ h.p = w.p
      /\ BackendIs(h.b, entry, ~autoplay, FALSE, NoNext, <<>>)
  BY HeardWorld
<1>5. t = h \/ t = Refused(c)
  BY DEF LoadStream, c, s
<1>. HIDE DEF h
<1>6. CASE t = h
  BY <1>4, <1>6 DEF WorldIs, StreamEnds
<1>7. CASE t = Refused(c)
  BY <1>3, <1>7 DEF WorldIs, StreamEnds
<1>. QED BY <1>5, <1>6, <1>7

\* A track is being loaded: it sounds, or nothing does.
Tried(t, w, index, autoplay) ==
    /\ t \in Worlds /\ t.saved = w.saved /\ t.taken \in {w.taken, AllStale(w.taken)}
    /\ PlayerIs(t.p, w.p.queue, index, "interrupted", Nothing, w.p.active, NoPrepared,
                w.p.attempts, w.p.plan)
    /\ t.b.next = NoNext /\ t.b.events = <<>>
    /\ \/ t.refused = TRUE /\ t.b.heard = NoEntry
       \/ /\ t.refused = FALSE
          /\ t.b.heard # NoEntry /\ SongOf[t.b.heard] = SongAt(w.p.queue, index)
          /\ t.b.paused = ~autoplay /\ t.b.ended = FALSE

\* What a load that failed leaves.
NotLoaded(t, w, index) ==
    /\ t \in Worlds /\ t.saved = w.saved /\ t.refused = TRUE
    /\ t.taken \in {w.taken, AllStale(w.taken)} /\ t.b.events = <<>>
    /\ PlayerIs(t.p, w.p.queue, index, "error", Nothing, w.p.active, NoPrepared,
                w.p.attempts, w.p.plan)
    /\ t.b.heard = NoEntry /\ t.b.next = NoNext

\* What load_track_at_index may rely on: a preparation that is under way is of
\* the song it says.
NextIsPrepared(w) ==
    PreparedActive(w.p) /\ w.b.next.state \in {"stored", "installed"}
      => w.b.next.entry \in Entries /\ SongOf[w.b.next.entry] = w.p.prepared.song

LEMMA ActivatedTried ==
  ASSUME NEW w \in Worlds, NEW l \in Worlds, w.refused = FALSE, NEW index \in Indices(w.p.queue),
         NEW autoplay \in BOOLEAN, NextIsPrepared(w), MayActivate(w, index, AtStart),
         WorldIs(l, w.saved, w.refused, w.taken),
         PlayerIs(l.p, w.p.queue, index, "interrupted", Nothing,
                     w.p.active, w.p.prepared, w.p.attempts, w.p.plan)
  PROVE  Tried(Heard([l EXCEPT !.p.prepared = NoPrepared], w.b.next.entry, AtStart, autoplay),
               w, index, autoplay)
<1>. DEFINE p == [l.p EXCEPT !.prepared = NoPrepared]
            m == [l EXCEPT !.p = p]
            h == Heard(m, w.b.next.entry, AtStart, autoplay)
<1>1. /\ w.b.next.entry \in Entries /\ SongOf[w.b.next.entry] = SongAt(w.p.queue, index)
  BY DEF MayActivate, NextIsPrepared, PreparedActive, IsTarget
<1>2. PlayerIs(p, w.p.queue, index, "interrupted", Nothing,
                     w.p.active, NoPrepared, w.p.attempts, w.p.plan)
  BY Values DEF Player, PlayerIs
<1>. HIDE DEF p
<1>3. WorldIs(m, w.saved, w.refused, w.taken) /\ m.p = p
  BY <1>2, WithPlayer DEF WorldIs, PlayerIs
<1>. HIDE DEF m
<1>4. /\ WorldIs(h, m.saved, m.refused, AllStale(m.taken)) /\ h.p = m.p
      /\ BackendIs(h.b, w.b.next.entry, ~autoplay, FALSE, NoNext, <<>>)
  BY <1>1, <1>3, HeardWorld, Values DEF WorldIs
<1>. HIDE DEF h
<1>5. w.b.next.entry # NoEntry
  BY <1>1, ControllerAssumption
<1>6. Tried(h, w, index, autoplay)
  BY <1>1, <1>2, <1>3, <1>4, <1>5 DEF Tried, WorldIs, BackendIs
<1>. QED BY <1>6 DEF h, m, p

LEMMA LoadedTried ==
  ASSUME NEW w \in Worlds, NEW l \in Worlds, w.refused = FALSE, NEW index \in Indices(w.p.queue),
         NEW position \in {AtStart, Later}, NEW autoplay \in BOOLEAN,
         WorldIs(l, w.saved, w.refused, w.taken),
         PlayerIs(l.p, w.p.queue, index, "interrupted", Nothing,
                     w.p.active, w.p.prepared, w.p.attempts, w.p.plan),
         NEW t \in LoadStream(ClearGapless(l), Entry(w, index), position, autoplay)
  PROVE  Tried(t, w, index, autoplay)
<1>. DEFINE c == ClearGapless(l)
            entry == Entry(w, index)
<1>1. entry \in Entries /\ SongOf[entry] = SongAt(w.p.queue, index)
  <2>1. w.p.queue \in Seq(Entries)
    BY WorldFields, PlayerFields
  <2>. QED BY <2>1 DEF Entry, ItemAt, Indices, SongAt
<1>2. entry # NoEntry
  BY <1>1, ControllerAssumption
<1>3. PreparationOnly(c, l) /\ Released(c, l)
  BY ReleasedWorld
<1>4. c.taken = l.taken \/ c.taken = AllStale(l.taken)
  BY <1>3 DEF Released, KeepsEvents, DropsEvents
<1>5. /\ c \in Worlds /\ c.saved = w.saved /\ c.refused = FALSE
      /\ PlayerIs(c.p, w.p.queue, index, "interrupted", Nothing, w.p.active, NoPrepared,
                w.p.attempts, w.p.plan)
  BY <1>3 DEF PreparationOnly, Released, PlayerIs, WorldIs
<1>. HIDE DEF c, entry
<1>6. AllStale(c.taken) = AllStale(w.taken)
  <2>1. w.taken \in Seq(NativeEvents)
    BY WorldFields
  <2>. QED BY <1>4, <2>1, StaleTwice DEF WorldIs
<1>7. /\ WorldIs(t, c.saved, t.refused, AllStale(c.taken)) /\ t.p = c.p
      /\ \/ t.refused = TRUE /\ BackendIs(t.b, NoEntry, t.b.paused, t.b.ended, NoNext, <<>>)
         \/ t.refused = c.refused /\ BackendIs(t.b, entry, ~autoplay, FALSE, NoNext, <<>>)
  <2>1. t \in LoadStream(c, entry, position, autoplay)
    BY DEF c, entry
  <2>2. StreamEnds(t, c, entry, autoplay)
    BY <1>1, <1>5, <2>1, StreamWorlds
  <2>. QED BY <2>2 DEF StreamEnds
<1>. QED BY <1>1, <1>2, <1>5, <1>6, <1>7 DEF Tried, WorldIs, BackendIs

\* load_track_at_index
LEMMA LoadTrackWorlds ==
  ASSUME NEW w \in Worlds, w.refused = FALSE, NEW index \in Indices(w.p.queue),
         NEW position \in {AtStart, Later}, NEW autoplay \in BOOLEAN,
         IndexIn(w.saved.queue, w.saved.currentIndex), NextIsPrepared(w),
         NEW t \in LoadTrack(w, index, position, autoplay)
  PROVE  NotLoaded(t, w, index) \/ Loading(t, w, index, autoplay)
<1>. DEFINE a == At(w, index, position, "interrupted")
            l == ClearNativeEvents(a)
            activated == Heard([l EXCEPT !.p.prepared = NoPrepared], w.b.next.entry, AtStart,
                               autoplay)
            loaded == LoadStream(ClearGapless(l), Entry(w, index), position, autoplay)
            tried == IF MayActivate(w, index, position) THEN {activated} \cup loaded ELSE loaded
<1>1. index \in Int
  BY WorldFields, PlayerFields DEF Indices
<1>2. /\ WorldIs(a, w.saved, w.refused, w.taken) /\ a.b = w.b
      /\ PlayerIs(a.p, w.p.queue, index, "interrupted", Nothing,
                     w.p.active, w.p.prepared, w.p.attempts, w.p.plan)
  BY <1>1, AtWorld DEF PlayingStates
<1>. HIDE DEF a
<1>3. /\ WorldIs(l, w.saved, w.refused, w.taken) /\ l.p = a.p
  BY <1>2, ClearedEvents DEF WorldIs
<1>4. PICK u \in tried : t \in (IF u.refused THEN {[u EXCEPT !.p.playingState = "error"]}
                                ELSE Started(u, index, position, autoplay))
  BY DEF LoadTrack, Valid, l, a
<1>. HIDE DEF l
<1>5. Tried(u, w, index, autoplay)
  <2>1. l \in Worlds
    BY <1>3 DEF WorldIs
  <2>2. CASE u \in loaded
    BY <1>2, <1>3, <2>1, <2>2, LoadedTried
  <2>3. CASE MayActivate(w, index, position) /\ u = activated
    <3>1. MayActivate(w, index, AtStart)
      BY <2>3 DEF MayActivate
    <3>. QED BY <1>2, <1>3, <2>1, <2>3, <3>1, ActivatedTried
  <2>. QED BY <1>4, <2>2, <2>3
<1>. HIDE DEF tried
<1>6. CASE u.refused
  <2>. DEFINE p == [u.p EXCEPT !.playingState = "error"]
  <2>1. t = [u EXCEPT !.p = p]
    BY <1>4, <1>6
  <2>2. PlayerIs(p, w.p.queue, index, "error", Nothing, w.p.active, NoPrepared,
                w.p.attempts, w.p.plan)
    BY <1>5 DEF Tried, Player, PlayerIs, PlayingStates
  <2>. HIDE DEF p
  <2>3. WorldIs(t, u.saved, u.refused, u.taken) /\ t.p = p /\ t.b = u.b
    BY <1>5, <2>1, <2>2, WithPlayer DEF Tried, PlayerIs
  <2>4. u.refused = TRUE /\ u.b.heard = NoEntry
    BY <1>5, <1>6 DEF Tried
  <2>. QED BY <1>5, <2>2, <2>3, <2>4 DEF NotLoaded, Tried, WorldIs
<1>7. CASE ~u.refused
  <2>1. t \in Started(u, index, position, autoplay)
    BY <1>4, <1>7
  <2>2. /\ u \in Worlds /\ index \in Indices(u.p.queue)
        /\ u.p.prepared = NoPrepared /\ u.b.next = NoNext
        /\ u.b.heard # NoEntry /\ SongOf[u.b.heard] = SongAt(u.p.queue, index)
        /\ u.b.paused = ~autoplay /\ u.b.ended = FALSE
        /\ u.saved = w.saved /\ u.refused = FALSE
        /\ u.taken \in {w.taken, AllStale(w.taken)}
        /\ u.p.queue = w.p.queue /\ u.p.active = w.p.active
    BY <1>5, <1>7 DEF Tried, PlayerIs
  <2>3. Loading(t, u, index, autoplay)
    BY <1>1, <2>1, <2>2, StartedKeeps
  <2>4. t.taken \in {w.taken, AllStale(w.taken)}
    <3>1. w.taken \in Seq(NativeEvents)
      BY WorldFields
    <3>. QED BY <2>2, <2>3, <3>1, StaleTwice DEF Loading
  <2>5. ASSUME NEW i \in Nat, Settling(w.taken, i),
               "recovery" \notin windows => ErrorsEnd(w.taken, i)
        PROVE  SoundAfter(t, i)
    <3>1. w.taken \in Seq(NativeEvents)
      BY WorldFields
    <3>2. /\ Waiting(u.taken, i) = Waiting(w.taken, i)
          /\ \A k \in Waiting(w.taken, i) : u.taken[k].kind = w.taken[k].kind
          /\ \A kinds : Waits(u.taken, i, kinds) <=> Waits(w.taken, i, kinds)
      BY <2>2, <3>1, StaleWaits
    <3>3. Settling(u.taken, i)
      BY <2>5, <3>2 DEF Settling
    <3>4. "recovery" \notin windows => ErrorsEnd(u.taken, i)
      BY <2>5, <3>2 DEF ErrorsEnd
    <3>. QED BY <2>3, <3>3, <3>4 DEF Loading
  <2>. QED BY <2>2, <2>3, <2>4, <2>5 DEF Loading
<1>. QED BY <1>6, <1>7

\* reload_track_at_index_exact: a failure leaves the player as it was.
LEMMA ReloadWorlds ==
  ASSUME NEW w \in Worlds, w.refused = FALSE, NEW index \in Int,
         NEW position \in {AtStart, Later}, NEW autoplay \in BOOLEAN,
         IndexIn(w.saved.queue, w.saved.currentIndex), w.p.prepared = NoPrepared,
         NEW t \in ReloadExact(w, index, position, autoplay)
  PROVE  \/ t = Refused(w) /\ index \notin Indices(w.p.queue)
         \/ /\ t \in Worlds /\ t.saved = w.saved /\ t.refused = TRUE /\ t.p = w.p
            /\ t.b.heard = NoEntry /\ t.b.next = NoNext /\ t.b.events = <<>>
         \/ index \in Indices(w.p.queue) /\ Loading(t, w, index, autoplay)
<1>1. CASE index \notin Indices(w.p.queue)
  BY <1>1 DEF ReloadExact, Valid
<1>2. CASE index \in Indices(w.p.queue)
  <2>. DEFINE c == ClearNativeEvents(w)
              entry == Entry(w, index)
              loaded == LoadStream(c, entry, position, autoplay)
  <2>1. entry \in Entries /\ SongOf[entry] = SongAt(w.p.queue, index)
    <3>1. w.p.queue \in Seq(Entries)
      BY WorldFields, PlayerFields
    <3>. QED BY <1>2, <3>1 DEF Entry, ItemAt, Indices, SongAt
  <2>2. entry # NoEntry
    BY <2>1, ControllerAssumption
  <2>3. WorldIs(c, w.saved, w.refused, w.taken) /\ c.p = w.p
    BY ClearedEvents
  <2>4. PICK u \in loaded :
          t \in (IF u.refused THEN {u} ELSE Started(u, index, position, autoplay))
    BY <1>2 DEF ReloadExact, Valid, Then
  <2>. HIDE DEF c, entry
  <2>5. /\ WorldIs(u, c.saved, u.refused, AllStale(c.taken)) /\ u.p = c.p
        /\ \/ u.refused = TRUE /\ BackendIs(u.b, NoEntry, u.b.paused, u.b.ended, NoNext, <<>>)
           \/ u.refused = c.refused /\ BackendIs(u.b, entry, ~autoplay, FALSE, NoNext, <<>>)
    <3>1. c \in Worlds
      BY <2>3 DEF WorldIs
    <3>2. u \in LoadStream(c, entry, position, autoplay)
      BY <2>4
    <3>. HIDE DEF loaded
    <3>3. StreamEnds(u, c, entry, autoplay)
      BY <2>1, <3>1, <3>2, StreamWorlds
    <3>. QED BY <3>3 DEF StreamEnds
  <2>. HIDE DEF loaded
  <2>6. CASE u.refused
    <3>1. t = u
      BY <2>4, <2>6
    <3>2. u.refused # c.refused
      BY <2>3, <2>6 DEF WorldIs
    <3>3. BackendIs(u.b, NoEntry, u.b.paused, u.b.ended, NoNext, <<>>) /\ u.refused = TRUE
      BY <2>5, <3>2
    <3>4. u \in Worlds /\ u.saved = w.saved /\ u.p = w.p
      BY <2>3, <2>5 DEF WorldIs
    <3>. QED BY <3>1, <3>3, <3>4 DEF BackendIs
  <2>7. CASE ~u.refused
    <3>1. t \in Started(u, index, position, autoplay)
      BY <2>4, <2>7
    <3>2. /\ u \in Worlds /\ index \in Indices(u.p.queue)
          /\ u.p = w.p /\ u.p.prepared = NoPrepared /\ u.b.next = NoNext
          /\ u.b.heard # NoEntry /\ SongOf[u.b.heard] = SongAt(u.p.queue, index)
          /\ u.b.paused = ~autoplay /\ u.b.ended = FALSE
          /\ u.saved = w.saved /\ u.refused = FALSE
          /\ u.taken = AllStale(w.taken)
      BY <1>2, <2>1, <2>2, <2>3, <2>5, <2>7 DEF WorldIs, BackendIs
    <3>3. Loading(t, u, index, autoplay)
      BY <3>1, <3>2, StartedKeeps
    <3>4. w.taken \in Seq(NativeEvents)
      BY WorldFields
    <3>5. t.taken \in {w.taken, AllStale(w.taken)}
      BY <3>2, <3>3, <3>4, StaleTwice DEF Loading
    <3>6. ASSUME NEW i \in Nat, Settling(w.taken, i),
                 "recovery" \notin windows => ErrorsEnd(w.taken, i)
          PROVE  SoundAfter(t, i)
      <4>1. /\ Waiting(u.taken, i) = Waiting(w.taken, i)
            /\ \A k \in Waiting(w.taken, i) : u.taken[k].kind = w.taken[k].kind
            /\ \A kinds : Waits(u.taken, i, kinds) <=> Waits(w.taken, i, kinds)
        BY <3>2, <3>4, StaleWaits
      <4>2. Settling(u.taken, i)
        BY <3>6, <4>1 DEF Settling
      <4>3. "recovery" \notin windows => ErrorsEnd(u.taken, i)
        BY <3>6, <4>1 DEF ErrorsEnd
      <4>. QED BY <3>3, <4>2, <4>3 DEF Loading
    <3>. QED BY <1>2, <3>2, <3>3, <3>5, <3>6 DEF Loading
  <2>. QED BY <2>6, <2>7
<1>. QED BY <1>1, <1>2

-----------------------------------------------------------------------------
\* Native events.

\* The event after the first i, and what waits after it.
LEMMA NextWaits ==
  ASSUME NEW q \in Seq(NativeEvents), NEW i \in Nat, i + 1 \in DOMAIN q
  PROVE  /\ q[i + 1] \in NativeEvents /\ i + 1 \in Waiting(q, i)
         /\ Waiting(q, i + 1) \subseteq Waiting(q, i)
         /\ \A k \in Waiting(q, i) : k = i + 1 \/ k \in Waiting(q, i + 1)
         /\ \A k \in Waiting(q, i + 1) : k > i + 1
         /\ \A kinds : Waits(q, i, kinds) <=> q[i + 1].kind \in kinds \/ Waits(q, i + 1, kinds)
         /\ \A kind : WaitsFresh(q, i, kind)
                        <=> \/ q[i + 1].kind = kind /\ ~q[i + 1].stale
                            \/ WaitsFresh(q, i + 1, kind)
<1>1. DOMAIN q \subseteq Nat /\ q[i + 1] \in NativeEvents
  OBVIOUS
<1>2. /\ i + 1 \in Waiting(q, i) /\ Waiting(q, i + 1) \subseteq Waiting(q, i)
      /\ \A k \in Waiting(q, i) : k = i + 1 \/ k \in Waiting(q, i + 1)
      /\ \A k \in Waiting(q, i + 1) : k > i + 1
  BY <1>1 DEF Waiting
<1>. QED BY <1>1, <1>2 DEF Waits, WaitsFresh

\* What goes on holding when one event less waits.
LEMMA PassedEvent ==
  ASSUME NEW p, NEW b, NEW q \in Seq(NativeEvents), NEW i \in Nat, i + 1 \in DOMAIN q
  PROVE  /\ NextInv(p, b, q, i) => NextInv(p, b, q, i + 1)
         /\ RecoveryInv(p, b, q, i) => RecoveryInv(p, b, q, i + 1)
         /\ OrderInv(p, b, q, i) => OrderInv(p, b, q, i + 1)
         /\ SilentInv(p, b, q, i) => SilentInv(p, b, q, i + 1)
         /\ q[i + 1].kind \notin {"transition", "failed"} /\ ReadyInv(p, b, q, i)
              => ReadyInv(p, b, q, i + 1)
         /\ q[i + 1].kind \notin Deciding \cup EndKinds /\ HeardInv(p, b, q, i)
              => HeardInv(p, b, q, i + 1)
<1>1. /\ q[i + 1] \in NativeEvents /\ i + 1 \in Waiting(q, i)
      /\ Waiting(q, i + 1) \subseteq Waiting(q, i)
      /\ \A k \in Waiting(q, i) : k = i + 1 \/ k \in Waiting(q, i + 1)
      /\ \A k \in Waiting(q, i + 1) : k > i + 1
      /\ \A kinds : Waits(q, i, kinds) <=> q[i + 1].kind \in kinds \/ Waits(q, i + 1, kinds)
      /\ \A kind : WaitsFresh(q, i, kind)
                        <=> \/ q[i + 1].kind = kind /\ ~q[i + 1].stale
                            \/ WaitsFresh(q, i + 1, kind)
  BY NextWaits
<1>2. NextInv(p, b, q, i) => NextInv(p, b, q, i + 1)
  BY <1>1 DEF NextInv
<1>3. RecoveryInv(p, b, q, i) => RecoveryInv(p, b, q, i + 1)
  BY <1>1 DEF RecoveryInv, ErrorsEnd
<1>4. OrderInv(p, b, q, i) => OrderInv(p, b, q, i + 1)
  BY <1>1 DEF OrderInv
<1>5. SilentInv(p, b, q, i) => SilentInv(p, b, q, i + 1)
  BY <1>1 DEF SilentInv
<1>6. ASSUME q[i + 1].kind \notin {"transition", "failed"}, ReadyInv(p, b, q, i)
      PROVE  ReadyInv(p, b, q, i + 1)
  BY <1>1, <1>6 DEF ReadyInv
<1>7. ASSUME q[i + 1].kind \notin Deciding \cup EndKinds, HeardInv(p, b, q, i)
      PROVE  HeardInv(p, b, q, i + 1)
  <2>1. q[i + 1].kind \notin {"transition"}
    BY <1>7 DEF Deciding
  <2>2. ASSUME NEW k \in Waiting(q, i + 1), q[k].kind \in Deciding,
               \A l \in Waiting(q, i + 1) : l > k => q[l].kind \notin Deciding,
               Undisturbed /\ p.active /\ Showing(p) \in ShowingStates
        PROVE  b.paused = (q[k].kind = "paused")
    <3>1. k \in Waiting(q, i) /\ k > i + 1
      BY <1>1, <2>2
    <3>2. \A l \in Waiting(q, i) : l > k => q[l].kind \notin Deciding
      BY <1>1, <1>7, <2>2
    <3>. QED BY <1>7, <2>2, <3>1, <3>2 DEF HeardInv
  <2>. QED BY <1>1, <1>7, <2>1, <2>2 DEF HeardInv
<1>. QED BY <1>2, <1>3, <1>4, <1>5, <1>6, <1>7

\* The same of another player that shows the same.
LEMMA LikeEvents ==
  ASSUME NEW p, NEW old, NEW b, NEW q, NEW i,
         p.queue = old.queue, p.currentIndex = old.currentIndex, p.active = old.active,
         p.prepared = old.prepared, p.plan = old.plan, Showing(p) = Showing(old)
  PROVE  /\ NextInv(old, b, q, i) => NextInv(p, b, q, i)
         /\ ReadyInv(old, b, q, i) => ReadyInv(p, b, q, i)
         /\ RecoveryInv(old, b, q, i) => RecoveryInv(p, b, q, i)
         /\ OrderInv(old, b, q, i) => OrderInv(p, b, q, i)
         /\ HeardInv(old, b, q, i) => HeardInv(p, b, q, i)
         /\ p.playingState = old.playingState /\ SilentInv(old, b, q, i) => SilentInv(p, b, q, i)
<1>1. PreparedActive(p) <=> PreparedActive(old)
  BY DEF PreparedActive
<1>2. NextTarget(p) <=> NextTarget(old)
  BY DEF NextTarget
<1>. QED BY <1>1, <1>2 DEF NextInv, ReadyInv, RecoveryInv, OrderInv, HeardInv, SilentInv

LEMMA LikeCore ==
  ASSUME NEW p, NEW old, NEW file, CoreInv(old, file),
         p.queue = old.queue, p.currentIndex = old.currentIndex, p.active = old.active,
         p.prepared = old.prepared, p.plan = old.plan, p.attempts = old.attempts,
         p.playingState = old.playingState
  PROVE  CoreInv(p, file)
<1>1. NextTarget(p) <=> NextTarget(old)
  BY DEF NextTarget
<1>. QED BY <1>1 DEF CoreInv, IndexInv, PlanInv, DesktopInv

\* What a handled event may do to the index and to a scheduled recovery.
Moves(u, w) ==
    OnDesktop =>
      \/ u.p.currentIndex > w.p.currentIndex /\ (u.p.plan = NoPlan \/ u.refused)
      \/ /\ u.p.currentIndex = w.p.currentIndex /\ u.p.attempts = w.p.attempts
         /\ w.p.plan # NoPlan => u.p.plan = w.p.plan
         /\ u.p.plan = w.p.plan \/ u.p.plan.index = u.p.currentIndex

\* An event is about to be handled, and is.
Taking(w, i) ==
    /\ SoundAfter(w, i) /\ w.refused = FALSE /\ w.b.events = <<>>
    /\ i \in Nat /\ i + 1 \in DOMAIN w.taken /\ reports \in Troubles
Handled(u, w, i) ==
    /\ u \in Worlds /\ u.b.events = <<>> /\ Len(u.taken) = Len(w.taken)
    /\ u.p.queue = w.p.queue /\ u.p.active = w.p.active /\ u.saved = w.saved
    /\ Moves(u, w)
    /\ IF u.refused THEN Sound(u) ELSE SoundAfter(u, i)

\* The event says nothing of what is heard, and only the position is told.
LEMMA PassedKeeps ==
  ASSUME NEW w, NEW i, Taking(w, i), NEW u, WorldIs(u, w.saved, w.refused, w.taken), u.b = w.b,
         PlayerLike(u.p, w.p),
         w.taken[i + 1].kind \notin Deciding \cup EndKinds,
         \/ w.taken[i + 1].kind # "failed"
         \/ ~PreparedActive(w.p) \/ w.taken[i + 1].stale
  PROVE  Handled(u, w, i + 1)
<1>1. /\ w \in Worlds /\ w.taken \in Seq(NativeEvents) /\ i \in Nat /\ i + 1 \in DOMAIN w.taken
      /\ CoreInv(w.p, w.saved) /\ EventInv(w.p, w.b, w.taken, i)
  BY WorldFields DEF Taking, SoundAfter
<1>2. /\ u.p.queue = w.p.queue /\ u.p.currentIndex = w.p.currentIndex /\ u.p.active = w.p.active
      /\ u.p.prepared = w.p.prepared /\ u.p.plan = w.p.plan /\ u.p.attempts = w.p.attempts
      /\ u.p.playingState = w.p.playingState /\ Showing(u.p) = Showing(w.p)
  BY DEF PlayerLike, PlayerIs, Showing
<1>3. ReadyInv(w.p, w.b, w.taken, i + 1)
  <2>1. w.taken[i + 1].kind # "transition"
    BY DEF Deciding
  <2>2. CASE w.taken[i + 1].kind # "failed"
    BY <1>1, <2>1, <2>2, PassedEvent DEF EventInv
  <2>3. CASE ~PreparedActive(w.p)
    BY <2>3 DEF ReadyInv
  <2>4. CASE w.taken[i + 1].stale
    BY <1>1, <2>1, <2>4, NextWaits DEF EventInv, ReadyInv
  <2>. QED BY <2>2, <2>3, <2>4
<1>4. EventInv(w.p, w.b, w.taken, i + 1)
  BY <1>1, <1>3, PassedEvent DEF EventInv, StatusInv
<1>5. EventInv(u.p, w.b, w.taken, i + 1)
  BY <1>2, <1>4, LikeEvents DEF EventInv, StatusInv
<1>6. CoreInv(u.p, u.saved)
  BY <1>1, <1>2, LikeCore DEF WorldIs
<1>7. Moves(u, w)
  BY <1>2 DEF Moves
<1>. QED BY <1>2, <1>5, <1>6, <1>7 DEF Handled, SoundAfter, WorldIs, Taking

LEMMA PreparedState ==
  ASSUME NEW prepared \in PreparedTracks, NEW state \in {"ready", "failed"}
  PROVE  LET other == [prepared EXCEPT !.state = state]
         IN  /\ other \in PreparedTracks /\ other.state = state
             /\ other.index = prepared.index /\ other.song = prepared.song
BY DEF PreparedTracks

LEMMA HandledPrepared ==
  ASSUME NEW w, NEW i, NEW context, Taking(w, i), w.taken[i + 1].kind = "prepared",
         NEW u \in Handle(w, w.taken[i + 1], context)
  PROVE  Handled(u, w, i + 1)
<1>. DEFINE e == w.taken[i + 1]
            prepared == [w.p.prepared EXCEPT !.state = "ready"]
            p == [w.p EXCEPT !.prepared = prepared]
<1>1. /\ w \in Worlds /\ w.taken \in Seq(NativeEvents) /\ i \in Nat /\ i + 1 \in DOMAIN w.taken
      /\ CoreInv(w.p, w.saved) /\ EventInv(w.p, w.b, w.taken, i)
  BY WorldFields DEF Taking, SoundAfter
<1>2. CASE u = w
  BY <1>1, <1>2, PassedKeeps, WorldFields DEF PlayerLike, Deciding, EndKinds
<1>3. CASE OfPrepared(w, e) /\ w.p.prepared.state = "preparing" /\ u = [w EXCEPT !.p = p]
  <2>1. /\ prepared \in PreparedTracks /\ prepared.state = "ready"
        /\ prepared.index = w.p.prepared.index /\ prepared.song = w.p.prepared.song
    <3>1. w.p.prepared \in PreparedTracks
      BY <1>1, WorldFields, PlayerFields
    <3>. QED BY <3>1, PreparedState
  <2>. HIDE DEF prepared
  <2>2. PlayerIs(p, w.p.queue, w.p.currentIndex, w.p.playingState, w.p.resume,
                     w.p.active, prepared, w.p.attempts, w.p.plan)
    BY <1>1, <2>1 DEF Worlds, Player, PlayerIs
  <2>. HIDE DEF p
  <2>3. WorldIs(u, w.saved, w.refused, w.taken) /\ u.p = p /\ u.b = w.b
    BY <1>1, <1>3, <2>2, WithPlayer DEF PlayerIs
  <2>4. /\ u.p.queue = w.p.queue /\ u.p.currentIndex = w.p.currentIndex
        /\ u.p.active = w.p.active
        /\ u.p.prepared = prepared /\ u.p.plan = w.p.plan /\ u.p.attempts = w.p.attempts
        /\ u.p.playingState = w.p.playingState /\ Showing(u.p) = Showing(w.p)
    BY <2>2, <2>3 DEF PlayerIs, Showing
  <2>5. /\ w.p.prepared # NoPrepared /\ prepared # NoPrepared
        /\ PreparedActive(w.p) /\ PreparedActive(u.p)
        /\ NextTarget(u.p) <=> NextTarget(w.p)
    BY <1>3, <2>1, <2>4, Values DEF OfPrepared, PreparedActive, NextTarget, Nothing
  <2>6. CoreInv(u.p, u.saved)
    BY <1>1, <2>1, <2>3, <2>4, <2>5 DEF CoreInv, IndexInv, PlanInv, DesktopInv, Nothing, WorldIs
  <2>7. NextInv(w.p, w.b, w.taken, i + 1) /\ StatusInv(w.p, w.b, w.taken, i + 1)
    BY <1>1, PassedEvent DEF EventInv, StatusInv, Deciding, EndKinds
  <2>8. NextInv(u.p, w.b, w.taken, i + 1)
    BY <2>1, <2>4, <2>5, <2>7 DEF NextInv
  <2>9. ReadyInv(u.p, w.b, w.taken, i + 1)
    <3>1. WaitsFresh(w.taken, i, "prepared")
      BY <1>1, <1>3, NextWaits DEF OfPrepared
    <3>2. w.b.next # NoNext => w.b.next.state \in {"stored", "installed"}
      BY <1>1, <3>1 DEF EventInv, NextInv
    <3>3. ReadyInv(w.p, w.b, w.taken, i + 1)
      BY <1>1, PassedEvent DEF EventInv
    <3>. QED BY <2>5, <3>2, <3>3 DEF ReadyInv
  <2>10. StatusInv(u.p, w.b, w.taken, i + 1)
    <3>1. RecoveryInv(u.p, w.b, w.taken, i + 1)
      BY <2>4, <2>7 DEF StatusInv, RecoveryInv
    <3>2. OrderInv(u.p, w.b, w.taken, i + 1)
      BY <2>5, <2>7 DEF StatusInv, OrderInv
    <3>3. HeardInv(u.p, w.b, w.taken, i + 1)
      BY <2>1, <2>4, <2>5, <2>7 DEF StatusInv, HeardInv
    <3>4. SilentInv(u.p, w.b, w.taken, i + 1)
      BY <2>4, <2>5, <2>7 DEF StatusInv, SilentInv
    <3>. QED BY <3>1, <3>2, <3>3, <3>4 DEF StatusInv
  <2>11. Moves(u, w)
    BY <2>4 DEF Moves
  <2>. QED BY <2>3, <2>4, <2>6, <2>8, <2>9, <2>10, <2>11
           DEF Handled, SoundAfter, EventInv, WorldIs, Taking
<1>4. \/ u = w
      \/ OfPrepared(w, e) /\ w.p.prepared.state = "preparing" /\ u = [w EXCEPT !.p = p]
  BY DEF Handle
<1>. QED BY <1>2, <1>3, <1>4

LEMMA HandledFailed ==
  ASSUME NEW w, NEW i, NEW context, Taking(w, i), w.taken[i + 1].kind = "failed",
         NEW u \in Handle(w, w.taken[i + 1], context)
  PROVE  Handled(u, w, i + 1)
<1>. DEFINE e == w.taken[i + 1]
            prepared == [w.p.prepared EXCEPT !.state = "failed"]
            p == [w.p EXCEPT !.prepared = prepared]
<1>1. /\ w \in Worlds /\ w.taken \in Seq(NativeEvents) /\ i \in Nat /\ i + 1 \in DOMAIN w.taken
      /\ CoreInv(w.p, w.saved) /\ EventInv(w.p, w.b, w.taken, i)
  BY WorldFields DEF Taking, SoundAfter
<1>2. CASE u = w /\ ~OfPrepared(w, e)
  <2>1. ~PreparedActive(w.p) \/ e.stale
    BY <1>2, NotPrepared DEF OfPrepared
  <2>. QED BY <1>1, <1>2, <2>1, PassedKeeps, WorldFields DEF PlayerLike, Deciding, EndKinds
<1>3. CASE OfPrepared(w, e) /\ u = [w EXCEPT !.p = p]
  <2>1. /\ prepared \in PreparedTracks /\ prepared.state = "failed"
        /\ prepared.index = w.p.prepared.index /\ prepared.song = w.p.prepared.song
    <3>1. w.p.prepared \in PreparedTracks
      BY <1>1, WorldFields, PlayerFields
    <3>. QED BY <3>1, PreparedState
  <2>. HIDE DEF prepared
  <2>2. PlayerIs(p, w.p.queue, w.p.currentIndex, w.p.playingState, w.p.resume,
                     w.p.active, prepared, w.p.attempts, w.p.plan)
    BY <1>1, <2>1 DEF Worlds, Player, PlayerIs
  <2>. HIDE DEF p
  <2>3. WorldIs(u, w.saved, w.refused, w.taken) /\ u.p = p /\ u.b = w.b
    BY <1>1, <1>3, <2>2, WithPlayer DEF PlayerIs
  <2>4. /\ u.p.queue = w.p.queue /\ u.p.currentIndex = w.p.currentIndex
        /\ u.p.active = w.p.active
        /\ u.p.prepared = prepared /\ u.p.plan = w.p.plan /\ u.p.attempts = w.p.attempts
        /\ u.p.playingState = w.p.playingState /\ Showing(u.p) = Showing(w.p)
    BY <2>2, <2>3 DEF PlayerIs, Showing
  <2>5. /\ w.p.prepared # NoPrepared /\ prepared # NoPrepared
        /\ ~PreparedActive(u.p)
        /\ NextTarget(u.p) <=> NextTarget(w.p)
    BY <1>3, <2>1, <2>4, Values DEF OfPrepared, PreparedActive, NextTarget, Nothing
  <2>6. CoreInv(u.p, u.saved)
    BY <1>1, <2>1, <2>3, <2>4, <2>5 DEF CoreInv, IndexInv, PlanInv, DesktopInv, Nothing, WorldIs
  <2>7. NextInv(w.p, w.b, w.taken, i + 1) /\ StatusInv(w.p, w.b, w.taken, i + 1)
    BY <1>1, PassedEvent DEF EventInv, StatusInv, Deciding, EndKinds
  <2>8. WaitsFresh(w.taken, i, "failed")
    BY <1>1, <1>3, NextWaits DEF OfPrepared
  <2>9. w.b.next = NoNext
    BY <1>1, <2>8 DEF EventInv, NextInv
  <2>10. NextInv(u.p, w.b, w.taken, i + 1) /\ ReadyInv(u.p, w.b, w.taken, i + 1)
    BY <2>5, <2>7 DEF NextInv, ReadyInv
  <2>11. StatusInv(u.p, w.b, w.taken, i + 1)
    <3>1. RecoveryInv(u.p, w.b, w.taken, i + 1)
      BY <2>4, <2>7 DEF StatusInv, RecoveryInv
    <3>2. OrderInv(u.p, w.b, w.taken, i + 1)
      BY <2>7, <2>9 DEF StatusInv, OrderInv
    <3>3. HeardInv(u.p, w.b, w.taken, i + 1)
      <4>1. HeardInv(w.p, w.b, w.taken, i) /\ HeardInv(w.p, w.b, w.taken, i + 1)
        BY <1>1, <2>7 DEF EventInv, StatusInv
      <4>2. Waits(w.taken, i + 1, {"transition"}) => Waits(w.taken, i, {"transition"})
        BY <1>1, NextWaits
      <4>3. Undisturbed /\ w.p.active /\ Showing(w.p) \in ShowingStates
              => ~Waits(w.taken, i + 1, {"transition"})
        BY <2>8, <4>1, <4>2 DEF HeardInv
      <4>. QED BY <2>4, <2>5, <4>1, <4>3 DEF HeardInv
    <3>4. SilentInv(u.p, w.b, w.taken, i + 1)
      BY <2>4, <2>5, <2>7 DEF StatusInv, SilentInv
    <3>. QED BY <3>1, <3>2, <3>3, <3>4 DEF StatusInv
  <2>12. Moves(u, w)
    BY <2>4 DEF Moves
  <2>. QED BY <2>3, <2>4, <2>6, <2>10, <2>11, <2>12
           DEF Handled, SoundAfter, EventInv, WorldIs, Taking
<1>4. \/ u = w /\ ~OfPrepared(w, e)
      \/ OfPrepared(w, e) /\ u = [w EXCEPT !.p = p]
  BY DEF Handle
<1>. QED BY <1>2, <1>3, <1>4

\* From what is kept of the events to what is sound, in a batch and between steps.
LEMMA KeptAfter ==
  ASSUME NEW w \in Worlds, NEW t, NEW i \in Nat, PreparationOnly(t, w),
         CoreInv(t.p, t.saved), EventsKept(t, w, w.taken, i), w.b.events = <<>>
  PROVE  SoundAfter(t, i) /\ t.b.events = <<>> /\ Len(t.taken) = Len(w.taken)
<1>1. w.taken \in Seq(NativeEvents)
  BY WorldFields
<1>2. AllStale(<<>>) = <<>>
  BY DEF AllStale
<1>3. Len(AllStale(w.taken)) = Len(w.taken)
  BY <1>1, AllStaleEvents
<1>. QED BY <1>1, <1>2, <1>3 DEF SoundAfter, EventsKept, KeepsEvents, DropsEvents, PreparationOnly

LEMMA KeptSound ==
  ASSUME NEW w \in Worlds, NEW t, PreparationOnly(t, w),
         CoreInv(t.p, t.saved), EventsKept(t, w, w.b.events, 0)
  PROVE  Sound(t)
BY DEF Sound, EventsKept, KeepsEvents, DropsEvents, PreparationOnly

LEMMA TransitionMoves ==
  ASSUME NEW w, NEW i, Taking(w, i), w.taken[i + 1].kind = "transition", PreparedActive(w.p),
         NEW m \in Worlds, m.b = w.b, m.taken = w.taken, m.saved = w.saved,
         w.p.prepared.index \in Indices(w.p.queue),
         PlayerIs(m.p, w.p.queue, w.p.prepared.index, "playing", Nothing, w.p.active, NoPrepared,
                  w.p.attempts, w.p.plan)
  PROVE  /\ CoreInv(m.p, m.saved) /\ EventInv(m.p, m.b, w.taken, i + 1)
         /\ Undisturbed => ~Waits(w.taken, i + 1, {"transition"})
         /\ OnDesktop => /\ w.p.prepared.index = w.p.currentIndex + 1
                         /\ w.p.plan = NoPlan
<1>. DEFINE q == w.taken
<1>1. /\ w \in Worlds /\ q \in Seq(NativeEvents) /\ i \in Nat /\ i + 1 \in DOMAIN q
      /\ CoreInv(w.p, w.saved) /\ EventInv(w.p, w.b, q, i) /\ reports \in Troubles
  BY WorldFields DEF Taking, SoundAfter
<1>2. /\ m.p.queue = w.p.queue /\ m.p.currentIndex = w.p.prepared.index
      /\ m.p.playingState = "playing" /\ m.p.active = w.p.active /\ m.p.prepared = NoPrepared
      /\ m.p.attempts = w.p.attempts /\ m.p.plan = w.p.plan /\ Showing(m.p) = "playing"
      /\ ~PreparedActive(m.p) /\ m.p.prepared.state = Nothing
  BY NotPrepared DEF PlayerIs, Showing
<1>3. w.p.prepared # NoPrepared
  BY NotPrepared
<1>4. OnDesktop => w.p.prepared.index = w.p.currentIndex + 1 /\ w.p.plan = NoPlan
  BY <1>1, <1>3 DEF CoreInv, DesktopInv, NextTarget
<1>5. w.p.plan = NoPlan
  BY <1>1, <1>4, ControllerAssumption DEF CoreInv, PlanInv, OnDesktop, OnAndroid
<1>6. CoreInv(m.p, m.saved)
  BY <1>1, <1>2, <1>5 DEF CoreInv, IndexInv, PlanInv, DesktopInv, IndexIn
<1>7. /\ i + 1 \in Waiting(q, i) /\ Waiting(q, i + 1) \subseteq Waiting(q, i)
      /\ \A k \in Waiting(q, i) : k = i + 1 \/ k \in Waiting(q, i + 1)
      /\ \A k \in Waiting(q, i + 1) : k > i + 1
      /\ \A kinds : Waits(q, i, kinds) <=> q[i + 1].kind \in kinds \/ Waits(q, i + 1, kinds)
      /\ \A kind : WaitsFresh(q, i, kind)
                        <=> \/ q[i + 1].kind = kind /\ ~q[i + 1].stale
                            \/ WaitsFresh(q, i + 1, kind)
  BY <1>1, NextWaits
<1>8. Waits(q, i, {"transition"})
  BY <1>7
<1>9. Undisturbed => ~Waits(q, i + 1, {"transition"}) /\ w.b.next = NoNext
  <2>1. Undisturbed => \A k \in Waiting(q, i + 1) : q[k].kind # "transition"
    BY <1>1, <1>7 DEF EventInv, StatusInv, OrderInv
  <2>. QED BY <1>1, <1>8, <2>1 DEF EventInv, StatusInv, OrderInv, Waits
<1>10. /\ NextInv(w.p, w.b, q, i + 1) /\ RecoveryInv(w.p, w.b, q, i + 1)
       /\ OrderInv(w.p, w.b, q, i + 1)
  BY <1>1, PassedEvent DEF EventInv, StatusInv
<1>11. NextInv(m.p, m.b, q, i + 1) /\ ReadyInv(m.p, m.b, q, i + 1)
  BY <1>2, <1>10 DEF NextInv, ReadyInv
<1>12. RecoveryInv(m.p, m.b, q, i + 1)
  BY <1>2, <1>10 DEF RecoveryInv
<1>13. OrderInv(m.p, m.b, q, i + 1)
  BY <1>2, <1>9, <1>10 DEF OrderInv
<1>14. HeardInv(m.p, m.b, q, i + 1)
  <2>. SUFFICES ASSUME Undisturbed, w.p.active PROVE HeardInv(m.p, m.b, q, i + 1)
    BY <1>2 DEF HeardInv
  <2>1. Showing(w.p) \in ShowingStates
    BY <1>1, <1>8 DEF EventInv, StatusInv, SilentInv
  <2>2. /\ w.b.heard # NoEntry /\ NextTarget(w.p)
        /\ SongOf[w.b.heard] = w.p.prepared.song
        /\ w.b.ended => Waits(q, i, EndKinds)
        /\ \A k \in Waiting(q, i) :
              q[k].kind \in Deciding
                /\ (\A l \in Waiting(q, i) : l > k => q[l].kind \notin Deciding)
                => w.b.paused = (q[k].kind = "paused")
    BY <1>1, <1>8, <2>1 DEF EventInv, StatusInv, HeardInv
  <2>3. SongOf[w.b.heard] = SongAt(m.p.queue, m.p.currentIndex)
    BY <1>2, <2>2 DEF NextTarget
  <2>4. w.b.ended => Waits(q, i + 1, EndKinds)
    BY <1>7, <2>2 DEF EndKinds
  <2>5. ASSUME ~Waits(q, i + 1, Deciding)
        PROVE  w.b.paused = (Showing(m.p) = "paused")
    <3>1. \A l \in Waiting(q, i) : l > i + 1 => l \in Waiting(q, i + 1)
      BY DEF Waiting
    <3>2. \A l \in Waiting(q, i) : l > i + 1 => q[l].kind \notin Deciding
      BY <2>5, <3>1 DEF Waits
    <3>. QED BY <1>2, <1>7, <2>2, <3>2 DEF Deciding
  <2>6. ASSUME NEW k \in Waiting(q, i + 1), q[k].kind \in Deciding,
               \A l \in Waiting(q, i + 1) : l > k => q[l].kind \notin Deciding
        PROVE  w.b.paused = (q[k].kind = "paused")
    <3>1. k \in Waiting(q, i) /\ k > i + 1
      BY <1>7
    <3>2. DOMAIN q \subseteq Nat /\ k \in DOMAIN q /\ \A l \in Waiting(q, i) : l \in DOMAIN q
      BY <1>1, <3>1 DEF Waiting
    <3>3. \A l \in Waiting(q, i) : l > k => q[l].kind \notin Deciding
      BY <1>1, <1>7, <2>6, <3>1, <3>2
    <3>. QED BY <2>2, <2>6, <3>1, <3>3
  <2>. QED BY <1>2, <1>9, <2>2, <2>3, <2>4, <2>5, <2>6 DEF HeardInv
<1>15. SilentInv(m.p, m.b, q, i + 1)
  BY <1>2 DEF SilentInv, ShowingStates
<1>. QED BY <1>4, <1>6, <1>9, <1>11, <1>12, <1>13, <1>14, <1>15 DEF EventInv, StatusInv

LEMMA HandledTransition ==
  ASSUME NEW w, NEW i, NEW context, Taking(w, i), w.taken[i + 1].kind = "transition",
         NEW u \in Handle(w, w.taken[i + 1], context)
  PROVE  Handled(u, w, i + 1)
<1>. DEFINE q == w.taken
            target == w.p.prepared.index
<1>1. /\ w \in Worlds /\ q \in Seq(NativeEvents) /\ i \in Nat /\ i + 1 \in DOMAIN q
      /\ CoreInv(w.p, w.saved) /\ EventInv(w.p, w.b, q, i) /\ reports \in Troubles
      /\ w.b.events = <<>> /\ w.refused = FALSE
  BY WorldFields DEF Taking, SoundAfter
<1>2. u \in HandleTransition(w, context)
  BY DEF Handle
<1>3. /\ Waits(q, i, {"transition"})
      /\ NextInv(w.p, w.b, q, i + 1) /\ RecoveryInv(w.p, w.b, q, i + 1)
      /\ OrderInv(w.p, w.b, q, i + 1) /\ SilentInv(w.p, w.b, q, i + 1)
  BY <1>1, NextWaits, PassedEvent DEF EventInv, StatusInv
<1>4. CASE ~PreparedActive(w.p)
  <2>1. u = w
    BY <1>2, <1>4 DEF HandleTransition, PreparedActive
  <2>2. ReadyInv(w.p, w.b, q, i + 1)
    BY <1>4 DEF ReadyInv
  <2>3. HeardInv(w.p, w.b, q, i + 1)
    BY <1>1, <1>3, <1>4 DEF EventInv, StatusInv, HeardInv
  <2>4. Moves(u, w)
    BY <2>1 DEF Moves
  <2>. QED BY <1>1, <1>3, <2>1, <2>2, <2>3, <2>4 DEF Handled, SoundAfter, EventInv, StatusInv
<1>5. CASE PreparedActive(w.p) /\ target \notin Indices(w.p.queue)
  <2>1. u = ClearGapless(w)
    BY <1>2, <1>5 DEF HandleTransition, PreparedActive, Valid
  <2>2. PreparationOnly(u, w) /\ Released(u, w) /\ w.p.prepared # NoPrepared
    BY <1>1, <1>5, <2>1, ReleasedWorld, NotPrepared
  <2>3. DropsEvents(u, w) /\ u.b.next = NoNext /\ u.p.prepared = NoPrepared
        /\ ~PreparedActive(u.p)
    BY <2>2, NotPrepared DEF Released
  <2>4. CoreInv(u.p, u.saved)
    BY <1>1, <2>2, <2>3, PreparationCore
  <2>5. StatusInv(w.p, w.b, q, i + 1)
    <3>1. HeardInv(w.p, w.b, q, i + 1)
      BY <1>1, <1>3, <1>5 DEF EventInv, StatusInv, HeardInv, NextTarget
    <3>. QED BY <1>3, <3>1 DEF StatusInv
  <2>6. Undisturbed => ~Waits(q, i + 1, {"transition"})
    <3>1. Undisturbed => \A k \in Waiting(q, i + 1) : q[k].kind # "transition"
      BY <1>1, NextWaits DEF EventInv, StatusInv, OrderInv
    <3>. QED BY <3>1 DEF Waits
  <2>7. NextInv(u.p, u.b, AllStale(q), i + 1) /\ ReadyInv(u.p, u.b, AllStale(q), i + 1)
    BY <2>3, Values DEF NextInv, ReadyInv
  <2>8. EventInv(u.p, u.b, AllStale(q), i + 1)
    BY <1>1, <2>2, <2>3, <2>5, <2>6, <2>7, PreparationEvents
  <2>9. SoundAfter(u, i + 1) /\ u.b.events = <<>> /\ Len(u.taken) = Len(w.taken)
    <3>1. EventsKept(u, w, w.taken, i + 1) /\ i + 1 \in Nat
      BY <1>1, <2>3, <2>8 DEF EventsKept
    <3>. QED BY <1>1, <2>2, <2>4, <3>1, KeptAfter
  <2>10. /\ u.p.queue = w.p.queue /\ u.p.active = w.p.active /\ u.saved = w.saved
         /\ u.p.currentIndex = w.p.currentIndex /\ u.p.attempts = w.p.attempts
         /\ u.p.plan = w.p.plan /\ u.refused = FALSE
    BY <1>1, <2>2 DEF PreparationOnly, PlayerIs
  <2>. QED BY <2>9, <2>10 DEF Handled, Moves, SoundAfter
<1>6. CASE PreparedActive(w.p) /\ target \in Indices(w.p.queue)
  <2>. DEFINE len == AdvancedLen(w, target)
              p == [w.p EXCEPT !.playNextQueueLen = len, !.prepared = NoPrepared]
              a == [w EXCEPT !.p = p]
              m == At(a, target, AtStart, "playing")
  <2>1. len \in Nat /\ target \in Int
    <3>1. target \in Int
      BY <1>1, <1>6, WorldFields, PlayerFields DEF Indices
    <3>2. IndexIn(w.p.queue, w.p.currentIndex) /\ IndexIn(w.p.queue, target)
      BY <1>1, <1>6 DEF CoreInv, IndexInv, IndexIn
    <3>. QED BY <1>1, <3>1, <3>2, AdvancedLenNat
  <2>2. u \in (IF context THEN SyncGapless(m) ELSE {ClearGapless(m)})
    <3>1. a = [w EXCEPT !.p.playNextQueueLen = len, !.p.prepared = NoPrepared]
      BY <1>1 DEF Worlds
    <3>. HIDE DEF a
    <3>. QED BY <1>2, <1>6, <3>1 DEF HandleTransition, PreparedActive, Valid
  <2>. HIDE DEF len
  <2>3. PlayerIs(p, w.p.queue, w.p.currentIndex, w.p.playingState, w.p.resume, w.p.active,
                 NoPrepared, w.p.attempts, w.p.plan)
    BY <1>1, <2>1, Values DEF Worlds, Player, PlayerIs
  <2>. HIDE DEF p
  <2>4. WorldIs(a, w.saved, w.refused, w.taken) /\ a.p = p /\ a.b = w.b
    BY <1>1, <2>3, WithPlayer DEF PlayerIs
  <2>. HIDE DEF a
  <2>5. /\ WorldIs(m, w.saved, w.refused, w.taken) /\ m.b = w.b
        /\ PlayerIs(m.p, w.p.queue, target, "playing", Nothing, w.p.active, NoPrepared,
                    w.p.attempts, w.p.plan)
    <3>1. a \in Worlds /\ AtStart \in {AtStart, Later} /\ "playing" \in PlayingStates
      BY <2>4 DEF WorldIs, PlayingStates
    <3>2. /\ WorldIs(m, a.saved, a.refused, a.taken) /\ m.b = a.b
          /\ PlayerIs(m.p, a.p.queue, target, "playing", Nothing, a.p.active, a.p.prepared,
                      a.p.attempts, a.p.plan)
      BY <2>1, <3>1, AtWorld
    <3>. QED BY <2>3, <2>4, <3>2 DEF WorldIs, PlayerIs
  <2>. HIDE DEF m
  <2>6. /\ CoreInv(m.p, m.saved) /\ EventInv(m.p, m.b, q, i + 1)
        /\ Undisturbed => ~Waits(q, i + 1, {"transition"})
        /\ OnDesktop => target = w.p.currentIndex + 1 /\ w.p.plan = NoPlan
    BY <1>6, <2>5, TransitionMoves DEF WorldIs
  <2>7. m \in Worlds /\ m.taken = q /\ m.b.events = <<>>
    BY <1>1, <2>5 DEF WorldIs
  <2>8. PreparationOnly(u, m) /\ CoreInv(u.p, u.saved) /\ EventsKept(u, m, q, i + 1)
    <3>1. CASE u \in SyncGapless(m)
      BY <1>1, <2>6, <2>7, <3>1, SyncGaplessKeeps
    <3>2. CASE u = ClearGapless(m)
      BY <1>1, <2>6, <2>7, <3>2, ReleasedWorld, ReleasedKeeps
    <3>. QED BY <2>2, <3>1, <3>2
  <2>9. SoundAfter(u, i + 1) /\ u.b.events = <<>> /\ Len(u.taken) = Len(w.taken)
    <3>1. EventsKept(u, m, m.taken, i + 1) /\ i + 1 \in Nat
      BY <1>1, <2>7, <2>8
    <3>2. SoundAfter(u, i + 1) /\ u.b.events = <<>> /\ Len(u.taken) = Len(m.taken)
      BY <2>7, <2>8, <3>1, KeptAfter
    <3>. QED BY <2>7, <3>2
  <2>10. /\ u.p.queue = w.p.queue /\ u.p.active = w.p.active /\ u.saved = w.saved
         /\ u.p.currentIndex = target /\ u.p.plan = w.p.plan /\ u.refused = FALSE
    BY <1>1, <2>5, <2>8 DEF PreparationOnly, PlayerIs, WorldIs
  <2>11. Moves(u, w)
    <3>1. w.p.currentIndex \in Int
      BY <1>1, WorldFields, PlayerFields
    <3>. QED BY <2>6, <2>10, <3>1 DEF Moves
  <2>. QED BY <2>9, <2>10, <2>11 DEF Handled, SoundAfter
<1>. QED BY <1>4, <1>5, <1>6

\* A preparation that is under way is of the song it says.
LEMMA NextOfSong ==
  ASSUME NEW w \in Worlds, NEW q, NEW i, NextInv(w.p, w.b, q, i)
  PROVE  NextIsPrepared(w)
<1>. SUFFICES ASSUME PreparedActive(w.p), w.b.next.state \in {"stored", "installed"}
              PROVE  w.b.next.entry \in Entries /\ SongOf[w.b.next.entry] = w.p.prepared.song
  BY DEF NextIsPrepared
<1>1. w.b.next.state # Nothing
  BY DEF Nothing
<1>2. w.b.next # NoNext /\ w.b.next.entry # NoEntry
  BY <1>1 DEF NextInv
<1>3. w.b.next.entry \in Entries \cup {NoEntry}
  BY WorldFields, BackendFields DEF NextTracks
<1>. QED BY <1>2, <1>3 DEF NextInv

\* After the end of a track nothing waits that moves, pauses or ends what is heard.
LEMMA EndSettles ==
  ASSUME NEW w, NEW i, Taking(w, i), w.taken[i + 1].kind \in EndKinds
  PROVE  /\ Settling(w.taken, i + 1)
         /\ "recovery" \notin windows => ErrorsEnd(w.taken, i + 1)
         /\ Undisturbed => w.b.ended
<1>. DEFINE q == w.taken
<1>1. /\ w \in Worlds /\ q \in Seq(NativeEvents) /\ i \in Nat /\ i + 1 \in DOMAIN q
      /\ EventInv(w.p, w.b, q, i)
  BY WorldFields DEF Taking, SoundAfter
<1>2. /\ i + 1 \in Waiting(q, i) /\ Waiting(q, i + 1) \subseteq Waiting(q, i)
      /\ \A k \in Waiting(q, i + 1) : k > i + 1
      /\ \A kinds : Waits(q, i, kinds) <=> q[i + 1].kind \in kinds \/ Waits(q, i + 1, kinds)
  BY <1>1, NextWaits
<1>3. \A k \in Waiting(q, i + 1) : i + 1 < k /\ k \in Waiting(q, i)
  <2>1. \A k \in Waiting(q, i + 1) : k \in Nat
    BY <1>1 DEF Waiting
  <2>. QED BY <1>1, <1>2, <2>1
<1>4. Settling(q, i + 1)
  <2>. SUFFICES ASSUME Undisturbed, NEW k \in Waiting(q, i + 1)
                PROVE  q[k].kind \notin PlayerKinds \cup EndKinds \cup {"transition"}
    BY DEF Settling, Waits
  <2>. QED BY <1>1, <1>2, <1>3 DEF EventInv, StatusInv, OrderInv
<1>5. "recovery" \notin windows => ErrorsEnd(q, i + 1)
  BY <1>1, PassedEvent DEF EventInv, StatusInv, RecoveryInv
<1>6. Undisturbed => w.b.ended
  BY <1>1, <1>2 DEF EventInv, StatusInv, OrderInv
<1>. QED BY <1>4, <1>5, <1>6

\* The queue has ended.
LEMMA StoppedAtEndKeeps ==
  ASSUME NEW w, NEW i, Taking(w, i), w.taken[i + 1].kind = "ended"
  PROVE  Handled(StoppedAtEnd(w), w, i + 1)
<1>. DEFINE q == w.taken
            c == ClearGapless(w)
            u == At(c, w.p.currentIndex, AtStart, "stopped")
            m == At(w, w.p.currentIndex, AtStart, "stopped")
<1>1. /\ w \in Worlds /\ q \in Seq(NativeEvents) /\ i \in Nat /\ i + 1 \in DOMAIN q
      /\ CoreInv(w.p, w.saved) /\ EventInv(w.p, w.b, q, i)
      /\ w.b.events = <<>> /\ w.refused = FALSE
      /\ w.p.currentIndex \in Int
  BY WorldFields, PlayerFields DEF Taking, SoundAfter
<1>2. PreparationOnly(c, w) /\ Released(c, w)
  BY <1>1, ReleasedWorld
<1>. HIDE DEF c
<1>3. "stopped" \in PlayingStates /\ AtStart \in {AtStart, Later}
  BY DEF PlayingStates
<1>4. /\ WorldIs(u, c.saved, c.refused, c.taken) /\ u.b = c.b
      /\ PlayerIs(u.p, c.p.queue, w.p.currentIndex, "stopped", Nothing, c.p.active, c.p.prepared,
                  c.p.attempts, c.p.plan)
  <2>1. c \in Worlds
    BY <1>2 DEF PreparationOnly
  <2>. QED BY <1>1, <1>3, <2>1, AtWorld
<1>. HIDE DEF u
<1>5. /\ WorldIs(m, w.saved, w.refused, w.taken) /\ m.b = w.b
      /\ PlayerIs(m.p, w.p.queue, w.p.currentIndex, "stopped", Nothing, w.p.active, w.p.prepared,
                  w.p.attempts, w.p.plan)
  BY <1>1, <1>3, AtWorld
<1>. HIDE DEF m
<1>6. PreparationOnly(u, m) /\ m \in Worlds /\ m.taken = q /\ m.b.events = <<>>
  BY <1>1, <1>2, <1>4, <1>5 DEF PreparationOnly, PlayerIs, BackendIs, WorldIs
<1>7. /\ u.p.prepared = NoPrepared /\ ~PreparedActive(u.p)
      /\ \/ DropsEvents(u, m) /\ u.b.next = NoNext
         \/ w.p.prepared = NoPrepared /\ KeepsEvents(u, m) /\ u.b.next = w.b.next
  <2>1. u.p.prepared = NoPrepared
    BY <1>2, <1>4 DEF Released, PlayerIs
  <2>2. \/ DropsEvents(u, m) /\ u.b.next = NoNext
        \/ w.p.prepared = NoPrepared /\ KeepsEvents(u, m) /\ u.b.next = w.b.next
    BY <1>2, <1>4, <1>5 DEF Released, DropsEvents, KeepsEvents, WorldIs
  <2>. QED BY <2>1, <2>2, NotPrepared
<1>8. /\ Settling(q, i + 1) /\ ("recovery" \notin windows => ErrorsEnd(q, i + 1))
      /\ Undisturbed => w.b.ended
  BY EndSettles DEF EndKinds
<1>9. /\ m.p.currentIndex = w.p.currentIndex /\ m.p.active = w.p.active /\ m.p.plan = w.p.plan
      /\ m.p.prepared = w.p.prepared /\ m.p.queue = w.p.queue
      /\ m.p.playingState = "stopped" /\ Showing(m.p) = "stopped" /\ m.b = w.b
      /\ "stopped" \notin ShowingStates
      /\ PreparedActive(m.p) <=> PreparedActive(w.p)
  BY <1>5 DEF PlayerIs, Showing, ShowingStates, PreparedActive
<1>10. /\ NextInv(w.p, w.b, q, i + 1) /\ RecoveryInv(w.p, w.b, q, i + 1)
       /\ OrderInv(w.p, w.b, q, i + 1)
  BY <1>1, PassedEvent DEF EventInv, StatusInv
<1>11. StatusInv(m.p, m.b, q, i + 1)
  <2>1. RecoveryInv(m.p, m.b, q, i + 1)
    BY <1>9, <1>10 DEF RecoveryInv
  <2>2. OrderInv(m.p, m.b, q, i + 1)
    BY <1>9, <1>10 DEF OrderInv
  <2>3. HeardInv(m.p, m.b, q, i + 1)
    BY <1>9 DEF HeardInv
  <2>4. SilentInv(m.p, m.b, q, i + 1)
    BY <1>8, <1>9, SettlingWaits DEF SilentInv
  <2>. QED BY <2>1, <2>2, <2>3, <2>4 DEF StatusInv
<1>12. Undisturbed => ~Waits(q, i + 1, {"transition"})
  BY <1>8, SettlingWaits
<1>13. CoreInv(u.p, u.saved)
  <2>1. /\ u.p.queue = w.p.queue /\ u.p.currentIndex = w.p.currentIndex
        /\ u.p.plan = w.p.plan /\ u.p.attempts = w.p.attempts /\ u.p.prepared = NoPrepared
        /\ u.p.playingState = "stopped" /\ u.saved = w.saved
    BY <1>2, <1>4, <1>7 DEF PreparationOnly, PlayerIs, WorldIs
  <2>. QED BY <1>1, <2>1, Values DEF CoreInv, IndexInv, PlanInv, DesktopInv, ShowingStates
<1>14. EventsKept(u, m, m.taken, i + 1)
  <2>1. CASE DropsEvents(u, m) /\ u.b.next = NoNext
    <3>1. NextInv(u.p, u.b, AllStale(q), i + 1) /\ ReadyInv(u.p, u.b, AllStale(q), i + 1)
      BY <1>7, <2>1, Values DEF NextInv, ReadyInv
    <3>2. EventInv(u.p, u.b, AllStale(q), i + 1)
      BY <1>1, <1>6, <1>7, <1>11, <1>12, <2>1, <3>1, PreparationEvents
    <3>. QED BY <1>6, <2>1, <3>2 DEF EventsKept
  <2>2. CASE w.p.prepared = NoPrepared /\ KeepsEvents(u, m) /\ u.b.next = w.b.next
    <3>1. NextInv(u.p, u.b, q, i + 1) /\ ReadyInv(u.p, u.b, q, i + 1)
      BY <1>7, <1>10, <2>2 DEF NextInv, ReadyInv
    <3>2. Undisturbed => u.b.next = NoNext
      BY <1>10, <2>2, NotPrepared DEF OrderInv
    <3>3. EventInv(u.p, u.b, q, i + 1)
      <4>1. i + 1 \in Nat /\ q \in {q, AllStale(q)} /\ q \in Seq(NativeEvents)
        BY <1>1
      <4>. HIDE DEF q
      <4>. QED BY <1>6, <1>7, <1>11, <1>12, <3>1, <3>2, <4>1, PreparationEvents
    <3>. QED BY <1>6, <2>2, <3>3 DEF EventsKept
  <2>. QED BY <1>7, <2>1, <2>2
<1>15. SoundAfter(u, i + 1) /\ u.b.events = <<>> /\ Len(u.taken) = Len(m.taken)
  <2>1. i + 1 \in Nat
    BY <1>1
  <2>. QED BY <1>6, <1>13, <1>14, <2>1, KeptAfter
<1>16. /\ u.p.queue = w.p.queue /\ u.p.active = w.p.active /\ u.saved = w.saved
       /\ u.p.currentIndex = w.p.currentIndex /\ u.p.attempts = w.p.attempts
       /\ u.p.plan = w.p.plan /\ u.refused = FALSE
  BY <1>1, <1>2, <1>4 DEF PreparationOnly, PlayerIs, WorldIs
<1>17. Handled(u, w, i + 1)
  BY <1>6, <1>15, <1>16 DEF Handled, Moves, SoundAfter
<1>. QED BY <1>17 DEF StoppedAtEnd, u, c

LEMMA HandledEnded ==
  ASSUME NEW w, NEW i, NEW context, Taking(w, i), w.taken[i + 1].kind = "ended",
         NEW u \in Handle(w, w.taken[i + 1], context)
  PROVE  Handled(u, w, i + 1)
<1>. DEFINE q == w.taken
            next == w.p.currentIndex + 1
            len == AdvancedLen(w, next)
            v == [w EXCEPT !.p.playNextQueueLen = len]
<1>1. /\ w \in Worlds /\ q \in Seq(NativeEvents) /\ i \in Nat /\ i + 1 \in DOMAIN q
      /\ CoreInv(w.p, w.saved) /\ EventInv(w.p, w.b, q, i)
      /\ w.b.events = <<>> /\ w.refused = FALSE
      /\ w.p.currentIndex \in Int /\ w.p.queue \in Seq(Entries)
  BY WorldFields, PlayerFields DEF Taking, SoundAfter
<1>2. u \in HandleEnded(w, context)
  BY DEF Handle
<1>3. /\ NextInv(w.p, w.b, q, i + 1) /\ RecoveryInv(w.p, w.b, q, i + 1)
      /\ OrderInv(w.p, w.b, q, i + 1) /\ SilentInv(w.p, w.b, q, i + 1)
      /\ ReadyInv(w.p, w.b, q, i + 1)
  BY <1>1, PassedEvent DEF EventInv, StatusInv
<1>4. CASE w.p.currentIndex = NoIndex
  <2>1. u = w
    BY <1>2, <1>4 DEF HandleEnded
  <2>2. w.p.currentIndex \notin Indices(w.p.queue)
    BY <1>1, <1>4 DEF Indices, NoIndex
  <2>3. HeardInv(w.p, w.b, q, i + 1)
    BY <1>1, <2>2 DEF EventInv, StatusInv, HeardInv
  <2>4. Moves(u, w)
    BY <2>1 DEF Moves
  <2>. QED BY <1>1, <1>3, <2>1, <2>3, <2>4 DEF Handled, SoundAfter, EventInv, StatusInv
<1>5. CASE w.p.currentIndex # NoIndex /\ (next \notin Indices(w.p.queue) \/ ~context)
  <2>1. u = StoppedAtEnd(w)
    BY <1>2, <1>5 DEF HandleEnded, Valid, NextIndex
  <2>. QED BY <2>1, StoppedAtEndKeeps
<1>6. CASE w.p.currentIndex # NoIndex /\ next \in Indices(w.p.queue) /\ context
  <2>1. u \in LoadTrack(v, next, AtStart, TRUE)
    BY <1>2, <1>6 DEF HandleEnded, Valid, NextIndex
  <2>2. len \in Nat
    <3>1. IndexIn(w.p.queue, w.p.currentIndex) /\ IndexIn(w.p.queue, next) /\ next \in Int
      BY <1>1, <1>6 DEF CoreInv, IndexInv, IndexIn
    <3>. QED BY <1>1, <3>1, AdvancedLenNat
  <2>. HIDE DEF len
  <2>3. WorldIs(v, w.saved, w.refused, w.taken) /\ v.b = w.b /\ PlayerLike(v.p, w.p)
    BY <1>1, <2>2, AdvancedWorld
  <2>. HIDE DEF v
  <2>4. /\ v \in Worlds /\ v.saved = w.saved /\ v.refused = FALSE /\ v.taken = q
        /\ v.p.queue = w.p.queue /\ v.p.active = w.p.active /\ v.p.prepared = w.p.prepared
        /\ v.p.attempts = w.p.attempts /\ v.p.plan = w.p.plan
    BY <1>1, <2>3 DEF PlayerLike, PlayerIs, WorldIs
  <2>5. NextIsPrepared(v)
    <3>1. NextIsPrepared(w)
      BY <1>1, <1>3, NextOfSong
    <3>. QED BY <2>3, <2>4, <3>1 DEF NextIsPrepared, PreparedActive
  <2>6. NotLoaded(u, v, next) \/ Loading(u, v, next, TRUE)
    <3>1. IndexIn(v.saved.queue, v.saved.currentIndex) /\ next \in Indices(v.p.queue)
      BY <1>1, <1>6, <2>4 DEF CoreInv, IndexInv
    <3>2. AtStart \in {AtStart, Later} /\ TRUE \in BOOLEAN
      OBVIOUS
    <3>. QED BY <2>1, <2>4, <2>5, <3>1, <3>2, LoadTrackWorlds
  <2>7. Len(u.taken) = Len(q)
    <3>1. u.taken \in {q, AllStale(q)}
      BY <2>4, <2>6 DEF NotLoaded, Loading
    <3>. QED BY <1>1, <3>1, AllStaleEvents
  <2>8. CASE NotLoaded(u, v, next)
    <3>1. /\ u \in Worlds /\ u.saved = w.saved /\ u.refused = TRUE /\ u.b.events = <<>>
          /\ u.b.heard = NoEntry /\ u.b.next = NoNext
          /\ u.p.queue = w.p.queue /\ u.p.currentIndex = next /\ u.p.active = w.p.active
          /\ u.p.playingState = "error" /\ u.p.prepared = NoPrepared
          /\ u.p.attempts = w.p.attempts /\ u.p.plan = w.p.plan
      BY <2>4, <2>8 DEF NotLoaded, PlayerIs
    <3>2. Showing(u.p) \notin ShowingStates /\ u.p.playingState \notin ShowingStates
      BY <3>1 DEF Showing, ShowingStates
    <3>3. "recovery" \notin windows => w.p.plan = NoPlan
      <4>1. Waits(q, i, {"ended"})
        BY <1>1, NextWaits
      <4>. QED BY <1>1, <4>1 DEF EventInv, StatusInv, RecoveryInv
    <3>4. PlanInv(u.p)
      BY <1>1, <3>1, <3>3 DEF CoreInv, PlanInv
    <3>5. Sound(u)
      BY <1>1, <1>6, <3>1, <3>2, <3>4, QuietSound DEF CoreInv, IndexInv, IndexIn
    <3>6. Moves(u, w)
      BY <1>1, <3>1 DEF Moves
    <3>. QED BY <2>7, <3>1, <3>5, <3>6 DEF Handled
  <2>9. CASE Loading(u, v, next, TRUE)
    <3>1. /\ u \in Worlds /\ u.saved = w.saved /\ u.refused = FALSE /\ u.b.events = <<>>
          /\ u.p.queue = w.p.queue /\ u.p.currentIndex = next /\ u.p.active = w.p.active
          /\ u.p.plan = NoPlan
      BY <2>4, <2>9 DEF Loading, PlayerIs
    <3>2. SoundAfter(u, i + 1)
      <4>1. Settling(q, i + 1) /\ ("recovery" \notin windows => ErrorsEnd(q, i + 1))
        BY EndSettles DEF EndKinds
      <4>. QED BY <1>1, <2>4, <2>9, <4>1 DEF Loading
    <3>3. Moves(u, w)
      BY <1>1, <3>1 DEF Moves
    <3>. QED BY <2>7, <3>1, <3>2, <3>3 DEF Handled
  <2>. QED BY <2>6, <2>8, <2>9
<1>. QED BY <1>4, <1>5, <1>6

\* Only a desktop backend tells an error of its stream, and it tells no states.
LEMMA ErrorOnDesktop ==
  ASSUME NEW q \in Seq(NativeEvents), reports \in Troubles
  PROVE  /\ \A k \in DOMAIN q : q[k].kind = "error" => OnDesktop /\ ~OnAndroid
         /\ OnDesktop => \A i : ~Waits(q, i, PlayerKinds \cup {"failure"})
<1>1. \A k \in DOMAIN q :
        q[k].kind \in {"prepared", "failed", "transition", "ended", "seek"} \cup reports
  <2>1. \A k \in DOMAIN q : q[k] \in NativeEvents
    OBVIOUS
  <2>. QED BY <2>1 DEF NativeEvents
<1>2. reports \subseteq Desktop \/ reports \subseteq Android
  BY ControllerAssumption
<1>3. ASSUME NEW k \in DOMAIN q, q[k].kind = "error"
      PROVE  OnDesktop /\ ~OnAndroid
  <2>1. "error" \in reports
    BY <1>1, <1>3
  <2>. QED BY <1>2, <2>1 DEF OnDesktop, OnAndroid, Android
<1>4. ASSUME OnDesktop, NEW i
      PROVE  ~Waits(q, i, PlayerKinds \cup {"failure"})
  <2>1. \A k \in DOMAIN q : q[k].kind \notin PlayerKinds \cup {"failure"}
    BY <1>1, <1>4 DEF OnDesktop, Desktop, PlayerKinds
  <2>2. Waiting(q, i) \subseteq DOMAIN q
    BY DEF Waiting
  <2>. QED BY <2>1, <2>2 DEF Waits
<1>. QED BY <1>3, <1>4

\* What stop_after_output_stream_error leaves.
LEMMA StreamErrorWorld ==
  ASSUME NEW w \in Worlds
  PROVE  /\ WorldIs(StopAfterStreamError(w), w.saved, w.refused, AllStale(w.taken))
         /\ PlayerIs(StopAfterStreamError(w).p, w.p.queue, w.p.currentIndex, w.p.playingState,
                     w.p.resume, w.p.active, NoPrepared, w.p.attempts, w.p.plan)
         /\ BackendIs(StopAfterStreamError(w).b, NoEntry, w.b.paused, w.b.ended, NoNext, <<>>)
<1>. DEFINE s == StopBackend(w)
            e == ClearNativeEvents(s)
            c == ClearGapless(e)
<1>1. /\ WorldIs(s, w.saved, w.refused, AllStale(w.taken)) /\ s.p = w.p
      /\ BackendIs(s.b, NoEntry, w.b.paused, w.b.ended, NoNext, AllStale(w.b.events))
  BY StoppedBackend
<1>. HIDE DEF s
<1>2. /\ WorldIs(e, w.saved, w.refused, AllStale(w.taken)) /\ e.p = w.p
      /\ BackendIs(e.b, NoEntry, w.b.paused, w.b.ended, NoNext, <<>>)
  BY <1>1, ClearedEvents DEF WorldIs, BackendIs
<1>. HIDE DEF e
<1>3. PreparationOnly(c, e) /\ Released(c, e)
  BY <1>2, ReleasedWorld DEF WorldIs
<1>. HIDE DEF c
<1>4. AllStale(<<>>) = <<>> /\ AllStale(AllStale(w.taken)) = AllStale(w.taken)
  <2>1. w.taken \in Seq(NativeEvents)
    BY WorldFields
  <2>2. AllStale(<<>>) = <<>>
    BY DEF AllStale
  <2>. QED BY <2>1, <2>2, StaleTwice
<1>5. c.taken = AllStale(w.taken) /\ c.b.events = <<>> /\ c.b.next = NoNext
  <2>1. e.taken = AllStale(w.taken) /\ e.b.events = <<>> /\ e.b.next = NoNext
    BY <1>2 DEF WorldIs, BackendIs
  <2>. QED BY <1>3, <1>4, <2>1 DEF Released, KeepsEvents, DropsEvents
<1>6. /\ WorldIs(c, w.saved, w.refused, AllStale(w.taken))
      /\ PlayerIs(c.p, w.p.queue, w.p.currentIndex, w.p.playingState,
                  w.p.resume, w.p.active, NoPrepared, w.p.attempts, w.p.plan)
      /\ BackendIs(c.b, NoEntry, w.b.paused, w.b.ended, NoNext, <<>>)
  BY <1>2, <1>3, <1>5 DEF PreparationOnly, Released, WorldIs, PlayerIs, BackendIs
<1>. QED BY <1>6 DEF StopAfterStreamError, c, e, s

\* The stream failed, and nothing is heard, prepared or shown any more.
LEMMA FailedStreamKeeps ==
  ASSUME NEW w, NEW i, Taking(w, i), w.taken[i + 1].kind = "error", w.p.plan = NoPlan,
         NEW u, WorldIs(u, w.saved, FALSE, AllStale(w.taken)),
         NEW state \in {"error", "interrupted"}, NEW plan \in Plans,
         PlayerIs(u.p, w.p.queue, w.p.currentIndex, state, Nothing, w.p.active, NoPrepared,
                  w.p.attempts, plan),
         BackendIs(u.b, NoEntry, w.b.paused, w.b.ended, NoNext, <<>>),
         \/ plan = NoPlan
         \/ /\ plan.index = w.p.currentIndex /\ w.p.currentIndex # NoIndex
            /\ plan.attempt = w.p.attempts + 1
  PROVE  Handled(u, w, i + 1)
<1>. DEFINE q == w.taken
            r == AllStale(q)
<1>1. /\ w \in Worlds /\ q \in Seq(NativeEvents) /\ i \in Nat /\ i + 1 \in DOMAIN q
      /\ CoreInv(w.p, w.saved) /\ EventInv(w.p, w.b, q, i) /\ reports \in Troubles
      /\ w.p.attempts \in 0 .. MaxAttempts /\ i + 1 \in Nat
  BY WorldFields, PlayerFields DEF Taking, SoundAfter
<1>2. OnDesktop /\ ~OnAndroid /\ ~Waits(q, i + 1, PlayerKinds \cup {"failure"})
  BY <1>1, ErrorOnDesktop
<1>3. /\ Waiting(r, i + 1) = Waiting(q, i + 1) /\ r \in Seq(NativeEvents)
      /\ \A k \in Waiting(q, i + 1) : r[k].kind = q[k].kind
      /\ \A kinds : Waits(r, i + 1, kinds) <=> Waits(q, i + 1, kinds)
      /\ Len(r) = Len(q)
  BY <1>1, StaleWaits, AllStaleEvents
<1>4. RecoveryInv(w.p, w.b, q, i + 1) /\ OrderInv(w.p, w.b, q, i + 1)
  BY <1>1, PassedEvent DEF EventInv, StatusInv
<1>5. /\ u \in Worlds /\ u.saved = w.saved /\ u.refused = FALSE /\ u.taken = r
      /\ u.p.queue = w.p.queue /\ u.p.currentIndex = w.p.currentIndex /\ u.p.active = w.p.active
      /\ u.p.playingState = state /\ u.p.resume = Nothing /\ u.p.prepared = NoPrepared
      /\ u.p.attempts = w.p.attempts /\ u.p.plan = plan
      /\ u.b.heard = NoEntry /\ u.b.ended = w.b.ended /\ u.b.next = NoNext /\ u.b.events = <<>>
  BY DEF WorldIs, PlayerIs, BackendIs
<1>6. /\ u.p.playingState \notin ShowingStates /\ Showing(u.p) \notin ShowingStates
      /\ ~PreparedActive(u.p) /\ u.p.prepared.state = Nothing
  BY <1>5, NotPrepared DEF Showing, ShowingStates, Nothing
<1>7. CoreInv(u.p, u.saved)
  <2>1. u.p.plan = NoPlan <=> u.p.plan.attempt = 0
    BY <1>1, <1>5, Values
  <2>2. IndexInv(u.p, u.saved)
    BY <1>1, <1>5, <1>6, <2>1 DEF CoreInv, IndexInv
  <2>3. PlanInv(u.p)
    BY <1>2, <1>5 DEF PlanInv
  <2>4. DesktopInv(u.p)
    BY <1>5, <1>6 DEF DesktopInv
  <2>. QED BY <2>2, <2>3, <2>4 DEF CoreInv
<1>8. NextInv(u.p, u.b, r, i + 1) /\ ReadyInv(u.p, u.b, r, i + 1)
  BY <1>5, <1>6, Values DEF NextInv, ReadyInv
<1>9. RecoveryInv(u.p, u.b, r, i + 1)
  <2>1. ASSUME "recovery" \notin windows PROVE ~Waits(q, i + 1, {"ended"})
    <3>1. ErrorsEnd(q, i)
      BY <1>1, <2>1 DEF EventInv, StatusInv, RecoveryInv
    <3>2. /\ i + 1 \in Waiting(q, i) /\ Waiting(q, i + 1) \subseteq Waiting(q, i)
          /\ \A k \in Waiting(q, i + 1) : i + 1 < k
      <4>1. \A k \in Waiting(q, i + 1) : k \in Nat
        BY <1>1 DEF Waiting
      <4>. QED BY <1>1, <4>1, NextWaits
    <3>3. \A k \in Waiting(q, i + 1) : q[k].kind # "ended"
      BY <3>1, <3>2 DEF ErrorsEnd
    <3>. QED BY <3>3 DEF Waits
  <2>. QED BY <1>3, <1>4, <1>5, <2>1 DEF RecoveryInv, ErrorsEnd
<1>10. OrderInv(u.p, u.b, r, i + 1)
  BY <1>3, <1>4, <1>5 DEF OrderInv
<1>11. HeardInv(u.p, u.b, r, i + 1)
  BY <1>6 DEF HeardInv
<1>12. SilentInv(u.p, u.b, r, i + 1)
  <2>1. ~Waits(r, i + 1, PlayerKinds)
    BY <1>2, <1>3 DEF Waits
  <2>. QED BY <1>5, <1>6, <2>1 DEF SilentInv
<1>13. Moves(u, w)
  BY <1>5 DEF Moves
<1>14. SoundAfter(u, i + 1)
  BY <1>5, <1>7, <1>8, <1>9, <1>10, <1>11, <1>12 DEF SoundAfter, EventInv, StatusInv
<1>. QED BY <1>3, <1>5, <1>13, <1>14 DEF Handled

\* Nothing was loaded when the stream failed.
LEMMA IdleStreamKeeps ==
  ASSUME NEW w, NEW i, Taking(w, i), w.taken[i + 1].kind = "error", ~Loaded(w)
  PROVE  Handled(ToError(w), w, i + 1)
<1>. DEFINE q == w.taken
            u == ToError(w)
<1>1. /\ w \in Worlds /\ q \in Seq(NativeEvents) /\ i \in Nat /\ i + 1 \in DOMAIN q
      /\ CoreInv(w.p, w.saved) /\ EventInv(w.p, w.b, q, i) /\ reports \in Troubles
      /\ w.b.events = <<>> /\ w.refused = FALSE
  BY WorldFields DEF Taking, SoundAfter
<1>2. OnDesktop
  BY <1>1, ErrorOnDesktop
<1>3. w.p.playingState \notin ShowingStates /\ w.p.playingState # "interrupted"
  BY DEF Loaded, LoadedStates, ShowingStates
<1>4. w.p.prepared = NoPrepared /\ ~PreparedActive(w.p)
  <2>1. w.p.prepared = NoPrepared
    BY <1>1, <1>2, <1>3 DEF CoreInv, DesktopInv
  <2>. QED BY <2>1, NotPrepared
<1>5. /\ WorldIs(u, w.saved, w.refused, w.taken)
      /\ u.b = w.b
      /\ PlayerIs(u.p, w.p.queue, w.p.currentIndex, "error", Nothing,
                     w.p.active, w.p.prepared, w.p.attempts, w.p.plan)
  BY <1>1, ErrorWorld
<1>. HIDE DEF u
<1>6. /\ u \in Worlds /\ u.saved = w.saved /\ u.refused = FALSE /\ u.taken = q /\ u.b = w.b
      /\ u.p.queue = w.p.queue /\ u.p.currentIndex = w.p.currentIndex /\ u.p.active = w.p.active
      /\ u.p.playingState = "error" /\ u.p.prepared = w.p.prepared
      /\ u.p.attempts = w.p.attempts /\ u.p.plan = w.p.plan
  BY <1>1, <1>5 DEF WorldIs, PlayerIs
<1>7. /\ Showing(u.p) \notin ShowingStates /\ Showing(w.p) \notin ShowingStates
      /\ ~PreparedActive(u.p)
  BY <1>3, <1>4, <1>6, NotPrepared DEF Showing, ShowingStates
<1>8. CoreInv(u.p, u.saved)
  BY <1>1, <1>4, <1>6 DEF CoreInv, IndexInv, PlanInv, DesktopInv, ShowingStates
<1>9. /\ NextInv(w.p, w.b, q, i + 1) /\ RecoveryInv(w.p, w.b, q, i + 1)
      /\ OrderInv(w.p, w.b, q, i + 1) /\ SilentInv(w.p, w.b, q, i + 1)
  BY <1>1, PassedEvent DEF EventInv, StatusInv
<1>10. NextInv(u.p, u.b, q, i + 1) /\ ReadyInv(u.p, u.b, q, i + 1)
  BY <1>6, <1>7, <1>9 DEF NextInv, ReadyInv
<1>11. RecoveryInv(u.p, u.b, q, i + 1)
  BY <1>6, <1>9 DEF RecoveryInv
<1>12. OrderInv(u.p, u.b, q, i + 1)
  BY <1>4, <1>6, <1>9 DEF OrderInv
<1>13. HeardInv(u.p, u.b, q, i + 1)
  BY <1>7 DEF HeardInv
<1>14. SilentInv(u.p, u.b, q, i + 1)
  BY <1>6, <1>7, <1>9 DEF SilentInv
<1>15. Moves(u, w)
  BY <1>6 DEF Moves
<1>16. SoundAfter(u, i + 1)
  BY <1>6, <1>8, <1>10, <1>11, <1>12, <1>13, <1>14 DEF SoundAfter, EventInv, StatusInv
<1>17. Handled(u, w, i + 1)
  BY <1>1, <1>6, <1>15, <1>16 DEF Handled
<1>. QED BY <1>17 DEF u

LEMMA HandledError ==
  ASSUME NEW w, NEW i, NEW context, Taking(w, i), w.taken[i + 1].kind = "error",
         NEW u \in Handle(w, w.taken[i + 1], context)
  PROVE  Handled(u, w, i + 1)
<1>1. /\ w \in Worlds /\ w.taken \in Seq(NativeEvents) /\ i \in Nat /\ i + 1 \in DOMAIN w.taken
      /\ w.refused = FALSE
      /\ w.p.attempts \in 0 .. MaxAttempts /\ w.p.position \in {AtStart, Later}
      /\ w.p.currentIndex \in Int
  BY WorldFields, PlayerFields DEF Taking, SoundAfter
<1>2. CASE w.p.plan # NoPlan
  <2>1. u = w
    BY <1>2 DEF Handle, HandleStreamError
  <2>2. WorldIs(u, w.saved, w.refused, w.taken) /\ u.b = w.b /\ PlayerLike(u.p, w.p)
    BY <1>1, <2>1, WorldFields DEF PlayerLike
  <2>3. w.taken[i + 1].kind \notin Deciding \cup EndKinds /\ w.taken[i + 1].kind # "failed"
    BY DEF Deciding, EndKinds
  <2>. QED BY <2>2, <2>3, PassedKeeps
<1>3. CASE w.p.plan = NoPlan /\ ~Loaded(w)
  <2>1. u = ToError(w)
    BY <1>3 DEF Handle, HandleStreamError
  <2>. QED BY <1>3, <2>1, IdleStreamKeeps
<1>4. CASE w.p.plan = NoPlan /\ u = ToError(StopAfterStreamError(w))
  <2>. DEFINE s == StopAfterStreamError(w)
  <2>1. /\ WorldIs(s, w.saved, w.refused, AllStale(w.taken))
        /\ PlayerIs(s.p, w.p.queue, w.p.currentIndex, w.p.playingState,
                     w.p.resume, w.p.active, NoPrepared, w.p.attempts, w.p.plan)
        /\ BackendIs(s.b, NoEntry, w.b.paused, w.b.ended, NoNext, <<>>)
    BY <1>1, StreamErrorWorld
  <2>. HIDE DEF s
  <2>2. /\ WorldIs(u, w.saved, FALSE, AllStale(w.taken))
        /\ PlayerIs(u.p, w.p.queue, w.p.currentIndex, "error", Nothing, w.p.active, NoPrepared,
                    w.p.attempts, NoPlan)
        /\ BackendIs(u.b, NoEntry, w.b.paused, w.b.ended, NoNext, <<>>)
    <3>1. u = ToError(s)
      BY <1>4 DEF s
    <3>. QED BY <1>1, <1>4, <2>1, <3>1, ErrorWorld DEF WorldIs, PlayerIs
  <2>3. "error" \in {"error", "interrupted"} /\ NoPlan \in Plans
    BY Values
  <2>. QED BY <1>4, <2>2, <2>3, FailedStreamKeeps
<1>5. CASE /\ w.p.plan = NoPlan /\ ~Exhausted(w) /\ w.p.currentIndex # NoIndex
           /\ u = HandleStreamError(w) /\ Loaded(w)
  <2>. DEFINE y == SyncIfPossible(w)
              s == StopAfterStreamError(y)
              plan == [index |-> w.p.currentIndex, position |-> y.p.position,
                       autoplay |-> ShouldAutoplay(w), attempt |-> w.p.attempts + 1]
  <2>1. u = Schedule(s, plan)
    BY <1>5 DEF HandleStreamError
  <2>2. /\ WorldIs(y, w.saved, FALSE, w.taken)
        /\ y.b = w.b /\ PlayerLike(y.p, w.p)
    BY <1>1, SyncedWorld
  <2>. HIDE DEF y
  <2>3. plan \in Plans /\ plan.index = w.p.currentIndex /\ plan.attempt = w.p.attempts + 1
    <3>1. y.p.position \in {AtStart, Later}
      BY <2>2, WorldFields, PlayerFields DEF WorldIs
    <3>2. ShouldAutoplay(w) \in BOOLEAN
      BY DEF ShouldAutoplay, Playing
    <3>3. w.p.attempts + 1 \in 0 .. MaxAttempts
      BY <1>1, <1>5 DEF Exhausted, MaxAttempts
    <3>. HIDE DEF y
    <3>. QED BY <1>1, <3>1, <3>2, <3>3 DEF Plans
  <2>4. /\ WorldIs(s, w.saved, FALSE, AllStale(w.taken))
        /\ PlayerIs(s.p, w.p.queue, w.p.currentIndex, w.p.playingState,
                     w.p.resume, w.p.active, NoPrepared, w.p.attempts, w.p.plan)
        /\ BackendIs(s.b, NoEntry, w.b.paused, w.b.ended, NoNext, <<>>)
    BY <2>2, StreamErrorWorld DEF WorldIs, PlayerLike, PlayerIs
  <2>. HIDE DEF s, plan
  <2>5. /\ WorldIs(u, w.saved, FALSE, AllStale(w.taken))
        /\ PlayerIs(u.p, w.p.queue, w.p.currentIndex, "interrupted", Nothing, w.p.active,
                    NoPrepared, w.p.attempts, plan)
        /\ BackendIs(u.b, NoEntry, w.b.paused, w.b.ended, NoNext, <<>>)
    BY <2>1, <2>3, <2>4, ScheduledWorld DEF WorldIs, PlayerIs
  <2>6. "interrupted" \in {"error", "interrupted"}
    OBVIOUS
  <2>. QED BY <1>5, <2>3, <2>5, <2>6, FailedStreamKeeps
<1>6. w.p.plan = NoPlan /\ Loaded(w) =>
        \/ u = ToError(StopAfterStreamError(w))
        \/ ~Exhausted(w) /\ w.p.currentIndex # NoIndex /\ u = HandleStreamError(w)
  BY DEF Handle, HandleStreamError
<1>. QED BY <1>2, <1>3, <1>4, <1>5, <1>6

LEMMA HandledSeek ==
  ASSUME NEW w, NEW i, NEW context, Taking(w, i), w.taken[i + 1].kind = "seek",
         NEW u \in Handle(w, w.taken[i + 1], context)
  PROVE  Handled(u, w, i + 1)
<1>. DEFINE p == [w.p EXCEPT !.position = w.b.position]
<1>1. w \in Worlds /\ w.b.position \in {AtStart, Later}
  BY WorldFields, BackendFields DEF Taking, SoundAfter
<1>2. u = [w EXCEPT !.p = p]
  BY DEF Handle
<1>3. PlayerLike(p, w.p)
  BY <1>1 DEF Worlds, Player, PlayerLike, PlayerIs
<1>. HIDE DEF p
<1>4. WorldIs(u, w.saved, w.refused, w.taken) /\ u.b = w.b /\ PlayerLike(u.p, w.p)
  BY <1>1, <1>2, <1>3, WithPlayer DEF PlayerLike, PlayerIs
<1>5. w.taken[i + 1].kind \notin Deciding \cup EndKinds /\ w.taken[i + 1].kind # "failed"
  BY DEF Deciding, EndKinds
<1>. QED BY <1>4, <1>5, PassedKeeps

\* The state a player reports is taken over, or kept for when it has buffered.
NativeState(p, w, kind) ==
    \/ /\ kind = "failure" /\ p.playingState = "error" /\ p.resume = Nothing
    \/ /\ kind \in {"playing", "paused"} /\ p.playingState = kind /\ p.resume = Nothing
    \/ /\ kind \in {"buffering", "ready"}
       /\ Showing(w.p) \in ShowingStates => Showing(p) = Showing(w.p)

LEMMA NativeWorld ==
  ASSUME NEW w \in Worlds, NEW kind \in PlayerKinds \cup {"failure"}
  PROVE  LET u == HandleNative(w, kind)
         IN  /\ WorldIs(u, w.saved, w.refused, w.taken) /\ u.b = w.b
             /\ PlayerIs(u.p, w.p.queue, w.p.currentIndex, u.p.playingState, u.p.resume,
                         w.p.active, w.p.prepared, w.p.attempts, w.p.plan)
             /\ NativeState(u.p, w, kind)
<1>. DEFINE u == HandleNative(w, kind)
            state == CASE kind = "buffering" -> "interrupted"
                       [] kind = "ready" -> IF w.p.playingState # "interrupted"
                                            THEN w.p.playingState
                                            ELSE IF w.p.resume = Nothing THEN "paused"
                                            ELSE w.p.resume
                       [] kind \in {"playing", "paused"} -> kind
                       [] kind = "failure" -> "error"
            resume == IF kind = "buffering"
                      THEN IF w.p.playingState = "interrupted" THEN w.p.resume
                           ELSE w.p.playingState
                      ELSE Nothing
            p == [w.p EXCEPT !.playingState = state, !.resume = resume]
<1>1. w.p.playingState \in PlayingStates /\ w.p.resume \in PlayingStates \cup {Nothing}
  BY WorldFields, PlayerFields
<1>2. state \in PlayingStates /\ resume \in PlayingStates \cup {Nothing}
  BY <1>1 DEF PlayingStates, PlayerKinds
<1>3. u = [w EXCEPT !.p = p]
  <2>1. CASE kind = "buffering"
    BY <2>1, <1>1 DEF HandleNative, Worlds, Player
  <2>2. CASE kind = "ready"
    BY <2>2, <1>1 DEF HandleNative, Worlds, Player
  <2>3. CASE kind \in {"playing", "paused"}
    BY <2>3 DEF HandleNative, Worlds, Player
  <2>4. CASE kind = "failure"
    BY <2>4 DEF HandleNative, ToError, Worlds, Player
  <2>. QED BY <2>1, <2>2, <2>3, <2>4 DEF PlayerKinds
<1>4. NativeState([playingState |-> state, resume |-> resume], w, kind)
  BY <1>1 DEF NativeState, Showing, ShowingStates, PlayerKinds, PlayingStates, Nothing
<1>. HIDE DEF state, resume, u
<1>5. PlayerIs(p, w.p.queue, w.p.currentIndex, state, resume,
               w.p.active, w.p.prepared, w.p.attempts, w.p.plan)
  BY <1>2 DEF Worlds, Player, PlayerIs
<1>. HIDE DEF p
<1>6. /\ WorldIs(u, w.saved, w.refused, w.taken) /\ u.b = w.b
      /\ PlayerIs(u.p, w.p.queue, w.p.currentIndex, state, resume,
                  w.p.active, w.p.prepared, w.p.attempts, w.p.plan)
  BY <1>3, <1>5, WithPlayer DEF PlayerIs
<1>7. NativeState(u.p, w, kind)
  <2>1. u.p.playingState = state /\ u.p.resume = resume
    BY <1>6 DEF PlayerIs
  <2>. QED BY <1>4, <2>1 DEF NativeState, Showing
<1>8. u.p.playingState = state /\ u.p.resume = resume
  BY <1>6 DEF PlayerIs
<1>. QED BY <1>6, <1>7, <1>8 DEF u

LEMMA HandledNative ==
  ASSUME NEW w, NEW i, NEW context, Taking(w, i),
         w.taken[i + 1].kind \in PlayerKinds \cup {"failure"},
         NEW u \in Handle(w, w.taken[i + 1], context)
  PROVE  Handled(u, w, i + 1)
<1>. DEFINE q == w.taken
            kind == q[i + 1].kind
<1>1. /\ w \in Worlds /\ q \in Seq(NativeEvents) /\ i \in Nat /\ i + 1 \in DOMAIN q
      /\ CoreInv(w.p, w.saved) /\ EventInv(w.p, w.b, q, i) /\ reports \in Troubles
      /\ w.b.events = <<>> /\ w.refused = FALSE
  BY WorldFields DEF Taking, SoundAfter
<1>2. ~OnDesktop
  <2>1. Waits(q, i, PlayerKinds \cup {"failure"})
    BY <1>1, NextWaits
  <2>. QED BY <1>1, <2>1, ErrorOnDesktop
<1>3. u = HandleNative(w, kind)
  BY DEF Handle, PlayerKinds
<1>4. /\ WorldIs(u, w.saved, w.refused, q) /\ u.b = w.b
      /\ PlayerIs(u.p, w.p.queue, w.p.currentIndex, u.p.playingState, u.p.resume,
                  w.p.active, w.p.prepared, w.p.attempts, w.p.plan)
      /\ NativeState(u.p, w, kind)
  BY <1>1, <1>3, NativeWorld
<1>5. /\ u \in Worlds /\ u.saved = w.saved /\ u.refused = FALSE /\ u.taken = q /\ u.b = w.b
      /\ u.p.queue = w.p.queue /\ u.p.currentIndex = w.p.currentIndex /\ u.p.active = w.p.active
      /\ u.p.prepared = w.p.prepared /\ u.p.attempts = w.p.attempts /\ u.p.plan = w.p.plan
      /\ PreparedActive(u.p) <=> PreparedActive(w.p)
      /\ NextTarget(u.p) <=> NextTarget(w.p)
  BY <1>1, <1>4 DEF WorldIs, PlayerIs, PreparedActive, NextTarget
<1>6. CoreInv(u.p, u.saved)
  BY <1>1, <1>2, <1>5 DEF CoreInv, IndexInv, PlanInv, DesktopInv
<1>7. /\ i + 1 \in Waiting(q, i) /\ Waiting(q, i + 1) \subseteq Waiting(q, i)
      /\ \A k \in Waiting(q, i) : k = i + 1 \/ k \in Waiting(q, i + 1)
      /\ \A kinds : Waits(q, i, kinds) <=> kind \in kinds \/ Waits(q, i + 1, kinds)
      /\ \A kind1 : WaitsFresh(q, i, kind1)
                        <=> \/ kind = kind1 /\ ~q[i + 1].stale
                            \/ WaitsFresh(q, i + 1, kind1)
  BY <1>1, NextWaits
<1>8. kind \notin {"transition", "failed"}
  BY DEF PlayerKinds
<1>9. /\ NextInv(w.p, w.b, q, i + 1) /\ RecoveryInv(w.p, w.b, q, i + 1)
      /\ OrderInv(w.p, w.b, q, i + 1) /\ SilentInv(w.p, w.b, q, i + 1)
      /\ ReadyInv(w.p, w.b, q, i + 1)
      /\ HeardInv(w.p, w.b, q, i) /\ SilentInv(w.p, w.b, q, i)
  BY <1>1, <1>8, PassedEvent DEF EventInv, StatusInv
<1>10. NextInv(u.p, u.b, q, i + 1) /\ ReadyInv(u.p, u.b, q, i + 1)
  BY <1>5, <1>9 DEF NextInv, ReadyInv
<1>11. RecoveryInv(u.p, u.b, q, i + 1) /\ OrderInv(u.p, u.b, q, i + 1)
  BY <1>5, <1>9 DEF RecoveryInv, OrderInv
<1>12. HeardInv(u.p, u.b, q, i + 1) /\ SilentInv(u.p, u.b, q, i + 1)
  <2>. SUFFICES ASSUME Undisturbed, w.p.active
                PROVE  HeardInv(u.p, u.b, q, i + 1) /\ SilentInv(u.p, u.b, q, i + 1)
    BY <1>5 DEF HeardInv, SilentInv
  <2>1. CASE kind = "failure"
    <3>1. Showing(u.p) \notin ShowingStates /\ u.p.playingState # "interrupted"
      BY <1>4, <2>1 DEF NativeState, Showing, ShowingStates
    <3>2. w.b.ended /\ ~Waits(q, i + 1, PlayerKinds) /\ ~Waits(q, i + 1, {"transition"})
      <4>1. kind \in EndKinds
        BY <2>1 DEF EndKinds
      <4>. QED BY <4>1, EndSettles, SettlingWaits
    <3>. QED BY <1>5, <3>1, <3>2 DEF HeardInv, SilentInv
  <2>2. CASE kind \in PlayerKinds
    <3>1. Showing(w.p) \in ShowingStates
      <4>1. Waits(q, i, PlayerKinds)
        BY <1>7, <2>2
      <4>. QED BY <1>9, <4>1 DEF SilentInv
    <3>2. /\ w.p.currentIndex \in Indices(w.p.queue) /\ w.b.heard # NoEntry
          /\ PreparedActive(w.p) => NextTarget(w.p)
          /\ Waits(q, i, {"transition"}) =>
                /\ PreparedActive(w.p) /\ ~WaitsFresh(q, i, "failed")
                /\ SongOf[w.b.heard] = w.p.prepared.song
          /\ ~Waits(q, i, {"transition"})
                => SongOf[w.b.heard] = SongAt(w.p.queue, w.p.currentIndex)
          /\ ~Waits(q, i, Deciding) => w.b.paused = (Showing(w.p) = "paused")
          /\ \A k \in Waiting(q, i) :
                q[k].kind \in Deciding
                  /\ (\A l \in Waiting(q, i) : l > k => q[l].kind \notin Deciding)
                  => w.b.paused = (q[k].kind = "paused")
          /\ w.b.ended => Waits(q, i, EndKinds)
      BY <1>9, <3>1 DEF HeardInv
    <3>3. CASE kind \in {"buffering", "ready"}
      <4>1. Showing(u.p) = Showing(w.p)
        BY <1>4, <3>1, <3>3 DEF NativeState
      <4>2. HeardInv(w.p, w.b, q, i + 1)
        BY <1>1, <1>9, <3>3, PassedEvent DEF Deciding, EndKinds
      <4>3. HeardInv(u.p, u.b, q, i + 1)
        BY <1>5, <4>1, <4>2 DEF HeardInv
      <4>. QED BY <3>1, <4>1, <4>3 DEF SilentInv
    <3>4. CASE kind \in {"playing", "paused"}
      <4>1. Showing(u.p) = kind /\ kind \in ShowingStates
        BY <1>4, <3>4 DEF NativeState, Showing, ShowingStates
      <4>2. /\ Waits(q, i, {"transition"}) <=> Waits(q, i + 1, {"transition"})
            /\ WaitsFresh(q, i + 1, "failed") => WaitsFresh(q, i, "failed")
            /\ w.b.ended => Waits(q, i + 1, EndKinds)
        <5>1. kind \notin EndKinds
          BY <3>4 DEF EndKinds
        <5>. QED BY <1>7, <1>8, <3>2, <5>1
      <4>3. ASSUME ~Waits(q, i + 1, Deciding)
            PROVE  w.b.paused = (kind = "paused")
        <5>1. \A l \in Waiting(q, i) : l > i + 1 => l \in Waiting(q, i + 1)
          BY DEF Waiting
        <5>2. \A l \in Waiting(q, i) : l > i + 1 => q[l].kind \notin Deciding
          BY <4>3, <5>1 DEF Waits
        <5>. QED BY <1>7, <3>2, <3>4, <5>2 DEF Deciding
      <4>4. ASSUME NEW k \in Waiting(q, i + 1), q[k].kind \in Deciding,
                   \A l \in Waiting(q, i + 1) : l > k => q[l].kind \notin Deciding
            PROVE  w.b.paused = (q[k].kind = "paused")
        <5>1. k \in Waiting(q, i)
          BY <1>7
        <5>2. DOMAIN q \subseteq Nat /\ k \in Nat /\ k > i + 1
          BY <1>1 DEF Waiting
        <5>3. \A l \in Waiting(q, i) : l > k => l \in Waiting(q, i + 1)
          BY <1>1, <5>2 DEF Waiting
        <5>4. \A l \in Waiting(q, i) : l > k => q[l].kind \notin Deciding
          BY <4>4, <5>3
        <5>. QED BY <3>2, <4>4, <5>1, <5>4
      <4>5. HeardInv(u.p, u.b, q, i + 1)
        BY <1>5, <3>2, <4>1, <4>2, <4>3, <4>4 DEF HeardInv
      <4>. QED BY <4>1, <4>5 DEF SilentInv
    <3>. QED BY <2>2, <3>3, <3>4 DEF PlayerKinds
  <2>. QED BY <2>1, <2>2
<1>13. SoundAfter(u, i + 1)
  BY <1>5, <1>6, <1>10, <1>11, <1>12 DEF SoundAfter, EventInv, StatusInv
<1>. QED BY <1>1, <1>2, <1>5, <1>13 DEF Handled, Moves

\* Whatever the event was.
LEMMA HandledEvent ==
  ASSUME NEW w, NEW i, NEW context, Taking(w, i), NEW u \in Handle(w, w.taken[i + 1], context)
  PROVE  Handled(u, w, i + 1)
<1>. DEFINE kind == w.taken[i + 1].kind
<1>1. /\ w.taken \in Seq(NativeEvents) /\ i \in Nat /\ i + 1 \in DOMAIN w.taken
      /\ reports \in Troubles
  BY WorldFields DEF Taking, SoundAfter
<1>2. kind \in {"prepared", "failed", "transition", "ended", "seek"} \cup reports
  <2>1. w.taken[i + 1] \in NativeEvents
    BY <1>1, NextWaits
  <2>. QED BY <2>1 DEF NativeEvents
<1>3. reports \subseteq PlayerKinds \cup {"failure", "error"}
  BY <1>1, ControllerAssumption DEF Desktop, Android, PlayerKinds
<1>4. \/ kind \in {"prepared", "failed", "transition", "ended", "seek", "error"}
      \/ kind \in PlayerKinds \cup {"failure"}
  BY <1>2, <1>3
<1>. QED BY <1>4, HandledPrepared, HandledFailed, HandledTransition, HandledEnded,
            HandledSeek, HandledError, HandledNative

-----------------------------------------------------------------------------
\* A batch of events.

\* The worlds after i events, and the function HandledUpTo defines.
Reached(f, w, i, context) == IF i = 0 THEN {w} ELSE HandleEach(f[i - 1], i, context)
Reaches(f, w, n, context) == f = [i \in 0 .. n |-> Reached(f, w, i, context)]

LEMMA ReachesExists ==
  ASSUME NEW n \in Nat, NEW w, NEW context
  PROVE  \E f : Reaches(f, w, n, context)
<1>. DEFINE Missing == {m \in Nat : ~\E f : Reaches(f, w, m, context)}
<1>. SUFFICES ASSUME Missing # {} PROVE FALSE
  OBVIOUS
<1>1. PICK m \in Missing : \A k \in Missing : m <= k
  BY LeastExists
<1>2. CASE m = 0
  <2>. DEFINE f == [i \in 0 .. 0 |-> {w}]
  <2>1. \A i \in 0 .. 0 : Reached(f, w, i, context) = {w}
    BY DEF Reached
  <2>. HIDE DEF f
  <2>2. Reaches(f, w, 0, context)
    BY <2>1 DEF Reaches, f
  <2>. QED BY <1>1, <1>2, <2>2
<1>3. CASE m # 0
  <2>1. m - 1 \in Nat /\ ~(m <= m - 1)
    BY <1>1, <1>3
  <2>2. PICK g : Reaches(g, w, m - 1, context)
    BY <1>1, <2>1
  <2>. DEFINE f == [i \in 0 .. m |-> Reached(g, w, i, context)]
  <2>3. \A i \in 0 .. m - 1 : g[i] = Reached(g, w, i, context)
    BY <2>2 DEF Reaches
  <2>4. \A i \in 0 .. m : f[i] = Reached(g, w, i, context)
    OBVIOUS
  <2>5. \A i \in 0 .. m - 1 : f[i] = g[i]
    BY <1>1, <2>1, <2>3, <2>4
  <2>. HIDE DEF f
  <2>6. ASSUME NEW i \in 0 .. m
        PROVE  Reached(f, w, i, context) = Reached(g, w, i, context)
    <3>1. i = 0 \/ i - 1 \in 0 .. m - 1
      BY <1>1
    <3>. QED BY <2>5, <3>1 DEF Reached
  <2>7. Reaches(f, w, m, context)
    BY <2>6 DEF Reaches, f
  <2>. QED BY <1>1, <2>7
<1>. QED BY <1>2, <1>3

LEMMA HandledFold ==
  ASSUME NEW n \in Nat, NEW w, NEW context
  PROVE  \E f : Reaches(f, w, n, context) /\ HandledUpTo(w, n, context) = f[n]
<1>. DEFINE f == CHOOSE f : Reaches(f, w, n, context)
<1>1. Reaches(f, w, n, context)
  BY ReachesExists
<1>2. HandledUpTo(w, n, context) = f[n]
  BY DEF HandledUpTo, Reaches, Reached
<1>. QED BY <1>1, <1>2

\* What several handled events may do to the index and to a scheduled recovery.
MovesFar(t, s) ==
    OnDesktop =>
      \/ /\ t.p.currentIndex > s.p.currentIndex
         /\ t.p.plan = NoPlan \/ t.p.plan.index = t.p.currentIndex \/ t.refused
      \/ /\ t.p.currentIndex = s.p.currentIndex /\ t.p.attempts = s.p.attempts
         /\ s.p.plan # NoPlan => t.p.plan = s.p.plan

LEMMA MovesFurther ==
  ASSUME NEW u \in Worlds, NEW w \in Worlds, NEW s \in Worlds, w.refused = FALSE,
         Moves(u, w), MovesFar(w, s)
  PROVE  MovesFar(u, s)
<1>1. u.p.currentIndex \in Int /\ w.p.currentIndex \in Int /\ s.p.currentIndex \in Int
  BY WorldFields, PlayerFields
<1>. SUFFICES ASSUME OnDesktop PROVE MovesFar(u, s)
  BY DEF MovesFar
<1>2. CASE u.p.currentIndex > w.p.currentIndex /\ (u.p.plan = NoPlan \/ u.refused)
  BY <1>1, <1>2 DEF MovesFar
<1>3. CASE /\ u.p.currentIndex = w.p.currentIndex /\ u.p.attempts = w.p.attempts
           /\ w.p.plan # NoPlan => u.p.plan = w.p.plan
           /\ u.p.plan = w.p.plan \/ u.p.plan.index = u.p.currentIndex
  BY <1>1, <1>3 DEF MovesFar
<1>. QED BY <1>2, <1>3 DEF Moves

\* A world in the middle of the batch that began in s.
InBatch(t, s, i) ==
    /\ t \in Worlds /\ t.b.events = <<>> /\ Len(t.taken) = Len(s.taken)
    /\ t.p.queue = s.p.queue /\ t.p.active = s.p.active /\ t.saved = s.saved
    /\ MovesFar(t, s)
    /\ IF t.refused THEN Sound(t) ELSE SoundAfter(t, i)

LEMMA BatchStep ==
  ASSUME NEW s \in Worlds, NEW context, reports \in Troubles,
         NEW i \in 1 .. Len(s.taken), NEW worlds, \A t \in worlds : InBatch(t, s, i - 1),
         NEW u \in HandleEach(worlds, i, context)
  PROVE  InBatch(u, s, i)
<1>1. PICK t \in worlds : u \in (IF t.refused THEN {t} ELSE Handle(t, t.taken[i], context))
  BY DEF HandleEach, Then
<1>2. CASE t.refused
  BY <1>1, <1>2 DEF InBatch
<1>3. CASE ~t.refused
  <2>1. /\ t \in Worlds /\ t.refused = FALSE /\ InBatch(t, s, i - 1)
        /\ t.taken \in Seq(NativeEvents)
    <3>1. InBatch(t, s, i - 1) /\ t \in Worlds
      BY <1>1 DEF InBatch
    <3>. QED BY <1>3, <3>1, WorldFields
  <2>2. Len(s.taken) \in Nat /\ i - 1 \in Nat /\ (i - 1) + 1 = i /\ i \in DOMAIN t.taken
    BY <2>1, WorldFields DEF InBatch
  <2>3. Taking(t, i - 1)
    BY <1>3, <2>1, <2>2 DEF Taking, InBatch
  <2>4. Handled(u, t, i)
    BY <1>1, <1>3, <2>2, <2>3, HandledEvent
  <2>5. MovesFar(u, s)
    BY <2>1, <2>4, MovesFurther DEF Handled, InBatch
  <2>. QED BY <2>1, <2>4, <2>5 DEF Handled, InBatch
<1>. QED BY <1>2, <1>3

LEMMA BatchKeeps ==
  ASSUME NEW s \in Worlds, NEW context, reports \in Troubles,
         SoundAfter(s, 0), s.refused = FALSE, s.b.events = <<>>,
         NEW t \in HandledUpTo(s, Len(s.taken), context)
  PROVE  InBatch(t, s, Len(s.taken))
<1>. DEFINE n == Len(s.taken)
<1>1. n \in Nat
  BY WorldFields
<1>2. PICK f : Reaches(f, s, n, context) /\ HandledUpTo(s, n, context) = f[n]
  BY <1>1, HandledFold
<1>3. \A i \in 0 .. n : f[i] = Reached(f, s, i, context)
  BY <1>2 DEF Reaches
<1>. DEFINE Wrong == {i \in 0 .. n : ~ \A u \in f[i] : InBatch(u, s, i)}
<1>4. Wrong = {}
  <2>. SUFFICES ASSUME Wrong # {} PROVE FALSE
    OBVIOUS
  <2>1. Wrong \in SUBSET Nat
    OBVIOUS
  <2>2. PICK m \in Wrong : \A k \in Wrong : m <= k
    BY <2>1, LeastExists
  <2>3. CASE m = 0
    <3>1. f[0] = {s}
      BY <1>1, <1>3 DEF Reached
    <3>2. InBatch(s, s, 0)
      BY DEF InBatch, MovesFar
    <3>. QED BY <2>2, <2>3, <3>1, <3>2
  <2>4. CASE m # 0
    <3>1. m - 1 \in 0 .. n /\ m \in 1 .. n /\ ~(m <= m - 1)
      BY <1>1, <2>2, <2>4
    <3>2. \A u \in f[m - 1] : InBatch(u, s, m - 1)
      BY <2>2, <3>1
    <3>3. f[m] = HandleEach(f[m - 1], m, context)
      BY <1>3, <2>2, <2>4 DEF Reached
    <3>4. \A u \in f[m] : InBatch(u, s, m)
      BY <3>1, <3>2, <3>3, BatchStep
    <3>. QED BY <2>2, <3>4
  <2>. QED BY <2>3, <2>4
<1>5. n \in 0 .. n /\ t \in f[n]
  BY <1>1, <1>2
<1>. QED BY <1>4, <1>5

\* When all of them are handled, nothing waits.
LEMMA BatchEnds ==
  ASSUME NEW w, SoundAfter(w, Len(w.taken)), w.b.events = <<>>
  PROVE  Sound(w)
<1>. DEFINE q == w.taken
            n == Len(q)
<1>1. q \in Seq(NativeEvents) /\ n \in Nat
  BY WorldFields DEF SoundAfter
<1>2. Waiting(q, n) = {} /\ Waiting(<<>>, 0) = {}
  BY <1>1 DEF Waiting
<1>3. /\ \A kinds : ~Waits(q, n, kinds) /\ ~Waits(<<>>, 0, kinds)
      /\ \A kind : ~WaitsFresh(q, n, kind) /\ ~WaitsFresh(<<>>, 0, kind)
  BY <1>2 DEF Waits, WaitsFresh
<1>4. EventInv(w.p, w.b, q, n)
  BY DEF SoundAfter
<1>. HIDE DEF n, q
<1>5. NextInv(w.p, w.b, <<>>, 0) /\ ReadyInv(w.p, w.b, <<>>, 0)
  BY <1>3, <1>4 DEF EventInv, NextInv, ReadyInv
<1>6. RecoveryInv(w.p, w.b, <<>>, 0)
  BY <1>2, <1>3, <1>4 DEF EventInv, StatusInv, RecoveryInv, ErrorsEnd
<1>7. OrderInv(w.p, w.b, <<>>, 0)
  BY <1>2, <1>3, <1>4 DEF EventInv, StatusInv, OrderInv
<1>8. HeardInv(w.p, w.b, <<>>, 0)
  BY <1>2, <1>3, <1>4 DEF EventInv, StatusInv, HeardInv
<1>9. SilentInv(w.p, w.b, <<>>, 0)
  BY <1>2, <1>3, <1>4 DEF EventInv, StatusInv, SilentInv
<1>. QED BY <1>5, <1>6, <1>7, <1>8, <1>9 DEF Sound, SoundAfter, EventInv, StatusInv

\* Silence is sound, even if something is still being prepared.
LEMMA QuietKeeps ==
  ASSUME NEW w \in Worlds,
         w.p.prepared = NoPrepared, w.b.heard = NoEntry, w.b.events = <<>>,
         NextInv(w.p, w.b, <<>>, 0), Undisturbed => w.b.next = NoNext,
         Showing(w.p) \notin ShowingStates, w.p.playingState \notin ShowingStates,
         IndexIn(w.p.queue, w.p.currentIndex), IndexIn(w.saved.queue, w.saved.currentIndex),
         PlanInv(w.p), w.p.plan = NoPlan <=> w.p.plan.attempt = 0
  PROVE  Sound(w)
<1>1. w.p.prepared.state = Nothing /\ ~PreparedActive(w.p)
  BY NotPrepared
<1>2. IndexInv(w.p, w.saved) /\ DesktopInv(w.p)
  BY <1>1 DEF IndexInv, DesktopInv
<1>3. ReadyInv(w.p, w.b, <<>>, 0)
  BY <1>1 DEF ReadyInv
<1>4. RecoveryInv(w.p, w.b, <<>>, 0)
  BY NoneWaits DEF RecoveryInv, ErrorsEnd
<1>5. OrderInv(w.p, w.b, <<>>, 0)
  BY NoneWaits DEF OrderInv
<1>6. HeardInv(w.p, w.b, <<>>, 0)
  BY DEF HeardInv
<1>7. SilentInv(w.p, w.b, <<>>, 0)
  BY NoneWaits DEF SilentInv
<1>. QED BY <1>2, <1>3, <1>4, <1>5, <1>6, <1>7 DEF Sound, CoreInv, EventInv, StatusInv

-----------------------------------------------------------------------------
\* Recovery.

\* A recovery is due: nothing is heard or prepared, and its attempt is the next one.
Due(t) ==
    /\ Sound(t) /\ t.refused = FALSE /\ t.b.events = <<>> /\ t.p.plan # NoPlan
    /\ reports \in Troubles

LEMMA DueFacts ==
  ASSUME NEW t, Due(t)
  PROVE  /\ t \in Worlds /\ OnDesktop /\ ~OnAndroid
         /\ t.p.prepared = NoPrepared /\ t.b.heard = NoEntry
         /\ NextInv(t.p, t.b, <<>>, 0) /\ (Undisturbed => t.b.next = NoNext)
         /\ t.p.plan \in Plans /\ t.p.plan.attempt \in 1 .. MaxAttempts
         /\ t.p.plan.attempt = t.p.attempts + 1 /\ t.p.attempts \in 0 .. MaxAttempts
         /\ t.p.plan.index \in Int /\ t.p.plan.position \in {AtStart, Later}
         /\ t.p.plan.autoplay \in BOOLEAN
         /\ "recovery" \notin windows => t.p.plan.index = t.p.currentIndex
         /\ IndexIn(t.p.queue, t.p.currentIndex) /\ IndexIn(t.saved.queue, t.saved.currentIndex)
<1>1. /\ t \in Worlds /\ CoreInv(t.p, t.saved) /\ EventInv(t.p, t.b, <<>>, 0)
      /\ t.p.plan # NoPlan
  BY DEF Due, Sound
<1>2. OnDesktop /\ ~OnAndroid
  <2>1. reports \subseteq Desktop \/ reports \subseteq Android
    BY ControllerAssumption DEF Due
  <2>. QED BY <1>1, <2>1 DEF CoreInv, PlanInv, OnDesktop, OnAndroid
<1>3. t.p.prepared = NoPrepared /\ ~PreparedActive(t.p)
  <2>1. t.p.prepared = NoPrepared
    BY <1>1, <1>2 DEF CoreInv, DesktopInv
  <2>. QED BY <2>1, NotPrepared
<1>4. /\ t.b.heard = NoEntry /\ NextInv(t.p, t.b, <<>>, 0) /\ (Undisturbed => t.b.next = NoNext)
  BY <1>1, <1>3 DEF EventInv, StatusInv, RecoveryInv, OrderInv
<1>5. /\ t.p.plan \in Plans /\ t.p.plan.attempt = t.p.attempts + 1
      /\ t.p.attempts \in 0 .. MaxAttempts
  BY <1>1, WorldFields, PlayerFields DEF CoreInv, PlanInv
<1>6. /\ t.p.plan.attempt \in 0 .. MaxAttempts /\ t.p.plan.index \in Int
      /\ t.p.plan.position \in {AtStart, Later} /\ t.p.plan.autoplay \in BOOLEAN
  BY <1>5 DEF Plans
<1>7. t.p.plan.attempt \in 1 .. MaxAttempts
  BY <1>5, <1>6 DEF MaxAttempts
<1>. QED BY <1>1, <1>2, <1>3, <1>4, <1>5, <1>6, <1>7 DEF CoreInv, PlanInv, IndexInv

\* What an attempt leaves.
Attempt(u, t) ==
    /\ u \in Worlds /\ u.refused = FALSE /\ u.b.events = <<>> /\ Sound(u)
    /\ u.p.queue = t.p.queue /\ u.p.active = t.p.active /\ u.saved = t.saved
    /\ u.p.attempts >= t.p.plan.attempt
    /\ u.p.currentIndex \in {t.p.currentIndex, t.p.plan.index}

LEMMA AttemptedWorld ==
  ASSUME NEW w \in Worlds, NEW attempt \in 0 .. MaxAttempts
  PROVE  /\ WorldIs(Attempted(w, attempt), w.saved, FALSE, w.taken)
         /\ Attempted(w, attempt).b = w.b
         /\ PlayerIs(Attempted(w, attempt).p, w.p.queue, w.p.currentIndex, w.p.playingState,
                     w.p.resume, w.p.active, w.p.prepared, attempt, w.p.plan)
<1>. DEFINE p == [w.p EXCEPT !.attempts = attempt]
            a == [w EXCEPT !.p = p]
<1>1. Attempted(w, attempt) = [a EXCEPT !.refused = FALSE]
  BY DEF Attempted
<1>2. PlayerIs(p, w.p.queue, w.p.currentIndex, w.p.playingState,
                     w.p.resume, w.p.active, w.p.prepared, attempt, w.p.plan)
  BY DEF Worlds, Player, PlayerIs
<1>. HIDE DEF p
<1>3. WorldIs(a, w.saved, w.refused, w.taken) /\ a.p = p /\ a.b = w.b
  BY <1>2, WithPlayer DEF PlayerIs
<1>. HIDE DEF a
<1>. QED BY <1>1, <1>2, <1>3 DEF Worlds, WorldIs

\* Nothing plays, and it is tried again later, or not.
LEMMA SilentAttempt ==
  ASSUME NEW t, Due(t), NEW u \in Worlds, NEW state \in {"interrupted", "error"},
         NEW plan \in Plans, NEW attempts \in 0 .. MaxAttempts,
         u.saved = t.saved, u.refused = FALSE, u.b.heard = NoEntry, u.b.events = <<>>,
         u.b = t.b \/ u.b.next = NoNext,
         PlayerIs(u.p, t.p.queue, t.p.currentIndex, state, Nothing, t.p.active, NoPrepared,
                  attempts, plan),
         attempts >= t.p.plan.attempt,
         \/ plan = NoPlan
         \/ plan.index = t.p.plan.index /\ plan.attempt = attempts + 1
  PROVE  Attempt(u, t)
<1>1. /\ t \in Worlds /\ OnDesktop /\ ~OnAndroid
      /\ NextInv(t.p, t.b, <<>>, 0) /\ (Undisturbed => t.b.next = NoNext)
      /\ t.p.prepared = NoPrepared /\ t.p.plan # NoPlan
      /\ IndexIn(t.p.queue, t.p.currentIndex) /\ IndexIn(t.saved.queue, t.saved.currentIndex)
      /\ CoreInv(t.p, t.saved)
  BY DueFacts DEF Due, Sound
<1>2. /\ u.p.queue = t.p.queue /\ u.p.currentIndex = t.p.currentIndex /\ u.p.active = t.p.active
      /\ u.p.playingState = state /\ u.p.resume = Nothing /\ u.p.prepared = NoPrepared
      /\ u.p.attempts = attempts /\ u.p.plan = plan
  BY DEF PlayerIs
<1>3. Showing(u.p) \notin ShowingStates /\ u.p.playingState \notin ShowingStates
  BY <1>2 DEF Showing, ShowingStates, Nothing
<1>4. ~PreparedActive(u.p) /\ ~PreparedActive(t.p)
  BY <1>1, <1>2, NotPrepared
<1>5. NextInv(u.p, u.b, <<>>, 0) /\ (Undisturbed => u.b.next = NoNext)
  <2>1. CASE u.b = t.b
    BY <1>1, <1>4, <2>1 DEF NextInv
  <2>2. CASE u.b.next = NoNext
    BY <1>4, <2>2, Values DEF NextInv
  <2>. QED BY <2>1, <2>2
<1>6. u.p.plan = NoPlan <=> u.p.plan.attempt = 0
  BY <1>2, Values
<1>7. PlanInv(u.p)
  BY <1>1, <1>2 DEF CoreInv, PlanInv
<1>8. Sound(u)
  BY <1>1, <1>2, <1>3, <1>5, <1>6, <1>7, QuietKeeps
<1>. QED BY <1>2, <1>8 DEF Attempt

\* The attempt worked.
LEMMA LoadedAttempt ==
  ASSUME NEW t, Due(t), NEW w \in Worlds, w.saved = t.saved, w.refused = FALSE,
         w.p.queue = t.p.queue, w.p.active = t.p.active,
         NEW r, Loading(r, w, t.p.plan.index, t.p.plan.autoplay)
  PROVE  Attempt(Attempted(r, t.p.plan.attempt), t)
<1>. DEFINE attempt == t.p.plan.attempt
            u == Attempted(r, attempt)
<1>1. attempt \in 1 .. MaxAttempts /\ attempt \in 0 .. MaxAttempts
  BY DueFacts DEF MaxAttempts
<1>2. /\ r \in Worlds /\ r.saved = t.saved /\ r.b.events = <<>>
      /\ r.p.queue = t.p.queue /\ r.p.currentIndex = t.p.plan.index /\ r.p.active = t.p.active
      /\ r.p.plan = NoPlan /\ Sound(r)
  BY DEF Loading, PlayerIs
<1>. HIDE DEF attempt
<1>3. /\ WorldIs(u, r.saved, FALSE, r.taken) /\ u.b = r.b
      /\ PlayerIs(u.p, r.p.queue, r.p.currentIndex, r.p.playingState,
                     r.p.resume, r.p.active, r.p.prepared, attempt, r.p.plan)
  BY <1>1, <1>2, AttemptedWorld
<1>. HIDE DEF u
<1>4. /\ u.p.queue = r.p.queue /\ u.p.currentIndex = r.p.currentIndex
      /\ u.p.active = r.p.active /\ u.p.prepared = r.p.prepared /\ u.p.plan = r.p.plan
      /\ u.p.attempts = attempt
      /\ u.p.playingState = r.p.playingState /\ Showing(u.p) = Showing(r.p)
  BY <1>3 DEF PlayerIs, Showing
<1>5. CoreInv(u.p, u.saved)
  <2>1. NextTarget(u.p) <=> NextTarget(r.p)
    BY <1>4 DEF NextTarget
  <2>2. CoreInv(r.p, r.saved) /\ u.saved = r.saved
    BY <1>2, <1>3 DEF Sound, WorldIs
  <2>. QED BY <1>2, <1>4, <2>1, <2>2 DEF CoreInv, IndexInv, PlanInv, DesktopInv
<1>6. EventInv(u.p, u.b, u.b.events, 0)
  BY <1>2, <1>3, <1>4, LikeEvents DEF Sound, EventInv, StatusInv
<1>7. Attempt(u, t)
  BY <1>1, <1>2, <1>3, <1>4, <1>5, <1>6 DEF Attempt, Sound, WorldIs, attempt
<1>. QED BY <1>7 DEF u, attempt

LEMMA RecoverAttempts ==
  ASSUME NEW t, Due(t), NEW u \in Recover(t)
  PROVE  Attempt(u, t)
<1>. DEFINE plan == t.p.plan
            p == [t.p EXCEPT !.plan = NoPlan]
            w == [t EXCEPT !.p = p]
            again == [plan EXCEPT !.attempt = @ + 1]
            failed(r) == IF plan.attempt < MaxAttempts
                         THEN Schedule(Attempted(r, plan.attempt), again)
                         ELSE ClearGapless(ToError([Attempted(r, plan.attempt)
                                                      EXCEPT !.p.position = plan.position]))
<1>1. /\ t \in Worlds /\ t.refused = FALSE /\ t.p.prepared = NoPrepared /\ t.b.heard = NoEntry
      /\ t.b.events = <<>>
      /\ plan \in Plans /\ plan.attempt \in 1 .. MaxAttempts
      /\ plan.index \in Int /\ plan.position \in {AtStart, Later} /\ plan.autoplay \in BOOLEAN
      /\ IndexIn(t.saved.queue, t.saved.currentIndex)
  BY DueFacts DEF Due
<1>2. PICK r \in ReloadExact(w, plan.index, plan.position, plan.autoplay) :
        u = IF r.refused THEN failed(r) ELSE Attempted(r, plan.attempt)
  BY DEF Recover
<1>3. PlayerIs(p, t.p.queue, t.p.currentIndex, t.p.playingState, t.p.resume, t.p.active,
               NoPrepared, t.p.attempts, NoPlan)
  BY <1>1, Values DEF Worlds, Player, PlayerIs
<1>. HIDE DEF p
<1>4. /\ WorldIs(w, t.saved, t.refused, t.taken) /\ w.p = p /\ w.b = t.b
  BY <1>1, <1>3, WithPlayer DEF PlayerIs
<1>. HIDE DEF w
<1>5. /\ w \in Worlds /\ w.refused = FALSE /\ w.saved = t.saved
      /\ w.p.prepared = NoPrepared /\ w.p.queue = t.p.queue /\ w.p.active = t.p.active
      /\ IndexIn(w.saved.queue, w.saved.currentIndex)
  BY <1>1, <1>3, <1>4 DEF WorldIs, PlayerIs
<1>. HIDE DEF plan
<1>6. \/ r = Refused(w)
      \/ /\ r \in Worlds /\ r.saved = w.saved /\ r.refused = TRUE /\ r.p = w.p
         /\ r.b.heard = NoEntry /\ r.b.next = NoNext /\ r.b.events = <<>>
      \/ Loading(r, w, plan.index, plan.autoplay)
  BY <1>1, <1>2, <1>5, ReloadWorlds
<1>7. CASE Loading(r, w, plan.index, plan.autoplay)
  <2>1. u = Attempted(r, plan.attempt)
    BY <1>2, <1>5, <1>7 DEF Loading
  <2>2. Loading(r, w, t.p.plan.index, t.p.plan.autoplay)
    BY <1>7 DEF plan
  <2>. QED BY <1>5, <2>1, <2>2, LoadedAttempt DEF plan
<1>8. CASE ~Loading(r, w, plan.index, plan.autoplay)
  <2>. DEFINE a == Attempted(r, plan.attempt)
  <2>1. /\ r \in Worlds /\ r.saved = t.saved /\ r.refused = TRUE /\ r.p = w.p
        /\ r.b.heard = NoEntry /\ r.b.events = <<>> /\ (r.b = t.b \/ r.b.next = NoNext)
    <3>1. CASE r = Refused(w)
      BY <1>1, <1>4, <1>5, <3>1, RefusedWorld DEF WorldIs
    <3>. QED BY <1>5, <1>6, <1>8, <3>1
  <2>2. plan.attempt \in 0 .. MaxAttempts /\ plan.attempt \in Int
    BY <1>1 DEF MaxAttempts
  <2>3. /\ WorldIs(a, t.saved, FALSE, r.taken) /\ a.b = r.b
        /\ PlayerIs(a.p, t.p.queue, t.p.currentIndex, t.p.playingState, t.p.resume, t.p.active,
                    NoPrepared, plan.attempt, NoPlan)
    <3>1. /\ WorldIs(a, r.saved, FALSE, r.taken) /\ a.b = r.b
          /\ PlayerIs(a.p, r.p.queue, r.p.currentIndex, r.p.playingState, r.p.resume,
                      r.p.active, r.p.prepared, plan.attempt, r.p.plan)
      BY <2>1, <2>2, AttemptedWorld
    <3>2. PlayerIs(r.p, t.p.queue, t.p.currentIndex, t.p.playingState, t.p.resume, t.p.active,
                   NoPrepared, t.p.attempts, NoPlan)
      BY <1>3, <1>4, <2>1
    <3>. HIDE DEF a
    <3>. QED BY <2>1, <3>1, <3>2 DEF PlayerIs
  <2>4. CASE plan.attempt < MaxAttempts
    <3>1. u = Schedule(a, again)
      BY <1>2, <2>1, <2>4
    <3>2. /\ again \in Plans /\ again.index = plan.index /\ again.attempt = plan.attempt + 1
      <4>1. plan.attempt + 1 \in 0 .. MaxAttempts
        BY <2>2, <2>4 DEF MaxAttempts
      <4>. QED BY <1>1, <4>1 DEF Plans
    <3>. HIDE DEF again, a
    <3>3. /\ WorldIs(u, a.saved, a.refused, a.taken) /\ u.b = a.b
          /\ PlayerIs(u.p, a.p.queue, a.p.currentIndex, "interrupted", Nothing,
                      a.p.active, a.p.prepared, a.p.attempts, again)
      BY <2>3, <3>1, <3>2, ScheduledWorld DEF WorldIs
    <3>4. PlayerIs(u.p, t.p.queue, t.p.currentIndex, "interrupted", Nothing, t.p.active,
                   NoPrepared, plan.attempt, again)
      BY <2>3, <3>3 DEF PlayerIs
    <3>5. /\ u \in Worlds /\ u.saved = t.saved /\ u.refused = FALSE /\ u.b = r.b
      BY <2>3, <3>3 DEF WorldIs
    <3>6. "interrupted" \in {"interrupted", "error"} /\ plan.attempt >= t.p.plan.attempt
      BY <2>2 DEF plan
    <3>. QED BY <2>1, <2>2, <3>2, <3>4, <3>5, <3>6, SilentAttempt DEF plan
  <2>5. CASE ~(plan.attempt < MaxAttempts)
    <3>. DEFINE p2 == [a.p EXCEPT !.position = plan.position]
                b == [a EXCEPT !.p = p2]
                e == ToError(b)
    <3>1. u = ClearGapless(e)
      BY <1>2, <2>1, <2>5
    <3>. HIDE DEF a
    <3>2. PlayerIs(p2, t.p.queue, t.p.currentIndex, t.p.playingState, t.p.resume, t.p.active,
                   NoPrepared, plan.attempt, NoPlan)
      BY <1>1, <2>3 DEF Player, PlayerIs
    <3>. HIDE DEF p2
    <3>3. WorldIs(b, t.saved, FALSE, r.taken) /\ b.p = p2 /\ b.b = r.b
      BY <2>3, <3>2, WithPlayer DEF WorldIs, PlayerIs
    <3>. HIDE DEF b
    <3>4. /\ WorldIs(e, t.saved, FALSE, r.taken) /\ e.b = r.b
          /\ PlayerIs(e.p, t.p.queue, t.p.currentIndex, "error", Nothing, t.p.active,
                   NoPrepared, plan.attempt, NoPlan)
      BY <3>2, <3>3, ErrorWorld DEF WorldIs, PlayerIs
    <3>. HIDE DEF e
    <3>5. u = e
      BY <3>1, <3>4 DEF ClearGapless, PlayerIs
    <3>6. "error" \in {"interrupted", "error"} /\ plan.attempt >= t.p.plan.attempt
          /\ NoPlan \in Plans
      BY <2>2, Values DEF plan
    <3>. QED BY <2>1, <2>2, <3>4, <3>5, <3>6, SilentAttempt DEF WorldIs
  <2>. QED BY <2>4, <2>5
<1>. QED BY <1>7, <1>8

-----------------------------------------------------------------------------
\* process_native_events_inner

\* What it leaves: the queue as it was, and an attempt more for every reload
\* unless another entry is current now.
Processed(t, w) ==
    /\ t \in Worlds /\ t.b.events = <<>> /\ Sound(t)
    /\ t.p.queue = w.p.queue /\ t.p.active = w.p.active /\ t.saved = w.saved
    /\ OnDesktop /\ t.p.currentIndex = w.p.currentIndex
         => w.p.attempts + Recovered(w.p.plan, t.p.plan) <= t.p.attempts

\* The attempts are up without a session to load from.
LEMMA GivenUp ==
  ASSUME NEW t, Due(t),
         NEW u, u = ToError([t EXCEPT !.p.plan = NoPlan, !.p.attempts = MaxAttempts])
  PROVE  Attempt(u, t)
<1>. DEFINE p == [t.p EXCEPT !.plan = NoPlan, !.attempts = MaxAttempts]
            w == [t EXCEPT !.p = p]
<1>1. /\ t \in Worlds /\ t.refused = FALSE /\ t.p.prepared = NoPrepared /\ t.b.heard = NoEntry
      /\ t.b.events = <<>> /\ t.p.plan.attempt \in 1 .. MaxAttempts
  BY DueFacts DEF Due
<1>2. MaxAttempts \in 0 .. MaxAttempts /\ MaxAttempts >= t.p.plan.attempt
  BY <1>1 DEF MaxAttempts
<1>3. u = ToError(w)
  BY <1>1 DEF Worlds
<1>4. PlayerIs(p, t.p.queue, t.p.currentIndex, t.p.playingState, t.p.resume, t.p.active,
               NoPrepared, MaxAttempts, NoPlan)
  BY <1>1, <1>2, Values DEF Worlds, Player, PlayerIs
<1>. HIDE DEF p
<1>5. WorldIs(w, t.saved, FALSE, t.taken) /\ w.p = p /\ w.b = t.b
  BY <1>1, <1>4, WithPlayer DEF PlayerIs
<1>. HIDE DEF w
<1>6. /\ WorldIs(u, t.saved, FALSE, t.taken) /\ u.b = t.b
      /\ PlayerIs(u.p, t.p.queue, t.p.currentIndex, "error", Nothing, t.p.active, NoPrepared,
                  MaxAttempts, NoPlan)
  BY <1>3, <1>4, <1>5, ErrorWorld DEF WorldIs, PlayerIs
<1>7. "error" \in {"interrupted", "error"} /\ NoPlan \in Plans
  BY Values
<1>. QED BY <1>1, <1>2, <1>6, <1>7, SilentAttempt DEF WorldIs

\* The count of reloads, if one was due.
LEMMA AttemptCounts ==
  ASSUME NEW s \in Worlds, NEW t \in Worlds, NEW u, Due(t), Attempt(u, t), MovesFar(t, s),
         OnDesktop, u.p.currentIndex = s.p.currentIndex
  PROVE  s.p.attempts + Recovered(s.p.plan, u.p.plan) <= u.p.attempts
<1>1. /\ s.p.attempts \in 0 .. MaxAttempts /\ t.p.plan.attempt = t.p.attempts + 1
      /\ u.p.attempts \in 0 .. MaxAttempts /\ u.p.attempts >= t.p.plan.attempt
      /\ s.p.currentIndex \in Int /\ t.p.currentIndex \in Int
  BY WorldFields, PlayerFields, DueFacts DEF Attempt
<1>2. ~(t.p.currentIndex > s.p.currentIndex)
  <2>. SUFFICES ASSUME t.p.currentIndex > s.p.currentIndex PROVE FALSE
    OBVIOUS
  <2>1. ~(t.p.currentIndex = s.p.currentIndex)
    BY <1>1
  <2>2. t.p.plan.index = t.p.currentIndex
    BY <2>1 DEF MovesFar, Due
  <2>3. u.p.currentIndex = t.p.currentIndex
    BY <2>2 DEF Attempt
  <2>. QED BY <2>1, <2>3
<1>3. t.p.attempts = s.p.attempts
  BY <1>2 DEF MovesFar
<1>4. Recovered(s.p.plan, u.p.plan) \in {0, 1}
  BY DEF Recovered
<1>. QED BY <1>1, <1>3, <1>4 DEF MaxAttempts

LEMMA ProcessKeeps ==
  ASSUME NEW w, Sound(w), w.refused = FALSE, reports \in Troubles, NEW context,
         NEW u \in ProcessEvents(w, context)
  PROVE  Processed(u, w)
<1>. DEFINE q == w.b.events
            c == ClearNativeEvents(w)
            s == [c EXCEPT !.taken = q]
            n == Len(q)
<1>1. w \in Worlds /\ q \in Seq(NativeEvents) /\ n \in Nat
  BY WorldFields, BackendFields DEF Sound
<1>2. /\ WorldIs(c, w.saved, w.refused, w.taken) /\ c.p = w.p
      /\ BackendIs(c.b, w.b.heard, w.b.paused, w.b.ended, w.b.next, <<>>)
  BY <1>1, ClearedEvents
<1>3. PICK t \in HandledUpTo(s, n, context) :
        u \in (IF t.refused THEN {t}
               ELSE IF t.p.plan = NoPlan THEN {t}
               ELSE {t} \cup (IF context THEN Recover(t)
                              ELSE {ToError([t EXCEPT !.p.plan = NoPlan,
                                                      !.p.attempts = MaxAttempts])}))
  BY DEF ProcessEvents, Then
<1>. HIDE DEF c
<1>4. /\ s \in Worlds /\ s.saved = w.saved /\ s.refused = FALSE /\ s.taken = q /\ s.p = w.p
      /\ BackendIs(s.b, w.b.heard, w.b.paused, w.b.ended, w.b.next, <<>>)
  BY <1>1, <1>2 DEF Worlds, WorldIs, BackendIs
<1>. HIDE DEF s
<1>5. SoundAfter(s, 0)
  <2>1. EventInv(w.p, w.b, q, 0) /\ CoreInv(w.p, w.saved)
    BY DEF Sound
  <2>2. EventInv(s.p, s.b, q, 0)
    BY <1>4, <2>1 DEF BackendIs, EventInv, StatusInv, NextInv, ReadyInv, RecoveryInv, OrderInv,
                      HeardInv, SilentInv
  <2>. QED BY <1>4, <2>1, <2>2 DEF SoundAfter
<1>6. InBatch(t, s, n)
  <2>1. s.b.events = <<>> /\ n = Len(s.taken)
    BY <1>4 DEF BackendIs
  <2>2. t \in HandledUpTo(s, Len(s.taken), context)
    BY <1>3, <2>1
  <2>. QED BY <1>4, <1>5, <2>1, <2>2, BatchKeeps
<1>. HIDE DEF q, n
<1>7. /\ t \in Worlds /\ t.b.events = <<>>
      /\ t.p.queue = w.p.queue /\ t.p.active = w.p.active /\ t.saved = w.saved
      /\ MovesFar(t, s)
  BY <1>4, <1>6 DEF InBatch
<1>8. Sound(t)
  <2>1. n = Len(t.taken)
    BY <1>4, <1>6 DEF InBatch, n
  <2>. QED BY <1>6, <2>1, BatchEnds DEF InBatch
<1>9. CASE u = t
  <2>1. ASSUME OnDesktop, t.p.currentIndex = w.p.currentIndex
        PROVE  w.p.attempts + Recovered(w.p.plan, t.p.plan) <= t.p.attempts
    <3>1. w.p.currentIndex \in Int /\ w.p.attempts \in 0 .. MaxAttempts
          /\ w.p.plan \in Plans
      BY <1>1, WorldFields, PlayerFields
    <3>2. /\ t.p.attempts = w.p.attempts
          /\ w.p.plan # NoPlan => t.p.plan = w.p.plan
      BY <1>4, <1>7, <2>1, <3>1 DEF MovesFar
    <3>3. Recovered(w.p.plan, t.p.plan) = 0
      <4>1. w.p.plan.attempt \in Int
        BY <3>1 DEF Plans, MaxAttempts
      <4>. QED BY <3>2, <4>1 DEF Recovered
    <3>. QED BY <3>1, <3>2, <3>3
  <2>. QED BY <1>7, <1>8, <1>9, <2>1 DEF Processed
<1>10. CASE ~t.refused /\ t.p.plan # NoPlan /\ u # t
  <2>1. Due(t)
    <3>1. t.refused = FALSE
      BY <1>7, <1>10, WorldFields
    <3>. QED BY <1>7, <1>8, <1>10, <3>1 DEF Due
  <2>2. Attempt(u, t)
    BY <1>3, <1>10, <2>1, RecoverAttempts, GivenUp
  <2>3. OnDesktop /\ u.p.currentIndex = w.p.currentIndex
          => w.p.attempts + Recovered(w.p.plan, u.p.plan) <= u.p.attempts
    BY <1>4, <1>7, <2>1, <2>2, AttemptCounts
  <2>. QED BY <1>7, <2>2, <2>3 DEF Attempt, Processed
<1>. QED BY <1>3, <1>9, <1>10

-----------------------------------------------------------------------------
\* Commands.

\* What a command begins with, and what it leaves.
Calm(w) == "events" \in windows \/ w.b.events = <<>>
Begins(w) ==
    /\ Sound(w) /\ w.refused = FALSE /\ SavedInv(w.p, w.saved)
    /\ Calm(w) /\ reports \in Troubles
Done(t) == Sound(t) /\ SavedInv(t.p, t.saved)

LEMMA BeginFields ==
  ASSUME NEW w, Sound(w)
  PROVE  /\ w \in Worlds /\ w.p \in Player /\ w.b \in Backend /\ w.saved \in Saved
         /\ w.p.queue \in Seq(Entries) /\ w.p.currentIndex \in Int
         /\ IndexIn(w.p.queue, w.p.currentIndex) /\ IndexIn(w.saved.queue, w.saved.currentIndex)
         /\ w.p.attempts \in 0 .. MaxAttempts /\ w.p.plan \in Plans
         /\ w.p.playingState \in PlayingStates /\ w.p.position \in {AtStart, Later}
         /\ w.b.events \in Seq(NativeEvents)
         /\ CoreInv(w.p, w.saved) /\ EventInv(w.p, w.b, w.b.events, 0)
         /\ PlanInv(w.p) /\ (w.p.plan = NoPlan <=> w.p.plan.attempt = 0)
         /\ NextIsPrepared(w)
<1>1. w \in Worlds /\ CoreInv(w.p, w.saved) /\ EventInv(w.p, w.b, w.b.events, 0)
  BY DEF Sound
<1>2. NextIsPrepared(w)
  BY <1>1, NextOfSong DEF EventInv
<1>. QED BY <1>1, <1>2, WorldFields, PlayerFields, BackendFields DEF CoreInv, IndexInv

\* Nothing waits unless events and commands may overtake each other.
LEMMA CalmWaits ==
  ASSUME NEW w, Calm(w), Undisturbed
  PROVE  /\ w.b.events = <<>> /\ Waiting(w.b.events, 0) = {}
         /\ \A kinds : ~Waits(w.b.events, 0, kinds)
         /\ \A kind : ~WaitsFresh(w.b.events, 0, kind)
<1>1. w.b.events = <<>>
  BY DEF Calm, Undisturbed
<1>. QED BY <1>1, NoneWaits

\* The same player and backend, as far as the invariant reads them.
LEMMA LikeSound ==
  ASSUME NEW w, Sound(w), NEW t \in Worlds, t.saved = w.saved, t.b = w.b, PlayerLike(t.p, w.p)
  PROVE  Sound(t)
<1>1. /\ t.p.queue = w.p.queue /\ t.p.currentIndex = w.p.currentIndex /\ t.p.active = w.p.active
      /\ t.p.prepared = w.p.prepared /\ t.p.plan = w.p.plan /\ t.p.attempts = w.p.attempts
      /\ t.p.playingState = w.p.playingState /\ Showing(t.p) = Showing(w.p)
  BY DEF PlayerLike, PlayerIs, Showing
<1>2. CoreInv(t.p, t.saved)
  BY <1>1, LikeCore DEF Sound
<1>3. EventInv(t.p, t.b, t.b.events, 0)
  BY <1>1, LikeEvents DEF Sound, EventInv, StatusInv
<1>. QED BY <1>2, <1>3 DEF Sound

LEMMA RefusedSound ==
  ASSUME NEW w, Sound(w)
  PROVE  /\ Sound(Refused(w)) /\ Refused(w).p = w.p /\ Refused(w).saved = w.saved
         /\ Refused(w).b = w.b /\ Refused(w).refused = TRUE
<1>1. w \in Worlds
  BY DEF Sound
<1>2. WorldIs(Refused(w), w.saved, TRUE, w.taken) /\ Refused(w).p = w.p /\ Refused(w).b = w.b
  BY <1>1, RefusedWorld
<1>3. PlayerLike(Refused(w).p, w.p)
  BY <1>1, <1>2, WorldFields DEF PlayerLike
<1>. QED BY <1>2, <1>3, LikeSound DEF WorldIs

LEMMA SyncedSound ==
  ASSUME NEW w, Sound(w), w.refused = FALSE, NEW t \in {SyncPosition(w), SyncIfPossible(w)}
  PROVE  /\ Sound(t) /\ PlayerLike(t.p, w.p) /\ t.saved = w.saved /\ t.b = w.b
         /\ t.refused \in BOOLEAN
         /\ ~t.refused /\ t = SyncPosition(w) /\ PlayingOrPaused(w) => w.b.heard # NoEntry
<1>1. w \in Worlds
  BY DEF Sound
<1>2. /\ WorldIs(SyncPosition(w), w.saved, SyncPosition(w).refused, w.taken)
      /\ SyncPosition(w).b = w.b /\ PlayerLike(SyncPosition(w).p, w.p)
      /\ SyncPosition(w).refused
           <=> (w.refused \/ (PlayingOrPaused(w) /\ w.b.heard = NoEntry))
      /\ WorldIs(SyncIfPossible(w), w.saved, FALSE, w.taken)
      /\ SyncIfPossible(w).b = w.b /\ PlayerLike(SyncIfPossible(w).p, w.p)
  BY <1>1, SyncedWorld
<1>3. Sound(SyncPosition(w)) /\ Sound(SyncIfPossible(w))
  BY <1>2, LikeSound DEF WorldIs
<1>4. t = SyncPosition(w) \/ t = SyncIfPossible(w)
  OBVIOUS
<1>5. CASE t = SyncPosition(w)
  <2>1. t.refused \in BOOLEAN
    BY <1>2, <1>5, WorldFields DEF WorldIs
  <2>. QED BY <1>2, <1>3, <1>5, <2>1 DEF WorldIs
<1>6. CASE t = SyncIfPossible(w)
  BY <1>2, <1>3, <1>6 DEF WorldIs
<1>. QED BY <1>4, <1>5, <1>6

\* What was sound is sound again, and saved, when it is persisted.
LEMMA PersistedDone ==
  ASSUME NEW w, Sound(w)
  PROVE  /\ Done(Persist(w)) /\ Persist(w).p = w.p /\ Persist(w).b = w.b
         /\ Persist(w).refused = w.refused
<1>. DEFINE t == Persist(w)
<1>1. w \in Worlds /\ CoreInv(w.p, w.saved) /\ EventInv(w.p, w.b, w.b.events, 0)
  BY DEF Sound
<1>2. /\ WorldIs(t, t.saved, w.refused, w.taken)
      /\ t.b = w.b /\ t.p = w.p
      /\ t.saved.queue = w.p.queue /\ t.saved.currentIndex = w.p.currentIndex
  BY <1>1, PersistedWorld
<1>. HIDE DEF t
<1>3. CoreInv(t.p, t.saved)
  BY <1>1, <1>2 DEF CoreInv, IndexInv
<1>4. Done(t)
  BY <1>1, <1>2, <1>3 DEF Done, Sound, SavedInv, WorldIs
<1>5. t.refused = w.refused
  BY <1>2 DEF WorldIs
<1>. QED BY <1>2, <1>4, <1>5 DEF t

\* clear_gapless, where no transition waits.
LEMMA ReleasedSound ==
  ASSUME NEW w, Sound(w), Calm(w)
  PROVE  LET c == ClearGapless(w)
         IN  /\ Sound(c) /\ Calm(c) /\ c.saved = w.saved /\ c.refused = w.refused
             /\ PreparationOnly(c, w) /\ c.p.prepared = NoPrepared
<1>. DEFINE c == ClearGapless(w)
<1>1. /\ w \in Worlds /\ w.b.events \in Seq(NativeEvents)
      /\ CoreInv(w.p, w.saved) /\ EventInv(w.p, w.b, w.b.events, 0)
  BY BeginFields
<1>2. PreparationOnly(c, w) /\ Released(c, w)
  BY <1>1, ReleasedWorld
<1>. HIDE DEF c
<1>3. Undisturbed => ~Waits(w.b.events, 0, {"transition"})
  BY CalmWaits
<1>4. CoreInv(c.p, c.saved) /\ EventsKept(c, w, w.b.events, 0)
  BY <1>1, <1>2, <1>3, ReleasedKeeps
<1>5. Sound(c)
  BY <1>1, <1>2, <1>4, KeptSound
<1>6. Calm(c)
  <2>1. AllStale(<<>>) = <<>>
    BY DEF AllStale
  <2>. QED BY <1>2, <2>1 DEF Calm, Released, KeepsEvents, DropsEvents
<1>7. c.saved = w.saved /\ c.refused = w.refused /\ c.p.prepared = NoPrepared
  BY <1>2 DEF PreparationOnly, Released
<1>. QED BY <1>2, <1>5, <1>6, <1>7 DEF c

LEMMA SyncGaplessSound ==
  ASSUME NEW w, Sound(w), Calm(w), NEW t \in SyncGapless(w)
  PROVE  Sound(t) /\ PreparationOnly(t, w)
<1>1. /\ w \in Worlds /\ w.b.events \in Seq(NativeEvents)
      /\ CoreInv(w.p, w.saved) /\ EventInv(w.p, w.b, w.b.events, 0)
  BY BeginFields
<1>2. Undisturbed => ~Waits(w.b.events, 0, {"transition"})
  BY CalmWaits
<1>3. PreparationOnly(t, w) /\ CoreInv(t.p, t.saved) /\ EventsKept(t, w, w.b.events, 0)
  BY <1>1, <1>2, SyncGaplessKeeps
<1>. QED BY <1>1, <1>3, KeptSound

LEMMA ProcessDone ==
  ASSUME NEW w, Done(w), w.refused = FALSE, reports \in Troubles, NEW context,
         NEW u \in ProcessEvents(w, context)
  PROVE  Done(u) /\ u.b.events = <<>>
<1>1. Processed(u, w)
  BY ProcessKeeps DEF Done
<1>. QED BY <1>1 DEF Processed, Done, SavedInv

\* Nothing waits, and no recovery is scheduled.
LEMMA NothingToProcess ==
  ASSUME NEW w \in Worlds, w.refused = FALSE, w.b.events = <<>>, w.p.plan = NoPlan, NEW context,
         NEW u \in ProcessEvents(w, context)
  PROVE  u.p = w.p /\ u.b.events = <<>> /\ u.refused = FALSE
<1>. DEFINE c == ClearNativeEvents(w)
            s == [c EXCEPT !.taken = w.b.events]
<1>1. Len(w.b.events) = 0
  OBVIOUS
<1>2. /\ WorldIs(c, w.saved, w.refused, w.taken) /\ c.p = w.p
      /\ BackendIs(c.b, w.b.heard, w.b.paused, w.b.ended, w.b.next, <<>>)
  BY ClearedEvents
<1>3. u \in Then(HandledUpTo(s, 0, context),
                 LAMBDA t : IF t.p.plan = NoPlan THEN {t}
                            ELSE {t} \cup (IF context THEN Recover(t)
                                           ELSE {ToError([t EXCEPT !.p.plan = NoPlan,
                                                         !.p.attempts = MaxAttempts])}))
  BY <1>1 DEF ProcessEvents
<1>. HIDE DEF c
<1>4. s.p = w.p /\ s.b.events = <<>> /\ s.refused = FALSE
  BY <1>2 DEF Worlds, WorldIs, BackendIs
<1>. HIDE DEF s
<1>5. HandledUpTo(s, 0, context) = {s}
  <2>1. PICK f : Reaches(f, s, 0, context) /\ HandledUpTo(s, 0, context) = f[0]
    BY HandledFold
  <2>2. f[0] = Reached(f, s, 0, context)
    BY <2>1 DEF Reaches
  <2>. QED BY <2>1, <2>2 DEF Reached
<1>6. u = s
  BY <1>3, <1>4, <1>5 DEF Then
<1>. QED BY <1>4, <1>6

-----------------------------------------------------------------------------
\* Other players over the same backend.

\* reset_output_stream_recovery
LEMMA ResetKeeps ==
  ASSUME NEW w, Sound(w), NEW t \in Worlds, t.b = w.b, t.saved = w.saved,
         NEW resume,
         PlayerIs(t.p, w.p.queue, w.p.currentIndex, w.p.playingState, resume, w.p.active,
                  w.p.prepared, 0, NoPlan),
         Showing(t.p) = Showing(w.p)
  PROVE  Sound(t)
<1>1. /\ t.p.queue = w.p.queue /\ t.p.currentIndex = w.p.currentIndex /\ t.p.active = w.p.active
      /\ t.p.prepared = w.p.prepared /\ t.p.plan = NoPlan
      /\ t.p.playingState = w.p.playingState
  BY DEF PlayerIs
<1>2. /\ IndexInv(w.p, w.saved) /\ DesktopInv(w.p)
      /\ NextInv(w.p, w.b, w.b.events, 0) /\ ReadyInv(w.p, w.b, w.b.events, 0)
      /\ RecoveryInv(w.p, w.b, w.b.events, 0) /\ OrderInv(w.p, w.b, w.b.events, 0)
      /\ HeardInv(w.p, w.b, w.b.events, 0) /\ SilentInv(w.p, w.b, w.b.events, 0)
  BY DEF Sound, CoreInv, EventInv, StatusInv
<1>3. CoreInv(t.p, t.saved)
  <2>1. IndexInv(t.p, t.saved)
    BY <1>1, <1>2, Values DEF IndexInv
  <2>2. PlanInv(t.p)
    BY <1>1 DEF PlanInv
  <2>3. DesktopInv(t.p)
    BY <1>1, <1>2 DEF DesktopInv, NextTarget
  <2>. QED BY <2>1, <2>2, <2>3 DEF CoreInv
<1>4. NextInv(t.p, t.b, t.b.events, 0)
  BY <1>1, <1>2 DEF NextInv, PreparedActive
<1>5. ReadyInv(t.p, t.b, t.b.events, 0)
  BY <1>1, <1>2 DEF ReadyInv, PreparedActive
<1>6. RecoveryInv(t.p, t.b, t.b.events, 0)
  BY <1>1, <1>2 DEF RecoveryInv
<1>7. OrderInv(t.p, t.b, t.b.events, 0)
  BY <1>1, <1>2 DEF OrderInv, PreparedActive
<1>8. HeardInv(t.p, t.b, t.b.events, 0)
  BY <1>1, <1>2 DEF HeardInv, PreparedActive, NextTarget
<1>9. SilentInv(t.p, t.b, t.b.events, 0)
  BY <1>1, <1>2 DEF SilentInv, PreparedActive
<1>. QED BY <1>3, <1>4, <1>5, <1>6, <1>7, <1>8, <1>9 DEF Sound, EventInv, StatusInv

\* The queue changes, or where in it the player is, and the current entry's song
\* does not.
LEMMA QueueEdited ==
  ASSUME NEW w, Sound(w), w.p.prepared = NoPrepared, w.p.active = TRUE,
         NEW queue, NEW index, NEW resume,
         IndexIn(queue, index),
         w.p.currentIndex \in Indices(w.p.queue)
           => index \in Indices(queue) /\ SongAt(queue, index) = SongAt(w.p.queue, w.p.currentIndex),
         "recovery" \in windows \/ w.p.plan = NoPlan \/ index = w.p.currentIndex,
         NEW t \in Worlds, t.b = w.b, t.saved = w.saved,
         PlayerIs(t.p, queue, index, w.p.playingState, resume, w.p.active,
                  NoPrepared, w.p.attempts, w.p.plan),
         Showing(t.p) = Showing(w.p)
  PROVE  Sound(t)
<1>1. /\ t.p.queue = queue /\ t.p.currentIndex = index /\ t.p.active = w.p.active
      /\ t.p.prepared = NoPrepared /\ t.p.plan = w.p.plan /\ t.p.attempts = w.p.attempts
      /\ t.p.playingState = w.p.playingState
  BY DEF PlayerIs
<1>2. /\ IndexInv(w.p, w.saved) /\ PlanInv(w.p) /\ DesktopInv(w.p)
      /\ NextInv(w.p, w.b, w.b.events, 0) /\ ReadyInv(w.p, w.b, w.b.events, 0)
      /\ RecoveryInv(w.p, w.b, w.b.events, 0) /\ OrderInv(w.p, w.b, w.b.events, 0)
      /\ HeardInv(w.p, w.b, w.b.events, 0) /\ SilentInv(w.p, w.b, w.b.events, 0)
  BY DEF Sound, CoreInv, EventInv, StatusInv
<1>3. ~PreparedActive(t.p) /\ ~PreparedActive(w.p) /\ t.p.prepared.state = Nothing
  BY <1>1, NotPrepared
<1>4. CoreInv(t.p, t.saved)
  <2>1. IndexInv(t.p, t.saved)
    BY <1>1, <1>2, <1>3 DEF IndexInv
  <2>2. PlanInv(t.p)
    BY <1>1, <1>2 DEF PlanInv
  <2>3. DesktopInv(t.p)
    BY <1>1, <1>2 DEF DesktopInv
  <2>. QED BY <2>1, <2>2, <2>3 DEF CoreInv
<1>5. NextInv(t.p, t.b, t.b.events, 0)
  BY <1>1, <1>2, <1>3 DEF NextInv
<1>6. ReadyInv(t.p, t.b, t.b.events, 0)
  BY <1>3 DEF ReadyInv
<1>7. RecoveryInv(t.p, t.b, t.b.events, 0)
  BY <1>1, <1>2 DEF RecoveryInv
<1>8. OrderInv(t.p, t.b, t.b.events, 0)
  BY <1>1, <1>2, <1>3 DEF OrderInv
<1>9. HeardInv(t.p, t.b, t.b.events, 0)
  BY <1>1, <1>2, <1>3 DEF HeardInv
<1>10. SilentInv(t.p, t.b, t.b.events, 0)
  BY <1>1, <1>2, <1>3 DEF SilentInv
<1>. QED BY <1>4, <1>5, <1>6, <1>7, <1>8, <1>9, <1>10 DEF Sound, EventInv, StatusInv

\* The player stops showing what was silent already.
LEMMA StoppedKeeps ==
  ASSUME NEW w, Sound(w), Calm(w), OnDesktop => w.p.prepared = NoPrepared,
         NEW queue, NEW index, NEW state \in {"stopped", "idle"}, NEW resume, NEW active,
         NEW attempts, NEW plan,
         IndexIn(queue, index),
         \/ plan = NoPlan
         \/ /\ plan = w.p.plan /\ attempts = w.p.attempts
            /\ "recovery" \in windows \/ index = w.p.currentIndex,
         Undisturbed /\ active => w.b.heard = NoEntry \/ w.b.ended,
         NEW t \in Worlds, t.b = w.b, t.saved = w.saved,
         PlayerIs(t.p, queue, index, state, resume, active, w.p.prepared, attempts, plan)
  PROVE  Sound(t)
<1>1. /\ t.p.queue = queue /\ t.p.currentIndex = index /\ t.p.active = active
      /\ t.p.prepared = w.p.prepared /\ t.p.plan = plan /\ t.p.attempts = attempts
      /\ t.p.playingState = state
  BY DEF PlayerIs
<1>2. /\ IndexInv(w.p, w.saved) /\ PlanInv(w.p)
      /\ NextInv(w.p, w.b, w.b.events, 0) /\ ReadyInv(w.p, w.b, w.b.events, 0)
      /\ RecoveryInv(w.p, w.b, w.b.events, 0) /\ OrderInv(w.p, w.b, w.b.events, 0)
  BY DEF Sound, CoreInv, EventInv, StatusInv
<1>3. t.p.playingState \notin ShowingStates /\ t.p.playingState # "interrupted"
      /\ Showing(t.p) \notin ShowingStates
  BY <1>1 DEF ShowingStates, Showing
<1>4. CoreInv(t.p, t.saved)
  <2>1. IndexInv(t.p, t.saved)
    BY <1>1, <1>2, Values DEF IndexInv
  <2>2. PlanInv(t.p)
    BY <1>1, <1>2 DEF PlanInv
  <2>3. DesktopInv(t.p)
    BY <1>1, <1>3 DEF DesktopInv
  <2>. QED BY <2>1, <2>2, <2>3 DEF CoreInv
<1>5. NextInv(t.p, t.b, t.b.events, 0)
  BY <1>1, <1>2 DEF NextInv, PreparedActive
<1>6. ReadyInv(t.p, t.b, t.b.events, 0)
  BY <1>1, <1>2 DEF ReadyInv, PreparedActive
<1>7. RecoveryInv(t.p, t.b, t.b.events, 0)
  BY <1>1, <1>2 DEF RecoveryInv
<1>8. OrderInv(t.p, t.b, t.b.events, 0)
  BY <1>1, <1>2 DEF OrderInv, PreparedActive
<1>9. HeardInv(t.p, t.b, t.b.events, 0)
  BY <1>3 DEF HeardInv
<1>10. SilentInv(t.p, t.b, t.b.events, 0)
  <2>. SUFFICES ASSUME Undisturbed PROVE SilentInv(t.p, t.b, t.b.events, 0)
    BY DEF SilentInv
  <2>1. \A kinds : ~Waits(w.b.events, 0, kinds)
    BY CalmWaits
  <2>. QED BY <1>1, <1>3, <2>1 DEF SilentInv
<1>. QED BY <1>4, <1>5, <1>6, <1>7, <1>8, <1>9, <1>10 DEF Sound, EventInv, StatusInv

\* ensure_current_index: the player was not on any entry, and is on the first.
LEMMA EnsuredSound ==
  ASSUME NEW w, Sound(w), w.refused = FALSE
  PROVE  LET t == Ensured(w)
         IN  /\ Sound(t) /\ t.b = w.b /\ t.saved = w.saved
             /\ PlayerIs(t.p, w.p.queue, t.p.currentIndex, w.p.playingState, w.p.resume,
                         w.p.active, w.p.prepared, w.p.attempts, w.p.plan)
             /\ t.refused \in BOOLEAN
             /\ ~t.refused => w.p.queue # <<>> /\ t.p.currentIndex \in Indices(t.p.queue)
<1>. DEFINE t == Ensured(w)
<1>1. /\ w \in Worlds /\ w.p.queue \in Seq(Entries) /\ w.p.currentIndex \in Int
      /\ IndexIn(w.p.queue, w.p.currentIndex)
      /\ CoreInv(w.p, w.saved) /\ EventInv(w.p, w.b, w.b.events, 0)
  BY BeginFields
<1>2. /\ WorldIs(t, w.saved, t.refused, w.taken) /\ t.b = w.b
      /\ PlayerIs(t.p, w.p.queue, t.p.currentIndex, w.p.playingState,
                     w.p.resume, w.p.active, w.p.prepared, w.p.attempts, w.p.plan)
      /\ t.p.currentIndex
           = IF w.p.queue # <<>> /\ w.p.currentIndex = NoIndex THEN 0 ELSE w.p.currentIndex
      /\ t.refused <=> (w.refused \/ w.p.queue = <<>>)
  BY <1>1, EnsuredWorld
<1>. HIDE DEF t
<1>3. t.p.queue = w.p.queue /\ t \in Worlds /\ t.saved = w.saved /\ t.refused \in BOOLEAN
  BY <1>2, WorldFields DEF PlayerIs, WorldIs
<1>4. ~t.refused => w.p.queue # <<>> /\ t.p.currentIndex \in Indices(t.p.queue)
  BY <1>1, <1>2, <1>3, IndexInRange DEF Indices, IndexIn, NoIndex
<1>5. ASSUME t.p.currentIndex = w.p.currentIndex PROVE Sound(t)
  BY <1>2, <1>3, <1>5, LikeSound DEF PlayerLike
<1>6. ASSUME t.p.currentIndex # w.p.currentIndex PROVE Sound(t)
  <2>1. w.p.currentIndex = NoIndex /\ t.p.currentIndex = 0 /\ w.p.queue # <<>>
    BY <1>2, <1>6
  <2>2. /\ w.p.currentIndex \notin Indices(w.p.queue) /\ w.p.currentIndex + 1 \in Indices(w.p.queue)
        /\ t.p.currentIndex \in Indices(t.p.queue)
    BY <1>1, <1>3, <2>1, IndexInRange DEF Indices, NoIndex
  <2>3. /\ t.p.active = w.p.active
        /\ t.p.prepared = w.p.prepared /\ t.p.plan = w.p.plan /\ t.p.attempts = w.p.attempts
        /\ t.p.playingState = w.p.playingState /\ Showing(t.p) = Showing(w.p)
    BY <1>2 DEF PlayerIs, Showing
  <2>4. CoreInv(t.p, t.saved)
    <3>1. IndexInv(t.p, t.saved)
      BY <1>1, <1>3, <2>2, <2>3 DEF CoreInv, IndexInv, IndexIn
    <3>2. PlanInv(t.p)
      BY <1>1, <2>1, <2>3 DEF CoreInv, PlanInv
    <3>3. DesktopInv(t.p)
      BY <1>1, <2>1, <2>2, <2>3 DEF CoreInv, DesktopInv, NextTarget
    <3>. QED BY <3>1, <3>2, <3>3 DEF CoreInv
  <2>5. NextInv(t.p, t.b, t.b.events, 0)
    BY <1>1, <1>2, <2>3 DEF EventInv, NextInv, PreparedActive
  <2>6. ReadyInv(t.p, t.b, t.b.events, 0)
    BY <1>1, <1>2, <2>3 DEF EventInv, ReadyInv, PreparedActive
  <2>7. RecoveryInv(t.p, t.b, t.b.events, 0)
    BY <1>1, <1>2, <2>3 DEF EventInv, StatusInv, RecoveryInv
  <2>8. OrderInv(t.p, t.b, t.b.events, 0)
    BY <1>1, <1>2, <2>3 DEF EventInv, StatusInv, OrderInv, PreparedActive
  <2>9. HeardInv(t.p, t.b, t.b.events, 0)
    BY <1>1, <2>2, <2>3 DEF EventInv, StatusInv, HeardInv
  <2>10. SilentInv(t.p, t.b, t.b.events, 0)
    BY <1>1, <1>2, <2>3 DEF EventInv, StatusInv, SilentInv, PreparedActive
  <2>. QED BY <1>3, <2>4, <2>5, <2>6, <2>7, <2>8, <2>9, <2>10 DEF Sound, EventInv, StatusInv
<1>7. Sound(t)
  BY <1>5, <1>6
<1>. QED BY <1>2, <1>3, <1>4, <1>7 DEF t

-----------------------------------------------------------------------------
\* play, and what it loads.

\* A load that failed leaves silence, and a scheduled recovery as it was.
LEMMA NotLoadedSound ==
  ASSUME NEW w \in Worlds, NEW index \in Indices(w.p.queue), NEW t, NotLoaded(t, w, index),
         IndexIn(w.saved.queue, w.saved.currentIndex), PlanInv(w.p),
         w.p.plan = NoPlan <=> w.p.plan.attempt = 0,
         "recovery" \in windows \/ w.p.plan = NoPlan \/ index = w.p.currentIndex
  PROVE  Sound(t)
<1>1. /\ t \in Worlds /\ t.saved = w.saved /\ t.b.heard = NoEntry /\ t.b.next = NoNext
      /\ t.b.events = <<>>
      /\ t.p.queue = w.p.queue /\ t.p.currentIndex = index /\ t.p.playingState = "error"
      /\ t.p.prepared = NoPrepared /\ t.p.attempts = w.p.attempts /\ t.p.plan = w.p.plan
  BY DEF NotLoaded, PlayerIs
<1>2. t.p.playingState \notin ShowingStates /\ Showing(t.p) \notin ShowingStates
  BY <1>1 DEF ShowingStates, Showing
<1>3. PlanInv(t.p)
  BY <1>1 DEF PlanInv
<1>4. IndexIn(t.p.queue, t.p.currentIndex)
  BY <1>1 DEF IndexIn
<1>. QED BY <1>1, <1>2, <1>3, <1>4, QuietSound

\* What play may rely on where it loads the current entry.
Loadable(w) ==
    /\ w \in Worlds /\ w.refused = FALSE /\ reports \in Troubles
    /\ w.p.playingState # "paused" /\ w.p.queue # <<>>
    /\ IndexIn(w.p.queue, w.p.currentIndex) /\ IndexIn(w.saved.queue, w.saved.currentIndex)
    /\ NextIsPrepared(w) /\ PlanInv(w.p) /\ (w.p.plan = NoPlan <=> w.p.plan.attempt = 0)
    /\ SavedInv(w.p, w.saved)

LEMMA PlayWorlds ==
  ASSUME NEW w, NEW e, e = Ensured(w), e.refused = FALSE, NEW u \in Play(w)
  PROVE  \E t \in (IF e.p.playingState = "paused"
                   THEN {IF e.b.heard = NoEntry THEN Refused(e)
                         ELSE ResetRecovery([e EXCEPT !.b.paused = FALSE,
                                                      !.p.playingState = "playing"])}
                   ELSE LoadTrack(e, e.p.currentIndex, e.p.position, TRUE)) :
              u \in (IF t.refused THEN {t} ELSE ProcessEvents(t, TRUE))
<1>. DEFINE resumed(t) == ResetRecovery([t EXCEPT !.b.paused = FALSE,
                                                  !.p.playingState = "playing"])
            begun(t) == IF t.p.playingState = "paused"
                        THEN {IF t.b.heard = NoEntry THEN Refused(t) ELSE resumed(t)}
                        ELSE LoadTrack(t, t.p.currentIndex, t.p.position, TRUE)
            rest(t) == Then(begun(t), LAMBDA v : ProcessEvents(v, TRUE))
<1>1. Play(w) = Then({e}, LAMBDA t : rest(t))
  BY DEF Play
<1>. HIDE DEF rest
<1>2. u \in rest(e)
  BY <1>1 DEF Then
<1>3. u \in Then(begun(e), LAMBDA v : ProcessEvents(v, TRUE))
  BY <1>2 DEF rest
<1>. HIDE DEF begun
<1>4. \E t \in begun(e) : u \in (IF t.refused THEN {t} ELSE ProcessEvents(t, TRUE))
  BY <1>3 DEF Then
<1>. QED BY <1>4 DEF begun

LEMMA PlayLoads ==
  ASSUME NEW w, Loadable(w), NEW u \in Play(w)
  PROVE  /\ Done(u)
         /\ u.refused \in BOOLEAN
         /\ ~u.refused => u.b.events = <<>> /\ u.p.playingState = "playing"
<1>. DEFINE e == Ensured(w)
<1>1. /\ w \in Worlds /\ w.p.queue \in Seq(Entries) /\ w.p.currentIndex \in Int
      /\ w.refused = FALSE /\ w.p.queue # <<>> /\ IndexIn(w.p.queue, w.p.currentIndex)
  BY WorldFields, PlayerFields DEF Loadable
<1>2. /\ WorldIs(e, w.saved, e.refused, w.taken) /\ e.b = w.b
      /\ PlayerIs(e.p, w.p.queue, e.p.currentIndex, w.p.playingState,
                     w.p.resume, w.p.active, w.p.prepared, w.p.attempts, w.p.plan)
      /\ e.p.currentIndex
           = IF w.p.queue # <<>> /\ w.p.currentIndex = NoIndex THEN 0 ELSE w.p.currentIndex
      /\ e.refused <=> (w.refused \/ w.p.queue = <<>>)
  BY <1>1, EnsuredWorld
<1>3. PICK t \in LoadTrack(e, e.p.currentIndex, e.p.position, TRUE) :
         u \in (IF t.refused THEN {t} ELSE ProcessEvents(t, TRUE))
  <2>1. e.p.playingState # "paused"
    BY <1>2 DEF PlayerIs, Loadable
  <2>2. e.refused = FALSE
    <3>1. e.refused \in BOOLEAN
      BY <1>2, WorldFields DEF WorldIs
    <3>. QED BY <1>1, <1>2, <3>1
  <2>. HIDE DEF e
  <2>3. e = Ensured(w)
    BY DEF e
  <2>. QED BY <2>1, <2>2, <2>3, PlayWorlds
<1>. HIDE DEF e
<1>4. /\ e \in Worlds /\ e.refused = FALSE /\ e.saved = w.saved
      /\ e.p.queue = w.p.queue /\ e.p.prepared = w.p.prepared /\ e.p.plan = w.p.plan
      /\ e.p.attempts = w.p.attempts /\ e.p.position \in {AtStart, Later}
  BY <1>1, <1>2, WorldFields, PlayerFields DEF PlayerIs, WorldIs
<1>5. e.p.currentIndex \in Indices(e.p.queue)
  BY <1>1, <1>2, <1>4, IndexInRange DEF Indices, IndexIn, NoIndex
<1>6. NextIsPrepared(e)
  BY <1>2, <1>4 DEF Loadable, NextIsPrepared, PreparedActive
<1>7. NotLoaded(t, e, e.p.currentIndex) \/ Loading(t, e, e.p.currentIndex, TRUE)
  BY <1>3, <1>4, <1>5, <1>6, LoadTrackWorlds DEF Loadable
<1>8. PlanInv(e.p)
  <2>1. w.p.currentIndex = e.p.currentIndex \/ w.p.currentIndex = NoIndex
    BY <1>2
  <2>. QED BY <1>4, <2>1 DEF Loadable, PlanInv
<1>9. CASE NotLoaded(t, e, e.p.currentIndex)
  <2>1. t.refused /\ u = t
    BY <1>3, <1>9 DEF NotLoaded
  <2>2. Sound(t)
    BY <1>4, <1>5, <1>8, <1>9, NotLoadedSound DEF Loadable
  <2>3. SavedInv(t.p, t.saved)
    BY <1>4, <1>9 DEF NotLoaded, PlayerIs, Loadable, SavedInv
  <2>4. t.refused = TRUE
    BY <1>9 DEF NotLoaded
  <2>. QED BY <2>1, <2>2, <2>3, <2>4 DEF Done
<1>10. CASE Loading(t, e, e.p.currentIndex, TRUE)
  <2>1. /\ Sound(t) /\ t \in Worlds /\ t.refused = FALSE /\ t.b.events = <<>>
        /\ t.p.plan = NoPlan /\ t.p.playingState = "playing" /\ t.p.queue = w.p.queue
        /\ t.saved = w.saved
    BY <1>4, <1>10 DEF Loading, PlayerIs
  <2>2. u \in ProcessEvents(t, TRUE)
    BY <1>3, <2>1
  <2>3. Done(t)
    BY <2>1 DEF Done, SavedInv, Loadable
  <2>4. Done(u)
    BY <2>1, <2>2, <2>3, ProcessDone DEF Loadable
  <2>5. u.p = t.p /\ u.b.events = <<>> /\ u.refused = FALSE
    BY <2>1, <2>2, NothingToProcess
  <2>. QED BY <2>1, <2>4, <2>5
<1>. QED BY <1>7, <1>9, <1>10

\* A command begins where play may load, unless the player is paused.
LEMMA BeginsLoadable ==
  ASSUME NEW w, Begins(w), w.p.playingState # "paused", w.p.queue # <<>>
  PROVE  Loadable(w)
<1>1. /\ w \in Worlds
      /\ IndexIn(w.p.queue, w.p.currentIndex) /\ IndexIn(w.saved.queue, w.saved.currentIndex)
      /\ PlanInv(w.p) /\ (w.p.plan = NoPlan <=> w.p.plan.attempt = 0)
      /\ NextIsPrepared(w)
  BY BeginFields DEF Begins
<1>. QED BY <1>1 DEF Begins, Loadable

\* What is paused is heard again.
LEMMA ResumedKeeps ==
  ASSUME NEW w, Begins(w), w.p.playingState = "paused", w.b.heard # NoEntry,
         NEW t, t = ResetRecovery([w EXCEPT !.b.paused = FALSE, !.p.playingState = "playing"])
  PROVE  Done(t) /\ t.refused = FALSE
<1>. DEFINE p == [w.p EXCEPT !.playingState = "playing"]
            b == [w.b EXCEPT !.paused = FALSE]
            m == [w EXCEPT !.p = p]
            n == [m EXCEPT !.b = b]
<1>1. /\ w \in Worlds /\ w.p \in Player /\ w.b \in Backend /\ w.b.events \in Seq(NativeEvents)
      /\ CoreInv(w.p, w.saved) /\ EventInv(w.p, w.b, w.b.events, 0)
  BY BeginFields DEF Begins
<1>2. PlayerIs(p, w.p.queue, w.p.currentIndex, "playing", w.p.resume, w.p.active, w.p.prepared,
               w.p.attempts, w.p.plan)
  BY <1>1 DEF Player, PlayerIs, PlayingStates
<1>3. BackendIs(b, w.b.heard, FALSE, w.b.ended, w.b.next, w.b.events)
  BY <1>1 DEF Backend, BackendIs
<1>4. n = [w EXCEPT !.b.paused = FALSE, !.p.playingState = "playing"]
  BY <1>1 DEF Worlds
<1>. HIDE DEF p, b
<1>5. WorldIs(m, w.saved, w.refused, w.taken) /\ m.p = p /\ m.b = w.b
  BY <1>1, <1>2, WithPlayer DEF PlayerIs
<1>. HIDE DEF m
<1>6. WorldIs(n, w.saved, w.refused, w.taken) /\ n.p = p /\ n.b = b
  BY <1>3, <1>5, WithBackend DEF BackendIs, WorldIs
<1>7. t = ResetRecovery(n)
  BY <1>4
<1>. HIDE DEF n
<1>8. /\ WorldIs(t, w.saved, w.refused, w.taken) /\ t.b = b
      /\ PlayerIs(t.p, w.p.queue, w.p.currentIndex, "playing",
                     w.p.resume, w.p.active, w.p.prepared, 0, NoPlan)
  BY <1>2, <1>6, <1>7, ResetWorld DEF PlayerIs, WorldIs
<1>9. /\ t.p.queue = w.p.queue /\ t.p.currentIndex = w.p.currentIndex /\ t.p.active = w.p.active
      /\ t.p.prepared = w.p.prepared /\ t.p.plan = NoPlan /\ t.p.playingState = "playing"
      /\ t.b.heard = w.b.heard /\ t.b.paused = FALSE /\ t.b.ended = w.b.ended
      /\ t.b.next = w.b.next /\ t.b.events = w.b.events
      /\ t \in Worlds /\ t.saved = w.saved /\ t.refused = FALSE
  BY <1>3, <1>8 DEF PlayerIs, BackendIs, WorldIs, Begins
<1>10. /\ Showing(t.p) = "playing" /\ Showing(w.p) = "paused"
       /\ "playing" \in ShowingStates /\ "paused" \in ShowingStates
  BY <1>9 DEF Showing, ShowingStates
<1>11. /\ IndexInv(w.p, w.saved) /\ DesktopInv(w.p)
       /\ NextInv(w.p, w.b, w.b.events, 0) /\ ReadyInv(w.p, w.b, w.b.events, 0)
       /\ RecoveryInv(w.p, w.b, w.b.events, 0) /\ OrderInv(w.p, w.b, w.b.events, 0)
       /\ HeardInv(w.p, w.b, w.b.events, 0)
  BY <1>1 DEF CoreInv, EventInv, StatusInv
<1>12. CoreInv(t.p, t.saved)
  <2>1. IndexInv(t.p, t.saved)
    BY <1>9, <1>11, Values DEF IndexInv
  <2>2. PlanInv(t.p)
    BY <1>9 DEF PlanInv
  <2>3. DesktopInv(t.p)
    BY <1>9, <1>10, <1>11 DEF DesktopInv, NextTarget
  <2>. QED BY <2>1, <2>2, <2>3 DEF CoreInv
<1>13. NextInv(t.p, t.b, t.b.events, 0)
  BY <1>9, <1>11 DEF NextInv, PreparedActive
<1>14. ReadyInv(t.p, t.b, t.b.events, 0)
  BY <1>9, <1>11 DEF ReadyInv, PreparedActive
<1>15. RecoveryInv(t.p, t.b, t.b.events, 0)
  BY <1>9, <1>11 DEF RecoveryInv
<1>16. OrderInv(t.p, t.b, t.b.events, 0)
  <2>1. PreparedActive(t.p) <=> PreparedActive(w.p)
    BY <1>9 DEF PreparedActive
  <2>. DEFINE q == w.b.events
  <2>2. /\ OrderInv(w.p, w.b, q, 0) /\ t.b.events = q
        /\ t.b.next = w.b.next /\ t.b.ended = w.b.ended
    BY <1>9, <1>11
  <2>. HIDE DEF q
  <2>3. OrderInv(t.p, t.b, q, 0)
    BY <2>1, <2>2 DEF OrderInv
  <2>. QED BY <2>2, <2>3
<1>17. HeardInv(t.p, t.b, t.b.events, 0)
  <2>. SUFFICES ASSUME Undisturbed PROVE HeardInv(t.p, t.b, t.b.events, 0)
    BY DEF HeardInv
  <2>1. Waiting(w.b.events, 0) = {} /\ \A kinds : ~Waits(w.b.events, 0, kinds)
    BY CalmWaits DEF Begins
  <2>. QED BY <1>9, <1>10, <1>11, <2>1 DEF HeardInv, PreparedActive, NextTarget
<1>18. SilentInv(t.p, t.b, t.b.events, 0)
  BY <1>10 DEF SilentInv
<1>19. SavedInv(t.p, t.saved)
  BY <1>9 DEF SavedInv, Begins
<1>. QED BY <1>9, <1>12, <1>13, <1>14, <1>15, <1>16, <1>17, <1>18, <1>19
         DEF Done, Sound, EventInv, StatusInv

LEMMA PlayKeeps ==
  ASSUME NEW w, Begins(w), NEW u \in Play(w)
  PROVE  Done(u)
<1>. DEFINE e == Ensured(w)
<1>1. w \in Worlds /\ Sound(w) /\ w.refused = FALSE /\ SavedInv(w.p, w.saved)
  BY DEF Begins, Sound
<1>2. CASE w.p.queue = <<>>
  <2>1. e = Refused(w)
    BY <1>2 DEF Ensured
  <2>2. /\ Sound(Refused(w)) /\ Refused(w).p = w.p /\ Refused(w).saved = w.saved
        /\ Refused(w).refused = TRUE
    BY <1>1, RefusedSound
  <2>3. u = e
    BY <2>1, <2>2 DEF Play, Then
  <2>. QED BY <1>1, <2>1, <2>2, <2>3 DEF Done
<1>3. CASE w.p.queue # <<>> /\ w.p.playingState # "paused"
  BY <1>3, BeginsLoadable, PlayLoads
<1>4. CASE w.p.queue # <<>> /\ w.p.playingState = "paused"
  <2>1. /\ Sound(e) /\ e.b = w.b /\ e.saved = w.saved
        /\ PlayerIs(e.p, w.p.queue, e.p.currentIndex, w.p.playingState, w.p.resume,
                    w.p.active, w.p.prepared, w.p.attempts, w.p.plan)
    BY <1>1, EnsuredSound
  <2>2. e.refused <=> (w.refused \/ w.p.queue = <<>>)
    BY <1>1, EnsuredWorld
  <2>3. e.refused = FALSE
    <3>1. e.refused \in BOOLEAN
      BY <2>1, WorldFields DEF Sound
    <3>. QED BY <1>1, <1>4, <2>2, <3>1
  <2>. DEFINE resumed == ResetRecovery([e EXCEPT !.b.paused = FALSE,
                                                 !.p.playingState = "playing"])
  <2>4. e.p.playingState = "paused" /\ e.p.queue = w.p.queue
    BY <1>4, <2>1 DEF PlayerIs
  <2>5. PICK t : /\ t = IF e.b.heard = NoEntry THEN Refused(e) ELSE resumed
                 /\ u \in (IF t.refused THEN {t} ELSE ProcessEvents(t, TRUE))
    <3>. HIDE DEF e
    <3>1. e = Ensured(w)
      BY DEF e
    <3>. QED BY <2>3, <2>4, <3>1, PlayWorlds
  <2>. HIDE DEF e
  <2>6. Begins(e)
    BY <2>1, <2>3, <2>4 DEF Begins, SavedInv, Calm
  <2>7. Done(t)
    <3>1. CASE e.b.heard = NoEntry
      <4>1. t = Refused(e)
        BY <2>5, <3>1
      <4>. QED BY <2>6, <4>1, RefusedSound DEF Done, Begins
    <3>2. CASE e.b.heard # NoEntry
      BY <2>4, <2>5, <2>6, <3>2, ResumedKeeps
    <3>. QED BY <3>1, <3>2
  <2>8. t.refused \in BOOLEAN
    BY <2>7, WorldFields DEF Done, Sound
  <2>9. CASE t.refused
    BY <2>5, <2>7, <2>9
  <2>10. CASE ~t.refused
    BY <2>5, <2>7, <2>8, <2>10, ProcessDone DEF Begins
  <2>. QED BY <2>9, <2>10
<1>. QED BY <1>2, <1>3, <1>4

-----------------------------------------------------------------------------
\* Commands that silence the backend.

\* What a command goes on from, once the position is told or the index ensured.
LEMMA SyncedBegins ==
  ASSUME NEW w, Begins(w), NEW t, t = SyncPosition(w)
  PROVE  /\ Done(t) /\ PlayerLike(t.p, w.p) /\ t.saved = w.saved /\ t.b = w.b
         /\ t \in Worlds /\ t.refused \in BOOLEAN
         /\ ~t.refused => Begins(t)
         /\ ~t.refused /\ PlayingOrPaused(w) => w.b.heard # NoEntry
<1>1. Sound(w) /\ w.refused = FALSE
  BY DEF Begins
<1>2. /\ Sound(t) /\ PlayerLike(t.p, w.p) /\ t.saved = w.saved /\ t.b = w.b
      /\ t.refused \in BOOLEAN
      /\ ~t.refused /\ t = SyncPosition(w) /\ PlayingOrPaused(w) => w.b.heard # NoEntry
  <2>1. t \in {SyncPosition(w), SyncIfPossible(w)}
    OBVIOUS
  <2>. QED BY <1>1, <2>1, SyncedSound
<1>3. SavedInv(t.p, t.saved)
  BY <1>2 DEF PlayerLike, PlayerIs, Begins, SavedInv
<1>4. ~t.refused => Begins(t)
  BY <1>2, <1>3 DEF Begins, Calm
<1>. QED BY <1>2, <1>3, <1>4 DEF Done, Sound

LEMMA EnsuredBegins ==
  ASSUME NEW w, Begins(w), NEW t, t = Ensured(w)
  PROVE  /\ Done(t) /\ t.b = w.b /\ t.saved = w.saved /\ t \in Worlds /\ t.refused \in BOOLEAN
         /\ PlayerIs(t.p, w.p.queue, t.p.currentIndex, w.p.playingState, w.p.resume,
                     w.p.active, w.p.prepared, w.p.attempts, w.p.plan)
         /\ ~t.refused => Begins(t) /\ t.p.currentIndex \in Indices(t.p.queue)
<1>1. Sound(w) /\ w.refused = FALSE
  BY DEF Begins
<1>2. /\ Sound(t) /\ t.b = w.b /\ t.saved = w.saved
      /\ PlayerIs(t.p, w.p.queue, t.p.currentIndex, w.p.playingState, w.p.resume,
                  w.p.active, w.p.prepared, w.p.attempts, w.p.plan)
      /\ t.refused \in BOOLEAN
      /\ ~t.refused => w.p.queue # <<>> /\ t.p.currentIndex \in Indices(t.p.queue)
  BY <1>1, EnsuredSound
<1>3. SavedInv(t.p, t.saved)
  BY <1>2 DEF PlayerIs, Begins, SavedInv
<1>4. ~t.refused => Begins(t)
  BY <1>2, <1>3 DEF Begins, Calm
<1>. QED BY <1>2, <1>3, <1>4 DEF Done, Sound

\* Where the backend was silenced, the queue and the index may become anything.
LEMMA SilencedSound ==
  ASSUME NEW w, Sound(w), NEW queue, NEW index, NEW state, NEW resume, NEW active,
         NEW attempts, NEW plan, IndexIn(queue, index),
         \/ plan = NoPlan
         \/ /\ plan = w.p.plan /\ attempts = w.p.attempts
            /\ "recovery" \in windows \/ index = w.p.currentIndex,
         state # "interrupted",
         Undisturbed /\ active => state \notin ShowingStates,
         OnDesktop /\ plan # NoPlan /\ state \in ShowingStates
           => ~active /\ index + 1 \notin Indices(queue),
         NEW t \in Worlds, t.b = Silenced(w).b, t.saved = w.saved,
         PlayerIs(t.p, queue, index, state, resume, active, NoPrepared, attempts, plan)
  PROVE  Sound(t) /\ Done(Persist(t))
<1>1. /\ w \in Worlds /\ IndexIn(w.saved.queue, w.saved.currentIndex) /\ PlanInv(w.p)
      /\ w.p.plan = NoPlan <=> w.p.plan.attempt = 0
  BY BeginFields
<1>2. t.b.heard = NoEntry /\ t.b.next = NoNext /\ t.b.events = <<>>
  BY <1>1, SilencedWorld DEF BackendIs
<1>3. /\ t.p.queue = queue /\ t.p.currentIndex = index /\ t.p.active = active
      /\ t.p.prepared = NoPrepared /\ t.p.plan = plan /\ t.p.attempts = attempts
      /\ t.p.playingState = state
  BY DEF PlayerIs
<1>4. Showing(t.p) = state
  BY <1>3 DEF Showing
<1>5. PlanInv(t.p)
  BY <1>1, <1>3 DEF PlanInv
<1>6. t.p.plan = NoPlan <=> t.p.plan.attempt = 0
  BY <1>1, <1>3, Values
<1>7. Sound(t)
  BY <1>1, <1>2, <1>3, <1>4, <1>5, <1>6, QuietSound
<1>. QED BY <1>7, PersistedDone

LEMMA SetQueueKeeps ==
  ASSUME NEW w, Sound(w), NEW queue \in Seq(Entries), NEW index \in Int, IndexIn(queue, index),
         NEW state \in {"stopped", "idle"},
         NEW u, u = Persist(At(WithQueue(ResetRecovery(Silenced(w)), queue, index, 0),
                               index, AtStart, state))
  PROVE  Done(u)
<1>. DEFINE s == Silenced(w)
            r == ResetRecovery(s)
            q == WithQueue(r, queue, index, 0)
            a == At(q, index, AtStart, state)
<1>1. w \in Worlds
  BY DEF Sound
<1>2. /\ s \in Worlds /\ s.saved = w.saved /\ s.p.active = w.p.active
      /\ s.p.prepared = NoPrepared
  BY <1>1, SilencedWorld DEF PlayerIs
<1>3. s.b = Silenced(w).b
  OBVIOUS
<1>. HIDE DEF s
<1>4. /\ r \in Worlds /\ r.saved = w.saved /\ r.b = s.b /\ r.p.active = w.p.active
      /\ r.p.prepared = NoPrepared /\ r.p.plan = NoPlan /\ r.p.attempts = 0
  BY <1>2, ResetWorld DEF WorldIs, PlayerIs
<1>. HIDE DEF r
<1>5. /\ q \in Worlds /\ q.saved = w.saved /\ q.b = s.b /\ q.p.active = w.p.active
      /\ q.p.prepared = NoPrepared /\ q.p.plan = NoPlan /\ q.p.attempts = 0
      /\ q.p.queue = queue
  BY <1>4, QueueWorld DEF WorldIs, PlayerIs
<1>. HIDE DEF q
<1>6. state \in PlayingStates /\ state \notin ShowingStates /\ state # "interrupted"
  BY DEF PlayingStates, ShowingStates
<1>7. /\ WorldIs(a, q.saved, q.refused, q.taken) /\ a.b = q.b
      /\ PlayerIs(a.p, q.p.queue, index, state, Nothing, q.p.active, q.p.prepared,
                  q.p.attempts, q.p.plan)
  BY <1>5, <1>6, Values, AtWorld
<1>. HIDE DEF a
<1>8. /\ a \in Worlds /\ a.saved = w.saved /\ a.b = Silenced(w).b
      /\ PlayerIs(a.p, queue, index, state, Nothing, w.p.active, NoPrepared, 0, NoPlan)
  BY <1>3, <1>5, <1>7 DEF WorldIs, PlayerIs
<1>9. u = Persist(a)
  BY DEF a, q, r, s
<1>. QED BY <1>6, <1>8, <1>9, SilencedSound

LEMMA SetQueueCommandKeeps ==
  ASSUME NEW w, Begins(w), NEW queue \in Seq(Entries), NEW index \in Indices(queue) \cup {NoIndex},
         NEW u \in SetQueueCommand(w, queue, index)
  PROVE  Done(u)
<1>1. index \in Int /\ IndexIn(queue, index)
  BY Values DEF IndexIn, Indices
<1>2. StoppedOrIdle(queue) \in {"stopped", "idle"}
  BY DEF StoppedOrIdle
<1>3. u = Persist(At(WithQueue(ResetRecovery(Silenced(w)), queue, index, 0),
                     index, AtStart, StoppedOrIdle(queue)))
  BY DEF SetQueueCommand
<1>. QED BY <1>1, <1>2, <1>3, SetQueueKeeps DEF Begins

LEMMA ClearQueueKeeps ==
  ASSUME NEW w, Begins(w), NEW u \in ClearQueueCommand(w)
  PROVE  Done(u)
<1>. DEFINE t == SyncPosition(w)
<1>1. u \in (IF t.refused THEN {t}
             ELSE {Persist(At(WithQueue(ResetRecovery(Silenced(t)), <<>>, NoIndex, 0),
                              NoIndex, AtStart, "idle"))})
  BY DEF ClearQueueCommand, Then
<1>2. Done(t) /\ t.refused \in BOOLEAN /\ (~t.refused => Begins(t))
  BY SyncedBegins
<1>. HIDE DEF t
<1>3. CASE t.refused
  BY <1>1, <1>2, <1>3
<1>4. CASE ~t.refused
  <2>1. <<>> \in Seq(Entries) /\ NoIndex \in Int /\ IndexIn(<<>>, NoIndex)
    BY Values DEF IndexIn
  <2>. QED BY <1>1, <1>2, <1>4, <2>1, SetQueueKeeps DEF Begins
<1>. QED BY <1>3, <1>4

\* Stop, and set_position where something is loaded.
LEMMA SilencedAt ==
  ASSUME NEW w, Sound(w), NEW position \in {AtStart, Later},
         NEW u, u = Persist(ResetRecovery(At(Silenced(w), w.p.currentIndex, position,
                                             "stopped")))
  PROVE  Done(u)
<1>. DEFINE s == Silenced(w)
            a == At(s, w.p.currentIndex, position, "stopped")
            r == ResetRecovery(a)
<1>1. w \in Worlds /\ w.p.currentIndex \in Int /\ IndexIn(w.p.queue, w.p.currentIndex)
  BY BeginFields
<1>2. /\ s \in Worlds /\ s.saved = w.saved /\ s.p.active = w.p.active
      /\ s.p.prepared = NoPrepared /\ s.p.queue = w.p.queue
  BY <1>1, SilencedWorld DEF PlayerIs
<1>3. s.b = Silenced(w).b
  OBVIOUS
<1>. HIDE DEF s
<1>4. "stopped" \in PlayingStates /\ "stopped" \notin ShowingStates
  BY DEF PlayingStates, ShowingStates
<1>5. /\ WorldIs(a, s.saved, s.refused, s.taken) /\ a.b = s.b
      /\ PlayerIs(a.p, s.p.queue, w.p.currentIndex, "stopped", Nothing, s.p.active,
                  s.p.prepared, s.p.attempts, s.p.plan)
  BY <1>1, <1>2, <1>4, AtWorld
<1>. HIDE DEF a
<1>6. /\ WorldIs(r, a.saved, a.refused, a.taken) /\ r.b = a.b
      /\ PlayerIs(r.p, a.p.queue, a.p.currentIndex, a.p.playingState,
                  a.p.resume, a.p.active, a.p.prepared, 0, NoPlan)
  BY <1>5, ResetWorld DEF WorldIs
<1>. HIDE DEF r
<1>7. /\ r \in Worlds /\ r.saved = w.saved /\ r.b = Silenced(w).b
      /\ PlayerIs(r.p, w.p.queue, w.p.currentIndex, "stopped", Nothing, w.p.active,
                  NoPrepared, 0, NoPlan)
  BY <1>2, <1>3, <1>5, <1>6 DEF WorldIs, PlayerIs
<1>8. u = Persist(r)
  BY DEF r, a, s
<1>. QED BY <1>1, <1>4, <1>7, <1>8, SilencedSound

LEMMA StopKeeps ==
  ASSUME NEW w, Begins(w), NEW u \in Stop(w)
  PROVE  Done(u)
<1>. DEFINE t == SyncPosition(w)
<1>1. u \in (IF t.refused THEN {t}
             ELSE {Persist(ResetRecovery(At(Silenced(t), t.p.currentIndex, AtStart,
                                            "stopped")))})
  BY DEF Stop, Then
<1>2. Done(t) /\ t.refused \in BOOLEAN /\ (~t.refused => Begins(t))
  BY SyncedBegins
<1>. HIDE DEF t
<1>. QED BY <1>1, <1>2, SilencedAt, Values DEF Begins

LEMMA SetPositionKeeps ==
  ASSUME NEW w, Begins(w), NEW position \in {AtStart, Later}, NEW u \in SetPosition(w, position)
  PROVE  Done(u)
<1>. DEFINE t == Ensured(w)
<1>1. u \in (IF t.refused THEN {t}
             ELSE {Persist(ResetRecovery(
                     At(IF Loaded(t) THEN Silenced(t) ELSE t, t.p.currentIndex, position,
                        IF Loaded(t) THEN "stopped" ELSE t.p.playingState)))})
  BY DEF SetPosition, Then
<1>2. Done(t) /\ t.refused \in BOOLEAN /\ (~t.refused => Begins(t))
  BY EnsuredBegins
<1>. HIDE DEF t
<1>3. CASE t.refused
  BY <1>1, <1>2, <1>3
<1>4. CASE ~t.refused /\ Loaded(t)
  <2>1. u = Persist(ResetRecovery(At(Silenced(t), t.p.currentIndex, position, "stopped")))
    BY <1>1, <1>4
  <2>. QED BY <1>2, <1>4, <2>1, SilencedAt DEF Begins
<1>5. CASE ~t.refused /\ ~Loaded(t)
  <2>. DEFINE a == At(t, t.p.currentIndex, position, t.p.playingState)
              r == ResetRecovery(a)
  <2>1. u = Persist(r)
    BY <1>1, <1>5
  <2>2. /\ t \in Worlds /\ t.p.currentIndex \in Int /\ t.p.playingState \in PlayingStates
    BY <1>2, <1>5, BeginFields DEF Begins
  <2>3. /\ WorldIs(a, t.saved, t.refused, t.taken) /\ a.b = t.b
        /\ PlayerIs(a.p, t.p.queue, t.p.currentIndex, t.p.playingState, Nothing, t.p.active,
                    t.p.prepared, t.p.attempts, t.p.plan)
    BY <2>2, AtWorld
  <2>. HIDE DEF a
  <2>4. /\ WorldIs(r, a.saved, a.refused, a.taken) /\ r.b = a.b
        /\ PlayerIs(r.p, a.p.queue, a.p.currentIndex, a.p.playingState,
                    a.p.resume, a.p.active, a.p.prepared, 0, NoPlan)
    BY <2>3, ResetWorld DEF WorldIs
  <2>. HIDE DEF r
  <2>5. /\ r \in Worlds /\ r.b = t.b /\ r.saved = t.saved
        /\ PlayerIs(r.p, t.p.queue, t.p.currentIndex, t.p.playingState, Nothing, t.p.active,
                    t.p.prepared, 0, NoPlan)
    BY <2>3, <2>4 DEF WorldIs, PlayerIs
  <2>6. Showing(r.p) = Showing(t.p)
    BY <1>5, <2>5 DEF PlayerIs, Showing, Loaded, LoadedStates
  <2>7. Sound(r)
    BY <1>2, <1>5, <2>5, <2>6, ResetKeeps DEF Begins
  <2>. QED BY <2>1, <2>7, PersistedDone
<1>. QED BY <1>3, <1>4, <1>5

-----------------------------------------------------------------------------
\* Pause, settings, and logging in again.

PausedFrom(t) == [t EXCEPT !.b.paused = TRUE, !.p.playingState = "paused",
                           !.p.resume = Nothing]

LEMMA PausedKeeps ==
  ASSUME NEW w, Begins(w), w.b.heard # NoEntry, "stall" \in windows \/ Loaded(w),
         NEW t, t = PausedFrom(w)
  PROVE  Done(t) /\ t.refused = FALSE
<1>. DEFINE p == [w.p EXCEPT !.playingState = "paused", !.resume = Nothing]
            b == [w.b EXCEPT !.paused = TRUE]
            m == [w EXCEPT !.b = b]
<1>1. /\ w \in Worlds /\ w.p \in Player /\ w.b \in Backend /\ w.b.events \in Seq(NativeEvents)
      /\ CoreInv(w.p, w.saved) /\ EventInv(w.p, w.b, w.b.events, 0)
  BY BeginFields DEF Begins
<1>2. PlayerIs(p, w.p.queue, w.p.currentIndex, "paused", Nothing, w.p.active, w.p.prepared,
               w.p.attempts, w.p.plan)
  BY <1>1 DEF Player, PlayerIs, PlayingStates
<1>3. BackendIs(b, w.b.heard, TRUE, w.b.ended, w.b.next, w.b.events)
  BY <1>1 DEF Backend, BackendIs
<1>4. t = [m EXCEPT !.p = p]
  BY <1>1 DEF Worlds, PausedFrom
<1>. HIDE DEF p, b
<1>5. WorldIs(m, w.saved, w.refused, w.taken) /\ m.p = w.p /\ m.b = b
  BY <1>1, <1>3, WithBackend DEF BackendIs
<1>. HIDE DEF m
<1>6. WorldIs(t, w.saved, w.refused, w.taken) /\ t.p = p /\ t.b = b
  BY <1>2, <1>4, <1>5, WithPlayer DEF PlayerIs, WorldIs
<1>9. /\ t.p.queue = w.p.queue /\ t.p.currentIndex = w.p.currentIndex /\ t.p.active = w.p.active
      /\ t.p.prepared = w.p.prepared /\ t.p.plan = w.p.plan /\ t.p.playingState = "paused"
      /\ t.p.attempts = w.p.attempts
      /\ t.b.heard = w.b.heard /\ t.b.paused = TRUE /\ t.b.ended = w.b.ended
      /\ t.b.next = w.b.next /\ t.b.events = w.b.events
      /\ t \in Worlds /\ t.saved = w.saved /\ t.refused = FALSE
  BY <1>2, <1>3, <1>6 DEF PlayerIs, BackendIs, WorldIs, Begins
<1>10. Showing(t.p) = "paused" /\ "paused" \in ShowingStates
  BY <1>9 DEF Showing, ShowingStates
<1>11. /\ IndexInv(w.p, w.saved) /\ PlanInv(w.p) /\ DesktopInv(w.p)
       /\ NextInv(w.p, w.b, w.b.events, 0) /\ ReadyInv(w.p, w.b, w.b.events, 0)
       /\ RecoveryInv(w.p, w.b, w.b.events, 0) /\ OrderInv(w.p, w.b, w.b.events, 0)
       /\ HeardInv(w.p, w.b, w.b.events, 0) /\ SilentInv(w.p, w.b, w.b.events, 0)
  BY <1>1 DEF CoreInv, EventInv, StatusInv
<1>12. w.p.plan = NoPlan
  BY <1>11 DEF RecoveryInv
<1>13. CoreInv(t.p, t.saved)
  <2>1. IndexInv(t.p, t.saved)
    BY <1>9, <1>11 DEF IndexInv
  <2>2. PlanInv(t.p)
    BY <1>9, <1>12 DEF PlanInv
  <2>3. DesktopInv(t.p)
    BY <1>9, <1>10, <1>11, <1>12 DEF DesktopInv, NextTarget
  <2>. QED BY <2>1, <2>2, <2>3 DEF CoreInv
<1>14. NextInv(t.p, t.b, t.b.events, 0)
  BY <1>9, <1>11 DEF NextInv, PreparedActive
<1>15. ReadyInv(t.p, t.b, t.b.events, 0)
  BY <1>9, <1>11 DEF ReadyInv, PreparedActive
<1>16. RecoveryInv(t.p, t.b, t.b.events, 0)
  BY <1>9, <1>11 DEF RecoveryInv
<1>17. OrderInv(t.p, t.b, t.b.events, 0)
  BY <1>9, <1>11 DEF OrderInv, PreparedActive
<1>18. HeardInv(t.p, t.b, t.b.events, 0)
  <2>. SUFFICES ASSUME Undisturbed, t.p.active PROVE HeardInv(t.p, t.b, t.b.events, 0)
    BY DEF HeardInv
  <2>1. Waiting(w.b.events, 0) = {} /\ \A kinds : ~Waits(w.b.events, 0, kinds)
    BY CalmWaits DEF Begins
  <2>2. Showing(w.p) \in ShowingStates
    <3>1. Loaded(w)
      BY DEF Undisturbed
    <3>2. w.p.playingState # "interrupted" => Showing(w.p) \in ShowingStates
      BY <3>1 DEF Loaded, LoadedStates, Showing, ShowingStates
    <3>3. w.p.playingState = "interrupted" => Showing(w.p) \in ShowingStates
      BY <1>9, <1>11 DEF SilentInv
    <3>. QED BY <3>2, <3>3
  <2>. QED BY <1>9, <1>10, <1>11, <2>1, <2>2 DEF HeardInv, PreparedActive, NextTarget
<1>19. SilentInv(t.p, t.b, t.b.events, 0)
  BY <1>10 DEF SilentInv
<1>20. SavedInv(t.p, t.saved)
  BY <1>9 DEF SavedInv, Begins
<1>. QED BY <1>9, <1>13, <1>14, <1>15, <1>16, <1>17, <1>18, <1>19, <1>20
         DEF Done, Sound, EventInv, StatusInv

\* The end of a pause that the backend took from the world t
PauseEnds(t, u) ==
  \E v \in ProcessEvents(PausedFrom(t), FALSE) : u = IF v.refused THEN v ELSE Persist(v)

LEMMA PauseWorlds ==
  ASSUME NEW w, NEW t, t = SyncPosition(w), t.refused = FALSE, t.b.heard # NoEntry,
         NEW u \in Pause(w)
  PROVE  PauseEnds(t, u)
<1>. DEFINE rest(x) == Then(ProcessEvents(PausedFrom(x), FALSE), LAMBDA v : {Persist(v)})
            next(x) == IF x.b.heard = NoEntry THEN {Refused(x)} ELSE rest(x)
<1>1. Pause(w) = Then({t}, LAMBDA x : next(x))
  BY DEF Pause, PausedFrom
<1>. HIDE DEF next
<1>2. u \in next(t)
  BY <1>1 DEF Then
<1>3. u \in Then(ProcessEvents(PausedFrom(t), FALSE), LAMBDA v : {Persist(v)})
  BY <1>2 DEF next
<1>4. PICK v \in ProcessEvents(PausedFrom(t), FALSE) :
         u \in (IF v.refused THEN {v} ELSE {Persist(v)})
  BY <1>3 DEF Then
<1>. QED BY <1>4 DEF PauseEnds

LEMMA PauseGoesOn ==
  ASSUME NEW w, NEW t, t = SyncPosition(w), Begins(t), t.b.heard # NoEntry,
         "stall" \in windows \/ Loaded(t), NEW u \in Pause(w)
  PROVE  Done(u)
<1>. DEFINE paused == PausedFrom(t)
<1>1. Done(paused) /\ paused.refused = FALSE
  BY PausedKeeps
<1>3. t.refused = FALSE /\ reports \in Troubles
  BY DEF Begins
<1>. HIDE DEF paused
<1>2. PauseEnds(t, u)
  BY <1>3, PauseWorlds
<1>4. PICK v \in ProcessEvents(paused, FALSE) : u = IF v.refused THEN v ELSE Persist(v)
  BY <1>2 DEF PauseEnds, paused
<1>5. Done(v)
  BY <1>1, <1>3, <1>4, ProcessDone
<1>6. Done(Persist(v))
  BY <1>5, PersistedDone DEF Done
<1>. QED BY <1>4, <1>5, <1>6

LEMMA PauseKeeps ==
  ASSUME NEW w, Begins(w), "stall" \in windows \/ Loaded(w), NEW u \in Pause(w)
  PROVE  Done(u)
<1>. DEFINE t == SyncPosition(w)
<1>1. /\ Done(t) /\ PlayerLike(t.p, w.p) /\ t.refused \in BOOLEAN /\ (~t.refused => Begins(t))
  BY SyncedBegins
<1>2. CASE t.refused
  BY <1>1, <1>2 DEF Pause, Then
<1>3. CASE ~t.refused /\ t.b.heard = NoEntry
  <2>1. u = Refused(t)
    BY <1>3 DEF Pause, Then
  <2>. HIDE DEF t
  <2>. QED BY <1>1, <2>1, RefusedSound DEF Done
<1>4. CASE ~t.refused /\ t.b.heard # NoEntry
  <2>1. "stall" \in windows \/ Loaded(t)
    BY <1>1 DEF PlayerLike, PlayerIs, Loaded
  <2>2. t = SyncPosition(w)
    OBVIOUS
  <2>. HIDE DEF t
  <2>. QED BY <1>1, <1>4, <2>1, <2>2, PauseGoesOn
<1>. QED BY <1>2, <1>3, <1>4

\* What only the preparation changes is saved if it was.
LEMMA PreparationDone ==
  ASSUME NEW w, SavedInv(w.p, w.saved), NEW t, Sound(t), PreparationOnly(t, w)
  PROVE  Done(t)
BY DEF Done, SavedInv, PreparationOnly, PlayerIs

LEMMA SetGaplessKeeps ==
  ASSUME NEW w, Begins(w), NEW u \in SetGapless(w)
  PROVE  Done(u)
<1>. DEFINE p == [w.p EXCEPT !.gapless = ~@]
            m == [w EXCEPT !.p = p]
<1>1. w \in Worlds /\ w.p \in Player /\ Sound(w)
  BY WorldFields DEF Begins, Sound
<1>2. PlayerLike(p, w.p)
  BY <1>1 DEF Player, PlayerLike, PlayerIs
<1>3. u \in SyncGapless(m)
  BY <1>1 DEF SetGapless, Worlds
<1>. HIDE DEF p
<1>4. WorldIs(m, w.saved, w.refused, w.taken) /\ m.p = p /\ m.b = w.b
  BY <1>1, <1>2, WithPlayer DEF PlayerLike, PlayerIs
<1>. HIDE DEF m
<1>5. Sound(m) /\ Calm(m) /\ SavedInv(m.p, m.saved)
  BY <1>1, <1>2, <1>4, LikeSound DEF WorldIs, Begins, Calm, SavedInv, PlayerLike, PlayerIs
<1>. QED BY <1>3, <1>5, SyncGaplessSound, PreparationDone

LEMMA SetStreamSettingsKeeps ==
  ASSUME NEW w, Begins(w), NEW u \in SetStreamSettings(w)
  PROVE  Done(u)
<1>. DEFINE c == ClearGapless(w)
<1>1. u \in SyncGapless(c)
  BY DEF SetStreamSettings
<1>2. Sound(c) /\ Calm(c) /\ PreparationOnly(c, w)
  BY ReleasedSound DEF Begins
<1>. HIDE DEF c
<1>3. SavedInv(c.p, c.saved)
  BY <1>2, PreparationDone DEF Begins, Done
<1>. QED BY <1>1, <1>2, <1>3, SyncGaplessSound, PreparationDone

\* A world reset to no recovery, and saved.
LEMMA ResetDone ==
  ASSUME NEW w, Sound(w)
  PROVE  Done(Persist(ResetRecovery(w)))
<1>. DEFINE r == ResetRecovery(w)
<1>1. w \in Worlds
  BY DEF Sound
<1>2. /\ r \in Worlds /\ r.saved = w.saved /\ r.b = w.b
      /\ PlayerIs(r.p, w.p.queue, w.p.currentIndex, w.p.playingState,
                     w.p.resume, w.p.active, w.p.prepared, 0, NoPlan)
  BY <1>1, ResetWorld DEF WorldIs
<1>. HIDE DEF r
<1>3. Showing(r.p) = Showing(w.p)
  BY <1>2 DEF Showing, PlayerIs
<1>4. Sound(r)
  BY <1>2, <1>3, ResetKeeps
<1>. QED BY <1>4, PersistedDone DEF r

\* The device was changed, and nothing plays.
LEMMA NotReloadedDone ==
  ASSUME NEW w, Begins(w), NEW s, s = Silenced(w), NEW r \in Worlds,
         r.saved = s.saved, r.p = s.p,
         r.b.heard = NoEntry, r.b.next = NoNext, r.b.events = <<>>,
         NEW position \in {AtStart, Later},
         NEW u, u = ClearGapless([ToError(r) EXCEPT !.p.position = position])
  PROVE  Done(u)
<1>. DEFINE e == ToError(r)
            p == [e.p EXCEPT !.position = position]
            m == [e EXCEPT !.p = p]
<1>1. /\ w \in Worlds
      /\ IndexIn(w.p.queue, w.p.currentIndex) /\ IndexIn(w.saved.queue, w.saved.currentIndex)
      /\ PlanInv(w.p) /\ (w.p.plan = NoPlan <=> w.p.plan.attempt = 0)
      /\ SavedInv(w.p, w.saved)
  BY BeginFields DEF Begins
<1>2. /\ s.saved = w.saved
      /\ PlayerIs(s.p, w.p.queue, w.p.currentIndex, w.p.playingState,
                     w.p.resume, w.p.active, NoPrepared, w.p.attempts, w.p.plan)
  BY <1>1, SilencedWorld
<1>3. /\ WorldIs(e, r.saved, r.refused, r.taken) /\ e.b = r.b
      /\ PlayerIs(e.p, r.p.queue, r.p.currentIndex, "error", Nothing, r.p.active,
                  r.p.prepared, r.p.attempts, r.p.plan)
  BY ErrorWorld
<1>4. m = [ToError(r) EXCEPT !.p.position = position]
  BY <1>3 DEF WorldIs, Worlds
<1>. HIDE DEF e
<1>5. PlayerLike(p, e.p)
  BY <1>3 DEF PlayerLike, PlayerIs, Player
<1>. HIDE DEF p
<1>6. WorldIs(m, e.saved, e.refused, e.taken) /\ m.p = p /\ m.b = e.b
  BY <1>3, <1>5, WithPlayer DEF PlayerLike, PlayerIs, WorldIs
<1>. HIDE DEF m
<1>7. /\ m \in Worlds /\ m.saved = w.saved /\ m.b = r.b
      /\ PlayerIs(m.p, w.p.queue, w.p.currentIndex, "error", Nothing, w.p.active,
                  NoPrepared, w.p.attempts, w.p.plan)
  BY <1>2, <1>3, <1>5, <1>6 DEF WorldIs, PlayerLike, PlayerIs
<1>8. u = m
  BY <1>4, <1>7, ClearedGapless DEF PlayerIs
<1>9. /\ m.p.queue = w.p.queue /\ m.p.currentIndex = w.p.currentIndex
      /\ m.p.prepared = NoPrepared /\ m.p.plan = w.p.plan /\ m.p.attempts = w.p.attempts
      /\ m.p.playingState = "error"
  BY <1>7 DEF PlayerIs
<1>10. m.p.playingState \notin ShowingStates /\ Showing(m.p) \notin ShowingStates
  BY <1>9 DEF Showing, ShowingStates
<1>11. PlanInv(m.p)
  BY <1>1, <1>9 DEF PlanInv
<1>12. Sound(m)
  BY <1>1, <1>7, <1>9, <1>10, <1>11, QuietSound
<1>. QED BY <1>1, <1>7, <1>8, <1>9, <1>12 DEF Done, SavedInv

\* set_output_device, once the position is known.
LEMMA DeviceSetKeeps ==
  ASSUME NEW w, Begins(w), w.p.currentIndex \in Indices(w.p.queue),
         NEW position \in {AtStart, Later}, NEW autoplay \in BOOLEAN,
         NEW r \in ReloadExact(Silenced(w), w.p.currentIndex, w.p.position, autoplay),
         NEW u, u = (IF r.refused
                     THEN ClearGapless([ToError(r) EXCEPT !.p.position = position])
                     ELSE Persist(ResetRecovery(r)))
  PROVE  Done(u)
<1>. DEFINE s == Silenced(w)
<1>1. /\ w \in Worlds /\ w.refused = FALSE /\ w.p.currentIndex \in Int
      /\ w.p.position \in {AtStart, Later}
      /\ IndexIn(w.saved.queue, w.saved.currentIndex)
  BY BeginFields DEF Begins
<1>2. /\ s \in Worlds /\ s.saved = w.saved /\ s.refused = FALSE
      /\ s.p.queue = w.p.queue /\ s.p.prepared = NoPrepared
  BY <1>1, SilencedWorld DEF PlayerIs
<1>3. s = Silenced(w) /\ r \in ReloadExact(s, w.p.currentIndex, w.p.position, autoplay)
  OBVIOUS
<1>. HIDE DEF s
<1>4. \/ /\ r \in Worlds /\ r.saved = s.saved /\ r.refused = TRUE /\ r.p = s.p
         /\ r.b.heard = NoEntry /\ r.b.next = NoNext /\ r.b.events = <<>>
      \/ Loading(r, s, w.p.currentIndex, autoplay)
  BY <1>1, <1>2, <1>3, ReloadWorlds
<1>5. CASE r.refused
  <2>1. ~Loading(r, s, w.p.currentIndex, autoplay)
    BY <1>2, <1>5 DEF Loading
  <2>. QED BY <1>3, <1>4, <1>5, <2>1, NotReloadedDone
<1>6. CASE ~r.refused
  BY <1>4, <1>6, ResetDone DEF Loading
<1>. QED BY <1>5, <1>6

DeviceTried(u, w, t) ==
    \/ u = t
    \/ \E r \in ReloadExact(Silenced(t), t.p.currentIndex, t.p.position, Playing(w)) :
         u = (IF r.refused
              THEN ClearGapless([ToError(r) EXCEPT !.p.position = w.b.position])
              ELSE Persist(ResetRecovery(r)))

LEMMA SetOutputDeviceWorlds ==
  ASSUME NEW w, PlayingOrPaused(w), NEW e, e = Ensured(w), e.refused = FALSE,
         NEW t, t = SyncPosition(e), t.refused = FALSE, NEW u \in SetOutputDevice(w)
  PROVE  DeviceTried(u, w, t)
<1>. DEFINE failed(x) == ClearGapless([ToError(x) EXCEPT !.p.position = w.b.position])
            set(r) == IF r.refused THEN failed(r) ELSE Persist(ResetRecovery(r))
            rest(x) == {x} \cup {set(r) : r \in ReloadExact(Silenced(x), x.p.currentIndex,
                                                           x.p.position, Playing(w))}
            begun == Then({e}, LAMBDA x : {SyncPosition(x)})
<1>1. SetOutputDevice(w) = Then(begun, LAMBDA x : rest(x))
  BY DEF SetOutputDevice
<1>2. begun = {t}
  BY DEF Then
<1>. HIDE DEF rest, begun
<1>3. u \in rest(t)
  BY <1>1, <1>2 DEF Then
<1>. HIDE DEF set
<1>4. u = t \/ \E r \in ReloadExact(Silenced(t), t.p.currentIndex, t.p.position, Playing(w)) :
                 u = set(r)
  BY <1>3 DEF rest
<1>. QED BY <1>4 DEF set, DeviceTried

LEMMA SetOutputDeviceKeeps ==
  ASSUME NEW w, Begins(w), NEW u \in SetOutputDevice(w)
  PROVE  Done(u)
<1>. DEFINE e == Ensured(w)
            t == SyncPosition(e)
<1>1. Done(e) /\ e.refused \in BOOLEAN /\ e \in Worlds /\ w \in Worlds
      /\ (~e.refused => Begins(e) /\ e.p.currentIndex \in Indices(e.p.queue))
  BY EnsuredBegins DEF Begins, Sound
<1>2. CASE ~PlayingOrPaused(w)
  <2>1. u = Persist(ResetRecovery(ClearGapless(w)))
    BY <1>2 DEF SetOutputDevice
  <2>2. Sound(ClearGapless(w))
    BY ReleasedSound DEF Begins
  <2>. QED BY <2>1, <2>2, ResetDone
<1>3. CASE PlayingOrPaused(w) /\ e.refused
  <2>1. Then({e}, LAMBDA x : {SyncPosition(x)}) = {e}
    BY <1>3 DEF Then
  <2>2. u = e
    BY <1>3, <2>1 DEF SetOutputDevice, Then
  <2>. QED BY <1>1, <2>2
<1>4. CASE PlayingOrPaused(w) /\ ~e.refused
  <2>1. e = Ensured(w) /\ e.refused = FALSE /\ Begins(e)
    BY <1>1, <1>4
  <2>2. Then({e}, LAMBDA x : {SyncPosition(x)}) = {t}
    BY <2>1 DEF Then
  <2>3. t.refused => u = t
    BY <1>4, <2>2 DEF SetOutputDevice, Then
  <2>. HIDE DEF e
  <2>4. /\ Done(t) /\ PlayerLike(t.p, e.p) /\ t.refused \in BOOLEAN
        /\ ~t.refused => Begins(t)
    BY <2>1, SyncedBegins
  <2>5. CASE t.refused
    BY <2>3, <2>4, <2>5
  <2>6. CASE ~t.refused
    <3>1. t = SyncPosition(e) /\ t.refused = FALSE /\ Begins(t)
      BY <2>4, <2>6
    <3>. HIDE DEF t
    <3>2. \/ u = t
          \/ \E r \in ReloadExact(Silenced(t), t.p.currentIndex, t.p.position, Playing(w)) :
               u = (IF r.refused
                    THEN ClearGapless([ToError(r) EXCEPT !.p.position = w.b.position])
                    ELSE Persist(ResetRecovery(r)))
      <4>1. DeviceTried(u, w, t)
        BY <1>4, <2>1, <3>1, SetOutputDeviceWorlds
      <4>. QED BY <4>1 DEF DeviceTried
    <3>3. t.p.currentIndex \in Indices(t.p.queue)
      BY <1>1, <2>1, <2>4 DEF PlayerLike, PlayerIs
    <3>4. w.b.position \in {AtStart, Later} /\ Playing(w) \in BOOLEAN
      BY <1>1, WorldFields, BackendFields DEF Playing
    <3>. QED BY <2>4, <3>1, <3>2, <3>3, <3>4, DeviceSetKeeps
  <2>. QED BY <2>5, <2>6
<1>. QED BY <1>2, <1>3, <1>4

\* restore_state
LEMMA RestoredPlayer ==
  ASSUME NEW file \in Saved, IndexIn(file.queue, file.currentIndex)
  PROVE  PlayerIs(Restored(file), file.queue, file.currentIndex, StoppedOrIdle(file.queue),
                  Nothing, TRUE, NoPrepared, 0, NoPlan)
<1>. DEFINE len == ClampedPlayNextLen(Len(file.queue), file.currentIndex, file.playNextQueueLen)
<1>1. /\ file.queue \in Seq(Entries) /\ file.currentIndex \in Int
      /\ file.playNextQueueLen \in Int /\ file.position \in {AtStart, Later}
  BY DEF Saved
<1>2. len \in Nat
  <2>1. Len(file.queue) \in Nat /\ file.currentIndex \in -1 .. Len(file.queue) - 1
    BY <1>1, IndexInRange
  <2>2. len \in 0 .. Len(file.queue) - (file.currentIndex + 1)
    BY <1>1, <2>1, ClampedFits
  <2>. QED BY <2>1, <2>2
<1>. HIDE DEF len
<1>3. /\ StoppedOrIdle(file.queue) \in PlayingStates
      /\ 0 \in 0 .. MaxAttempts /\ Nothing \in PlayingStates \cup {Nothing}
  BY DEF StoppedOrIdle, PlayingStates, MaxAttempts
<1>4. Restored(file).playNextQueueLen = len
  BY DEF Restored, len
<1>5. Restored(file) = [queue |-> file.queue, currentIndex |-> file.currentIndex,
     playNextQueueLen |-> len,
     position |-> file.position, playingState |-> StoppedOrIdle(file.queue),
     resume |-> Nothing, gapless |-> TRUE, active |-> TRUE, prepared |-> NoPrepared,
     attempts |-> 0, plan |-> NoPlan]
  BY DEF Restored, len
<1>. QED BY <1>1, <1>2, <1>3, <1>5, Values DEF Player, PlayerIs

LEMMA SwitchProfileKeeps ==
  ASSUME NEW w, Begins(w), "recovery" \in windows \/ w.p.plan = NoPlan,
         NEW u \in SwitchProfile(w)
  PROVE  Done(u)
<1>. DEFINE s == Silenced(w)
            r == Restored(w.saved)
            p == [r EXCEPT !.gapless = w.p.gapless, !.attempts = w.p.attempts,
                           !.plan = w.p.plan]
            state == StoppedOrIdle(w.saved.queue)
<1>1. /\ w \in Worlds /\ w.p \in Player /\ w.saved \in Saved
      /\ IndexIn(w.saved.queue, w.saved.currentIndex) /\ Sound(w)
  BY BeginFields DEF Begins
<1>2. s \in Worlds /\ s.saved = w.saved
  BY <1>1, SilencedWorld
<1>3. u = [s EXCEPT !.p = p]
  BY DEF SwitchProfile
<1>4. s.b = Silenced(w).b
  OBVIOUS
<1>. HIDE DEF s
<1>5. PlayerIs(r, w.saved.queue, w.saved.currentIndex, state, Nothing, TRUE, NoPrepared,
               0, NoPlan)
  BY <1>1, RestoredPlayer
<1>. HIDE DEF r
<1>6. PlayerIs(p, w.saved.queue, w.saved.currentIndex, state, Nothing, TRUE, NoPrepared,
               w.p.attempts, w.p.plan)
  BY <1>1, <1>5 DEF PlayerIs, Player
<1>. HIDE DEF p
<1>7. WorldIs(u, s.saved, s.refused, s.taken) /\ u.p = p /\ u.b = s.b
  BY <1>2, <1>3, <1>6, WithPlayer DEF PlayerIs
<1>8. state # "interrupted" /\ state \notin ShowingStates
  BY DEF StoppedOrIdle, ShowingStates
<1>9. Sound(u)
  BY <1>1, <1>2, <1>4, <1>6, <1>7, <1>8, SilencedSound DEF WorldIs
<1>10. SavedInv(u.p, u.saved)
  BY <1>2, <1>6, <1>7 DEF SavedInv, PlayerIs, WorldIs
<1>. QED BY <1>9, <1>10 DEF Done

-----------------------------------------------------------------------------
\* Seeking.

\* r is q with one event more, the n-th.
Longer(r, q, n, event) ==
    /\ n \in Nat /\ r[n] = event /\ n \in Waiting(r, 0) /\ ~(n < n)
    /\ \A k \in Waiting(q, 0) : k \in Waiting(r, 0) /\ r[k] = q[k] /\ k < n /\ ~(n < k)
    /\ \A k \in Waiting(r, 0) : k = n \/ k \in Waiting(q, 0)
    /\ \A kinds : Waits(r, 0, kinds) <=> Waits(q, 0, kinds) \/ event.kind \in kinds
    /\ \A kind : WaitsFresh(r, 0, kind)
                   <=> WaitsFresh(q, 0, kind) \/ (event.kind = kind /\ ~event.stale)

LEMMA AppendWaits ==
  ASSUME NEW q \in Seq(NativeEvents), NEW event \in NativeEvents
  PROVE  /\ Append(q, event) \in Seq(NativeEvents)
         /\ Longer(Append(q, event), q, Len(q) + 1, event)
<1>. DEFINE r == Append(q, event)
            n == Len(q) + 1
<1>1. r \in Seq(NativeEvents) /\ Len(r) = n /\ Len(q) \in Nat /\ n \in Nat /\ r[n] = event
      /\ \A k \in 1 .. Len(q) : r[k] = q[k]
  OBVIOUS
<1>2. DOMAIN r = 1 .. n /\ DOMAIN q = 1 .. Len(q)
  BY <1>1
<1>. HIDE DEF r
<1>3. Waiting(r, 0) = 1 .. n /\ Waiting(q, 0) = 1 .. Len(q)
  BY <1>1, <1>2 DEF Waiting
<1>4. /\ n \in Waiting(r, 0) /\ n \notin Waiting(q, 0) /\ ~(n < n)
      /\ \A k \in Waiting(q, 0) : k \in Waiting(r, 0) /\ r[k] = q[k] /\ k < n /\ ~(n < k)
      /\ \A k \in Waiting(r, 0) : k = n \/ k \in Waiting(q, 0)
  BY <1>1, <1>3
<1>. HIDE DEF n
<1>5. ASSUME NEW kinds
      PROVE  Waits(r, 0, kinds) <=> Waits(q, 0, kinds) \/ event.kind \in kinds
  BY <1>1, <1>4 DEF Waits
<1>6. ASSUME NEW kind
      PROVE  WaitsFresh(r, 0, kind)
               <=> WaitsFresh(q, 0, kind) \/ (event.kind = kind /\ ~event.stale)
  BY <1>1, <1>4 DEF WaitsFresh
<1>. QED BY <1>1, <1>4, <1>5, <1>6 DEF Longer, r, n

\* What the backend makes of a seek, and the player where it does not ask.
SoughtFrom(w, position) ==
    [w EXCEPT !.b.position = position, !.b.ended = FALSE,
              !.b.events = Append(@, [kind |-> "seek", stale |-> FALSE])]
MovedFrom(w, position) == [w EXCEPT !.p.position = position, !.p.resume = Nothing]

LEMMA SoughtKeeps ==
  ASSUME NEW w, Begins(w), PlayingOrPaused(w), NEW position \in {AtStart, Later},
         NEW t, t = SoughtFrom(w, position)
  PROVE  Done(t) /\ t.refused = FALSE
<1>. DEFINE event == [kind |-> "seek", stale |-> FALSE]
            q == w.b.events
            r == Append(q, event)
            n == Len(q) + 1
            b == [w.b EXCEPT !.position = position, !.ended = FALSE, !.events = r]
<1>1. /\ w \in Worlds /\ w.p \in Player /\ w.b \in Backend /\ q \in Seq(NativeEvents)
      /\ CoreInv(w.p, w.saved) /\ EventInv(w.p, w.b, w.b.events, 0)
  BY BeginFields DEF Begins
<1>2. event \in NativeEvents /\ event.kind = "seek"
  BY DEF NativeEvents
<1>. HIDE DEF event
<1>3. /\ r \in Seq(NativeEvents)
      /\ n \in Nat /\ r[n] = event /\ n \in Waiting(r, 0)
      /\ \A k \in Waiting(q, 0) : k \in Waiting(r, 0) /\ r[k] = q[k] /\ k < n /\ ~(n < k)
      /\ \A k \in Waiting(r, 0) : k = n \/ k \in Waiting(q, 0)
      /\ ~(n < n)
      /\ \A kinds : Waits(r, 0, kinds) <=> Waits(q, 0, kinds) \/ event.kind \in kinds
      /\ \A kind : WaitsFresh(r, 0, kind)
                     <=> WaitsFresh(q, 0, kind) \/ (event.kind = kind /\ ~event.stale)
  <2>1. r \in Seq(NativeEvents) /\ Longer(r, q, n, event)
    BY <1>1, <1>2, AppendWaits
  <2>. QED BY <2>1 DEF Longer
<1>4. t = [w EXCEPT !.b = b]
  BY <1>1 DEF SoughtFrom, Worlds, event
<1>. HIDE DEF r, n
<1>5. BackendIs(b, w.b.heard, w.b.paused, FALSE, w.b.next, r)
  BY <1>1, <1>3 DEF Backend, BackendIs
<1>. HIDE DEF b
<1>6. WorldIs(t, w.saved, w.refused, w.taken) /\ t.p = w.p /\ t.b = b
  BY <1>1, <1>4, <1>5, WithBackend DEF BackendIs
<1>7. /\ t.b.heard = w.b.heard /\ t.b.paused = w.b.paused /\ t.b.ended = FALSE
      /\ t.b.next = w.b.next /\ t.b.events = r
      /\ t \in Worlds /\ t.saved = w.saved /\ t.refused = FALSE
  BY <1>5, <1>6 DEF BackendIs, WorldIs, Begins
<1>. HIDE DEF q
<1>8. /\ NextInv(w.p, w.b, q, 0) /\ ReadyInv(w.p, w.b, q, 0)
      /\ RecoveryInv(w.p, w.b, q, 0) /\ OrderInv(w.p, w.b, q, 0) /\ HeardInv(w.p, w.b, q, 0)
  BY <1>1 DEF EventInv, StatusInv, q
<1>9. Undisturbed => Waiting(q, 0) = {} /\ \A kinds : ~Waits(q, 0, kinds)
  BY CalmWaits DEF Begins, q
<1>10. CoreInv(t.p, t.saved)
  BY <1>1, <1>6, <1>7
<1>11. NextInv(t.p, t.b, r, 0)
  BY <1>2, <1>3, <1>6, <1>7, <1>8 DEF NextInv
<1>12. ReadyInv(t.p, t.b, r, 0)
  BY <1>2, <1>3, <1>6, <1>7, <1>8 DEF ReadyInv
<1>13. RecoveryInv(t.p, t.b, r, 0)
  <2>1. "recovery" \notin windows => ErrorsEnd(r, 0)
    BY <1>2, <1>3, <1>8 DEF RecoveryInv, ErrorsEnd
  <2>. QED BY <1>2, <1>3, <1>6, <1>7, <1>8, <2>1 DEF RecoveryInv
<1>14. OrderInv(t.p, t.b, r, 0)
  <2>. SUFFICES ASSUME Undisturbed PROVE OrderInv(t.p, t.b, r, 0)
    BY DEF OrderInv
  <2>1. \A k \in Waiting(r, 0) : k = n
    BY <1>3, <1>9
  <2>. QED BY <1>2, <1>3, <1>6, <1>7, <1>8, <1>9, <2>1 DEF OrderInv, EndKinds
<1>15. HeardInv(t.p, t.b, r, 0)
  <2>. SUFFICES ASSUME Undisturbed PROVE HeardInv(t.p, t.b, r, 0)
    BY DEF HeardInv
  <2>1. \A k \in Waiting(r, 0) : k = n
    BY <1>3, <1>9
  <2>2. event.kind \notin Deciding /\ event.kind # "transition"
    BY <1>2 DEF Deciding
  <2>. QED BY <1>3, <1>6, <1>7, <1>8, <1>9, <2>1, <2>2 DEF HeardInv
<1>16. SilentInv(t.p, t.b, r, 0)
  <2>1. Showing(t.p) \in ShowingStates
    BY <1>6 DEF PlayingOrPaused, Showing, ShowingStates
  <2>. QED BY <2>1 DEF SilentInv
<1>17. SavedInv(t.p, t.saved)
  BY <1>6, <1>7 DEF SavedInv, Begins
<1>. QED BY <1>7, <1>10, <1>11, <1>12, <1>13, <1>14, <1>15, <1>16, <1>17
         DEF Done, Sound, EventInv, StatusInv

\* The command does not meet a backend that is buffering.
NotStalled(w) ==
    "stall" \notin windows => (w.p.playingState = "interrupted" => w.p.plan # NoPlan)

LEMMA NotStalledSilent ==
  ASSUME NEW w, Sound(w), ~PlayingOrPaused(w), NotStalled(w), Undisturbed, w.p.active
  PROVE  w.b.heard = NoEntry \/ w.b.ended
<1>1. RecoveryInv(w.p, w.b, w.b.events, 0) /\ SilentInv(w.p, w.b, w.b.events, 0)
  BY DEF Sound, EventInv, StatusInv
<1>2. CASE w.p.playingState = "interrupted"
  BY <1>1, <1>2 DEF NotStalled, Undisturbed, RecoveryInv
<1>3. CASE w.p.playingState # "interrupted"
  <2>1. Showing(w.p) \notin ShowingStates
    BY <1>3 DEF Showing, ShowingStates, PlayingOrPaused
  <2>. QED BY <1>1, <2>1 DEF SilentInv
<1>. QED BY <1>2, <1>3

LEMMA MovedKeeps ==
  ASSUME NEW w, Begins(w), ~PlayingOrPaused(w), NotStalled(w), NEW position \in {AtStart, Later},
         NEW t, t = MovedFrom(w, position)
  PROVE  Done(t) /\ t.refused = FALSE
<1>. DEFINE p == [w.p EXCEPT !.position = position, !.resume = Nothing]
<1>1. /\ w \in Worlds /\ w.p \in Player /\ w.b \in Backend
      /\ CoreInv(w.p, w.saved) /\ EventInv(w.p, w.b, w.b.events, 0)
  BY BeginFields DEF Begins
<1>2. PlayerIs(p, w.p.queue, w.p.currentIndex, w.p.playingState, Nothing, w.p.active,
               w.p.prepared, w.p.attempts, w.p.plan)
  BY <1>1 DEF Player, PlayerIs
<1>3. t = [w EXCEPT !.p = p]
  BY <1>1 DEF Worlds, MovedFrom
<1>. HIDE DEF p
<1>4. WorldIs(t, w.saved, w.refused, w.taken) /\ t.p = p /\ t.b = w.b
  BY <1>1, <1>2, <1>3, WithPlayer DEF PlayerIs
<1>5. /\ t.p.queue = w.p.queue /\ t.p.currentIndex = w.p.currentIndex /\ t.p.active = w.p.active
      /\ t.p.prepared = w.p.prepared /\ t.p.plan = w.p.plan
      /\ t.p.playingState = w.p.playingState /\ t.p.attempts = w.p.attempts
      /\ t.p.resume = Nothing
      /\ t \in Worlds /\ t.saved = w.saved /\ t.refused = FALSE
  BY <1>2, <1>4 DEF PlayerIs, WorldIs, Begins
<1>6. Showing(t.p) \notin ShowingStates
  BY <1>5 DEF Showing, ShowingStates, PlayingOrPaused, Nothing
<1>7. CoreInv(t.p, t.saved)
  BY <1>1, <1>5, LikeCore
<1>8. NextInv(t.p, t.b, t.b.events, 0)
  BY <1>1, <1>4, <1>5 DEF EventInv, NextInv, PreparedActive
<1>9. ReadyInv(t.p, t.b, t.b.events, 0)
  BY <1>1, <1>4, <1>5 DEF EventInv, ReadyInv, PreparedActive
<1>10. RecoveryInv(t.p, t.b, t.b.events, 0)
  BY <1>1, <1>4, <1>5 DEF EventInv, StatusInv, RecoveryInv
<1>11. OrderInv(t.p, t.b, t.b.events, 0)
  BY <1>1, <1>4, <1>5 DEF EventInv, StatusInv, OrderInv, PreparedActive
<1>12. HeardInv(t.p, t.b, t.b.events, 0)
  BY <1>6 DEF HeardInv
<1>13. SilentInv(t.p, t.b, t.b.events, 0)
  <2>. SUFFICES ASSUME Undisturbed, t.p.active PROVE SilentInv(t.p, t.b, t.b.events, 0)
    BY DEF SilentInv
  <2>1. \A kinds : ~Waits(w.b.events, 0, kinds)
    BY CalmWaits DEF Begins
  <2>2. w.b.heard = NoEntry \/ w.b.ended
    BY <1>5, NotStalledSilent DEF Begins
  <2>3. w.p.playingState = "interrupted" => w.b.heard = NoEntry
    BY <1>1 DEF NotStalled, Undisturbed, EventInv, StatusInv, RecoveryInv
  <2>. QED BY <1>4, <1>5, <2>1, <2>2, <2>3 DEF SilentInv
<1>14. SavedInv(t.p, t.saved)
  BY <1>5 DEF SavedInv, Begins
<1>. QED BY <1>5, <1>7, <1>8, <1>9, <1>10, <1>11, <1>12, <1>13, <1>14
         DEF Done, Sound, EventInv, StatusInv

LEMMA SeekWorlds ==
  ASSUME NEW w, NEW position, NEW e, e = Ensured(w), e.refused = FALSE,
         NEW u \in SeekCommand(w, position)
  PROVE  \E t : /\ u \in (IF t.refused THEN {t} ELSE ProcessEvents(t, TRUE))
                /\ \/ ~PlayingOrPaused(e) /\ t = MovedFrom(e, position)
                   \/ PlayingOrPaused(e) /\ SyncPosition(e).refused /\ t = SyncPosition(e)
                   \/ /\ PlayingOrPaused(e) /\ ~SyncPosition(e).refused
                      /\ t \in {SoughtFrom(SyncPosition(e), position), Refused(SyncPosition(e))}
<1>. DEFINE begun(x) == IF PlayingOrPaused(x)
                        THEN Then({SyncPosition(x)},
                                  LAMBDA v : {SoughtFrom(v, position), Refused(v)})
                        ELSE {MovedFrom(x, position)}
            rest(x) == Then(begun(x), LAMBDA v : ProcessEvents(v, TRUE))
<1>1. SeekCommand(w, position) = Then({e}, LAMBDA x : rest(x))
  BY DEF SeekCommand, SoughtFrom, MovedFrom
<1>. HIDE DEF rest
<1>2. u \in rest(e)
  BY <1>1 DEF Then
<1>3. u \in Then(begun(e), LAMBDA v : ProcessEvents(v, TRUE))
  BY <1>2 DEF rest
<1>. HIDE DEF begun
<1>4. PICK t \in begun(e) : u \in (IF t.refused THEN {t} ELSE ProcessEvents(t, TRUE))
  BY <1>3 DEF Then
<1>5. \/ ~PlayingOrPaused(e) /\ t = MovedFrom(e, position)
      \/ PlayingOrPaused(e) /\ SyncPosition(e).refused /\ t = SyncPosition(e)
      \/ /\ PlayingOrPaused(e) /\ ~SyncPosition(e).refused
         /\ t \in {SoughtFrom(SyncPosition(e), position), Refused(SyncPosition(e))}
  BY <1>4 DEF begun, Then
<1>. QED BY <1>4, <1>5

LEMMA SeekGoesOn ==
  ASSUME NEW e, Begins(e), NotStalled(e), NEW position \in {AtStart, Later}, NEW t,
         \/ ~PlayingOrPaused(e) /\ t = MovedFrom(e, position)
         \/ PlayingOrPaused(e) /\ SyncPosition(e).refused /\ t = SyncPosition(e)
         \/ /\ PlayingOrPaused(e) /\ ~SyncPosition(e).refused
            /\ t \in {SoughtFrom(SyncPosition(e), position), Refused(SyncPosition(e))}
  PROVE  Done(t)
<1>. DEFINE s == SyncPosition(e)
<1>1. Done(s) /\ PlayerLike(s.p, e.p) /\ (~s.refused => Begins(s))
  BY SyncedBegins
<1>2. PlayingOrPaused(s) <=> PlayingOrPaused(e)
  BY <1>1 DEF PlayerLike, PlayerIs, PlayingOrPaused
<1>3. CASE ~PlayingOrPaused(e)
  BY <1>3, MovedKeeps
<1>4. CASE PlayingOrPaused(e)
  <2>. HIDE DEF s
  <2>1. \/ t = s
        \/ ~s.refused /\ t \in {SoughtFrom(s, position), Refused(s)}
    BY <1>4 DEF s
  <2>2. CASE t = s
    BY <1>1, <2>2
  <2>3. CASE ~s.refused /\ t = Refused(s)
    BY <1>1, <2>3, RefusedSound DEF Done
  <2>4. CASE ~s.refused /\ t = SoughtFrom(s, position)
    BY <1>1, <1>2, <1>4, <2>4, SoughtKeeps
  <2>. QED BY <2>1, <2>2, <2>3, <2>4
<1>. QED BY <1>3, <1>4

LEMMA SeekKeeps ==
  ASSUME NEW w, Begins(w), NotStalled(w), NEW position \in {AtStart, Later},
         NEW u \in SeekCommand(w, position)
  PROVE  Done(u)
<1>. DEFINE e == Ensured(w)
<1>1. /\ Done(e) /\ e.refused \in BOOLEAN /\ (~e.refused => Begins(e))
      /\ PlayerIs(e.p, w.p.queue, e.p.currentIndex, w.p.playingState, w.p.resume,
                  w.p.active, w.p.prepared, w.p.attempts, w.p.plan)
  BY EnsuredBegins
<1>2. CASE e.refused
  BY <1>1, <1>2 DEF SeekCommand, Then
<1>3. CASE ~e.refused
  <2>1. NotStalled(e)
    BY <1>1 DEF NotStalled, PlayerIs
  <2>2. e = Ensured(w) /\ e.refused = FALSE
    BY <1>1, <1>3
  <2>. HIDE DEF e
  <2>3. PICK t : /\ u \in (IF t.refused THEN {t} ELSE ProcessEvents(t, TRUE))
                 /\ \/ ~PlayingOrPaused(e) /\ t = MovedFrom(e, position)
                    \/ PlayingOrPaused(e) /\ SyncPosition(e).refused /\ t = SyncPosition(e)
                    \/ /\ PlayingOrPaused(e) /\ ~SyncPosition(e).refused
                       /\ t \in {SoughtFrom(SyncPosition(e), position),
                                 Refused(SyncPosition(e))}
    BY <2>2, SeekWorlds
  <2>4. Done(t)
    BY <1>1, <1>3, <2>1, <2>3, SeekGoesOn
  <2>5. t.refused \in BOOLEAN
    BY <2>4, WorldFields DEF Done, Sound
  <2>6. CASE t.refused
    BY <2>3, <2>4, <2>6
  <2>7. CASE ~t.refused
    BY <2>3, <2>4, <2>5, <2>7, ProcessDone DEF Begins
  <2>. QED BY <2>6, <2>7
<1>. QED BY <1>2, <1>3

-----------------------------------------------------------------------------
\* Next, prev and play_queue_index.

\* The current entry may change.
Relocates(w) == "recovery" \in windows \/ w.p.plan = NoPlan

\* What a load leaves, once it is persisted and what waits is processed.
LEMMA LoadedGoesOn ==
  ASSUME NEW w \in Worlds, w.refused = FALSE, NEW index \in Indices(w.p.queue),
         NEW autoplay \in BOOLEAN, reports \in Troubles, NextIsPrepared(w),
         IndexIn(w.saved.queue, w.saved.currentIndex), PlanInv(w.p),
         w.p.plan = NoPlan <=> w.p.plan.attempt = 0, Relocates(w),
         NEW t \in LoadTrack(w, index, AtStart, autoplay),
         t.refused => SavedInv(w.p, w.saved),
         NEW u \in (IF t.refused THEN {t} ELSE ProcessEvents(Persist(t), TRUE))
  PROVE  Done(u)
<1>1. NotLoaded(t, w, index) \/ Loading(t, w, index, autoplay)
  BY LoadTrackWorlds, Values
<1>2. CASE NotLoaded(t, w, index)
  <2>1. t.refused /\ u = t
    BY <1>2 DEF NotLoaded
  <2>2. Sound(t)
    BY <1>2, NotLoadedSound DEF Relocates
  <2>3. SavedInv(t.p, t.saved)
    BY <1>2, <2>1 DEF NotLoaded, PlayerIs, SavedInv
  <2>. QED BY <2>1, <2>2, <2>3 DEF Done
<1>3. CASE Loading(t, w, index, autoplay)
  <2>1. Sound(t) /\ t.refused = FALSE
    BY <1>3 DEF Loading
  <2>2. Done(Persist(t)) /\ Persist(t).refused = FALSE
    BY <2>1, PersistedDone
  <2>. QED BY <2>1, <2>2, ProcessDone
<1>. QED BY <1>1, <1>2, <1>3

LEMMA AdvancedBegins ==
  ASSUME NEW w, Begins(w), NEW index \in Indices(w.p.queue),
         NEW a, a = [w EXCEPT !.p.playNextQueueLen = AdvancedLen(w, index)]
  PROVE  Begins(a) /\ PlayerLike(a.p, w.p) /\ a.b = w.b /\ a.saved = w.saved
<1>1. w \in Worlds /\ IndexIn(w.p.queue, w.p.currentIndex)
  BY BeginFields DEF Begins
<1>2. AdvancedLen(w, index) \in Nat
  <2>1. index \in Int /\ IndexIn(w.p.queue, index)
    BY DEF Indices, IndexIn
  <2>. QED BY <1>1, <2>1, AdvancedLenNat
<1>3. /\ WorldIs(a, w.saved, w.refused, w.taken) /\ a.b = w.b /\ PlayerLike(a.p, w.p)
  BY <1>1, <1>2, AdvancedWorld
<1>4. Sound(a)
  BY <1>3, LikeSound DEF WorldIs, Begins
<1>5. SavedInv(a.p, a.saved)
  BY <1>3 DEF WorldIs, Begins, SavedInv, PlayerLike, PlayerIs
<1>6. Calm(a)
  BY <1>3 DEF Begins, Calm
<1>. QED BY <1>3, <1>4, <1>5, <1>6 DEF Begins, WorldIs

LEMMA MoveToWorlds ==
  ASSUME NEW w, NEW index, NEW a,
         a = [w EXCEPT !.p.playNextQueueLen = AdvancedLen(w, index)],
         NEW u \in MoveTo(w, index)
  PROVE  \/ PlayingOrPaused(w) /\ SyncPosition(a).refused /\ u = SyncPosition(a)
         \/ /\ PlayingOrPaused(w) /\ ~SyncPosition(a).refused
            /\ \E t \in LoadTrack(SyncPosition(a), index, AtStart, ShouldAutoplay(w)) :
                 u \in (IF t.refused THEN {t} ELSE ProcessEvents(Persist(t), TRUE))
         \/ /\ ~PlayingOrPaused(w)
            /\ \E t : /\ t = At(a, index, AtStart, "stopped")
                      /\ u \in (IF t.refused THEN {t} ELSE ProcessEvents(Persist(t), TRUE))
<1>. DEFINE synced == Then({SyncPosition(a)},
                           LAMBDA t : LoadTrack(t, index, AtStart, ShouldAutoplay(w)))
            begun == IF PlayingOrPaused(w) THEN synced ELSE {At(a, index, AtStart, "stopped")}
<1>1. MoveTo(w, index) = Then(begun, LAMBDA t : ProcessEvents(Persist(t), TRUE))
  BY DEF MoveTo
<1>. HIDE DEF begun
<1>2. PICK t \in begun : u \in (IF t.refused THEN {t} ELSE ProcessEvents(Persist(t), TRUE))
  BY <1>1 DEF Then
<1>. HIDE DEF synced
<1>3. CASE ~PlayingOrPaused(w)
  BY <1>2, <1>3 DEF begun
<1>4. CASE PlayingOrPaused(w)
  <2>1. t \in synced
    BY <1>2, <1>4 DEF begun
  <2>2. CASE SyncPosition(a).refused
    <3>1. t = SyncPosition(a)
      BY <2>1, <2>2 DEF synced, Then
    <3>. QED BY <1>2, <1>4, <2>2, <3>1
  <2>3. CASE ~SyncPosition(a).refused
    <3>1. t \in LoadTrack(SyncPosition(a), index, AtStart, ShouldAutoplay(w))
      BY <2>1, <2>3 DEF synced, Then
    <3>. QED BY <1>2, <1>4, <2>3, <3>1
  <2>. QED BY <2>2, <2>3
<1>. QED BY <1>3, <1>4

\* next and prev, of a player that plays or is paused.
LEMMA MoveLoads ==
  ASSUME NEW w, Begins(w), NEW index \in Indices(w.p.queue), Relocates(w), ~w.refused,
         NEW autoplay \in BOOLEAN, NEW t \in LoadTrack(w, index, AtStart, autoplay),
         NEW u \in (IF t.refused THEN {t} ELSE ProcessEvents(Persist(t), TRUE))
  PROVE  Done(u)
<1>1. /\ w \in Worlds /\ IndexIn(w.saved.queue, w.saved.currentIndex)
      /\ PlanInv(w.p) /\ (w.p.plan = NoPlan <=> w.p.plan.attempt = 0)
      /\ NextIsPrepared(w)
  BY BeginFields DEF Begins
<1>. QED BY <1>1, LoadedGoesOn DEF Begins

\* And of one that is silent.
LEMMA MoveStops ==
  ASSUME NEW w, Begins(w), ~PlayingOrPaused(w), NEW index \in Indices(w.p.queue),
         Relocates(w), NotStalled(w), NEW t, t = At(w, index, AtStart, "stopped"),
         NEW u \in (IF t.refused THEN {t} ELSE ProcessEvents(Persist(t), TRUE))
  PROVE  Done(u)
<1>1. w \in Worlds /\ index \in Int /\ IndexIn(w.p.queue, index) /\ CoreInv(w.p, w.saved)
  BY BeginFields DEF Begins, Indices, IndexIn
<1>2. /\ WorldIs(t, w.saved, w.refused, w.taken) /\ t.b = w.b
      /\ PlayerIs(t.p, w.p.queue, index, "stopped", Nothing,
                     w.p.active, w.p.prepared, w.p.attempts, w.p.plan)
  <2>1. "stopped" \in PlayingStates
    BY DEF PlayingStates
  <2>. QED BY <1>1, <2>1, AtWorld, Values
<1>3. OnDesktop => w.p.prepared = NoPrepared
  BY <1>1 DEF CoreInv, DesktopInv, PlayingOrPaused, ShowingStates
<1>4. Undisturbed /\ w.p.active => w.b.heard = NoEntry \/ w.b.ended
  BY NotStalledSilent DEF Begins
<1>5. Sound(t)
  BY <1>1, <1>2, <1>3, <1>4, StoppedKeeps DEF WorldIs, Begins, Relocates
<1>6. t.refused = FALSE /\ reports \in Troubles
  BY <1>2 DEF WorldIs, Begins
<1>7. Done(Persist(t)) /\ Persist(t).refused = FALSE
  BY <1>5, <1>6, PersistedDone
<1>8. u \in ProcessEvents(Persist(t), TRUE)
  BY <1>6
<1>. QED BY <1>6, <1>7, <1>8, ProcessDone

LEMMA MoveToKeeps ==
  ASSUME NEW w, Begins(w), NEW index \in Indices(w.p.queue), Relocates(w), NotStalled(w),
         NEW u \in MoveTo(w, index)
  PROVE  Done(u)
<1>. DEFINE a == [w EXCEPT !.p.playNextQueueLen = AdvancedLen(w, index)]
            s == SyncPosition(a)
<1>1. Begins(a) /\ PlayerLike(a.p, w.p)
  BY AdvancedBegins
<1>2. \/ PlayingOrPaused(w) /\ s.refused /\ u = s
      \/ /\ PlayingOrPaused(w) /\ ~s.refused
         /\ \E t \in LoadTrack(s, index, AtStart, ShouldAutoplay(w)) :
              u \in (IF t.refused THEN {t} ELSE ProcessEvents(Persist(t), TRUE))
      \/ /\ ~PlayingOrPaused(w)
         /\ \E t : /\ t = At(a, index, AtStart, "stopped")
                   /\ u \in (IF t.refused THEN {t} ELSE ProcessEvents(Persist(t), TRUE))
  BY MoveToWorlds
<1>. HIDE DEF a
<1>3. /\ Done(s) /\ PlayerLike(s.p, a.p) /\ (~s.refused => Begins(s))
  BY <1>1, SyncedBegins
<1>. HIDE DEF s
<1>4. /\ a.p.queue = w.p.queue /\ s.p.queue = w.p.queue
      /\ (PlayingOrPaused(a) <=> PlayingOrPaused(w))
      /\ Relocates(a) /\ Relocates(s) /\ NotStalled(a)
  BY <1>1, <1>3 DEF PlayerLike, PlayerIs, PlayingOrPaused, Relocates, NotStalled
<1>5. ShouldAutoplay(w) \in BOOLEAN
  BY DEF ShouldAutoplay, Playing
<1>6. CASE PlayingOrPaused(w) /\ s.refused /\ u = s
  BY <1>3, <1>6
<1>7. ASSUME ~s.refused, NEW t \in LoadTrack(s, index, AtStart, ShouldAutoplay(w)),
             u \in (IF t.refused THEN {t} ELSE ProcessEvents(Persist(t), TRUE))
      PROVE  Done(u)
  BY <1>3, <1>4, <1>5, <1>7, MoveLoads
<1>8. ASSUME ~PlayingOrPaused(w), NEW t, t = At(a, index, AtStart, "stopped"),
             u \in (IF t.refused THEN {t} ELSE ProcessEvents(Persist(t), TRUE))
      PROVE  Done(u)
  BY <1>1, <1>4, <1>8, MoveStops
<1>. QED BY <1>2, <1>6, <1>7, <1>8

LEMMA NextKeeps ==
  ASSUME NEW w, Begins(w), Relocates(w), NotStalled(w), NEW u \in NextCommand(w)
  PROVE  Done(u)
<1>. DEFINE e == Ensured(w)
<1>1. /\ Done(e) /\ e.refused \in BOOLEAN /\ (~e.refused => Begins(e))
      /\ PlayerIs(e.p, w.p.queue, e.p.currentIndex, w.p.playingState, w.p.resume,
                  w.p.active, w.p.prepared, w.p.attempts, w.p.plan)
  BY EnsuredBegins
<1>2. u \in (IF e.refused THEN {e}
             ELSE IF Valid(e, NextIndex(e)) THEN MoveTo(e, NextIndex(e)) ELSE {Refused(e)})
  BY DEF NextCommand, Then
<1>. HIDE DEF e
<1>3. Relocates(e) /\ NotStalled(e)
  BY <1>1 DEF Relocates, NotStalled, PlayerIs
<1>4. CASE e.refused
  BY <1>1, <1>2, <1>4
<1>5. CASE ~e.refused /\ Valid(e, NextIndex(e))
  BY <1>1, <1>2, <1>3, <1>5, MoveToKeeps DEF Valid
<1>6. CASE ~e.refused /\ ~Valid(e, NextIndex(e))
  BY <1>1, <1>2, <1>6, RefusedSound DEF Done
<1>. QED BY <1>4, <1>5, <1>6

LEMMA PrevWorlds ==
  ASSUME NEW w, NEW e, e = Ensured(w), e.refused = FALSE,
         NEW t, t = SyncPosition(e), t.refused = FALSE, NEW u \in PrevCommand(w)
  PROVE  \/ \E v \in SeekCommand(t, AtStart) : u = (IF v.refused THEN v ELSE Persist(v))
         \/ t.p.currentIndex # 0 /\ u \in MoveTo(t, t.p.currentIndex - 1)
<1>. DEFINE restarted(x) == Then(SeekCommand(x, AtStart), LAMBDA v : {Persist(v)})
            rest(x) == IF x.p.currentIndex = 0 THEN restarted(x)
                       ELSE MoveTo(x, x.p.currentIndex - 1)
                              \cup (IF x.p.position = Later THEN restarted(x) ELSE {})
            synced(x) == Then({SyncPosition(x)}, LAMBDA v : rest(v))
<1>1. PrevCommand(w) = Then({e}, LAMBDA x : synced(x))
  BY DEF PrevCommand
<1>. HIDE DEF synced
<1>2. u \in synced(e)
  BY <1>1 DEF Then
<1>. HIDE DEF rest
<1>3. u \in rest(t)
  BY <1>2 DEF synced, Then
<1>. HIDE DEF restarted
<1>4. u \in restarted(t) \/ (t.p.currentIndex # 0 /\ u \in MoveTo(t, t.p.currentIndex - 1))
  BY <1>3 DEF rest
<1>5. CASE u \in restarted(t)
  <2>1. PICK v \in SeekCommand(t, AtStart) : u \in (IF v.refused THEN {v} ELSE {Persist(v)})
    BY <1>5 DEF restarted, Then
  <2>. QED BY <2>1
<1>. QED BY <1>4, <1>5

LEMMA PrevGoesOn ==
  ASSUME NEW w, NEW e, e = Ensured(w), e.refused = FALSE,
         NEW t, t = SyncPosition(e), t.refused = FALSE, NEW u \in PrevCommand(w),
         Begins(t), Relocates(t), NotStalled(t), t.p.currentIndex \in Indices(t.p.queue)
  PROVE  Done(u)
<1>1. \/ \E v \in SeekCommand(t, AtStart) : u = (IF v.refused THEN v ELSE Persist(v))
      \/ t.p.currentIndex # 0 /\ u \in MoveTo(t, t.p.currentIndex - 1)
  BY PrevWorlds
<1>2. ASSUME NEW v \in SeekCommand(t, AtStart), u = (IF v.refused THEN v ELSE Persist(v))
      PROVE  Done(u)
  <2>1. Done(v)
    BY SeekKeeps, Values
  <2>. QED BY <1>2, <2>1, PersistedDone DEF Done
<1>3. CASE t.p.currentIndex # 0 /\ u \in MoveTo(t, t.p.currentIndex - 1)
  <2>1. t.p.currentIndex - 1 \in Indices(t.p.queue)
    <3>1. Len(t.p.queue) \in Nat
      BY BeginFields DEF Begins
    <3>. QED BY <1>3, <3>1 DEF Indices
  <2>. QED BY <1>3, <2>1, MoveToKeeps
<1>. QED BY <1>1, <1>2, <1>3

LEMMA PrevKeeps ==
  ASSUME NEW w, Begins(w), Relocates(w), NotStalled(w), NEW u \in PrevCommand(w)
  PROVE  Done(u)
<1>. DEFINE e == Ensured(w)
            t == SyncPosition(e)
<1>1. /\ Done(e) /\ e.refused \in BOOLEAN
      /\ ~e.refused => Begins(e) /\ e.p.currentIndex \in Indices(e.p.queue)
      /\ PlayerIs(e.p, w.p.queue, e.p.currentIndex, w.p.playingState, w.p.resume,
                  w.p.active, w.p.prepared, w.p.attempts, w.p.plan)
  BY EnsuredBegins
<1>2. e.refused => u = e
  BY DEF PrevCommand, Then
<1>3. ~e.refused /\ t.refused => u = t
  BY DEF PrevCommand, Then
<1>4. e = Ensured(w)
  OBVIOUS
<1>. HIDE DEF e
<1>5. CASE e.refused
  BY <1>1, <1>2, <1>5
<1>6. CASE ~e.refused
  <2>1. /\ Done(t) /\ PlayerLike(t.p, e.p) /\ t.refused \in BOOLEAN
        /\ ~t.refused => Begins(t)
    BY <1>1, <1>6, SyncedBegins
  <2>2. t = SyncPosition(e)
    OBVIOUS
  <2>. HIDE DEF t
  <2>3. /\ Relocates(t) /\ NotStalled(t) /\ t.p.currentIndex \in Indices(t.p.queue)
    BY <1>1, <1>6, <2>1 DEF Relocates, NotStalled, PlayerLike, PlayerIs
  <2>4. CASE t.refused
    BY <1>3, <1>6, <2>1, <2>4
  <2>5. CASE ~t.refused
    <3>1. t.refused = FALSE /\ e.refused = FALSE /\ Begins(t)
      BY <1>1, <1>6, <2>1, <2>5
    <3>. QED BY <1>4, <2>2, <2>3, <3>1, PrevGoesOn
  <2>. QED BY <2>4, <2>5
<1>. QED BY <1>5, <1>6

\* play_queue_index: silence, another entry, and play.
LEMMA JumpLoads ==
  ASSUME NEW w, Begins(w), NEW index \in Indices(w.p.queue), Relocates(w),
         NEW t, t = Persist(At([ClearNativeEvents(StopBackend(w)) EXCEPT
                                  !.p.playNextQueueLen = AdvancedLen(w, index)],
                               index, AtStart, "stopped"))
  PROVE  Loadable(t)
<1>. DEFINE s == StopBackend(w)
            c == ClearNativeEvents(s)
            len == AdvancedLen(w, index)
            m == [c EXCEPT !.p.playNextQueueLen = len]
            a == At(m, index, AtStart, "stopped")
<1>1. /\ w \in Worlds /\ IndexIn(w.p.queue, w.p.currentIndex) /\ w.refused = FALSE
      /\ PlanInv(w.p) /\ (w.p.plan = NoPlan <=> w.p.plan.attempt = 0)
      /\ w.p.queue \in Seq(Entries)
  BY BeginFields DEF Begins
<1>2. index \in Int /\ IndexIn(w.p.queue, index) /\ w.p.queue # <<>>
  <2>1. index \in Int /\ IndexIn(w.p.queue, index)
    BY DEF Indices, IndexIn
  <2>2. w.p.queue # <<>>
    BY <1>1, IndexInRange DEF Indices
  <2>. QED BY <2>1, <2>2
<1>3. len \in Nat
  BY <1>1, <1>2, AdvancedLenNat
<1>. HIDE DEF len
<1>4. /\ WorldIs(s, w.saved, w.refused, AllStale(w.taken)) /\ s.p = w.p
      /\ BackendIs(s.b, NoEntry, w.b.paused, w.b.ended, NoNext, AllStale(w.b.events))
  BY <1>1, StoppedBackend
<1>. HIDE DEF s
<1>5. /\ WorldIs(c, s.saved, s.refused, s.taken) /\ c.p = s.p
      /\ BackendIs(c.b, s.b.heard, s.b.paused, s.b.ended, s.b.next, <<>>)
  BY <1>4, ClearedEvents DEF WorldIs
<1>. HIDE DEF c
<1>6. WorldIs(m, c.saved, c.refused, c.taken) /\ m.b = c.b /\ PlayerLike(m.p, c.p)
  BY <1>3, <1>5, AdvancedWorld DEF WorldIs
<1>. HIDE DEF m
<1>7. /\ WorldIs(a, m.saved, m.refused, m.taken) /\ a.b = m.b
      /\ PlayerIs(a.p, m.p.queue, index, "stopped", Nothing, m.p.active, m.p.prepared,
                  m.p.attempts, m.p.plan)
  <2>1. "stopped" \in PlayingStates
    BY DEF PlayingStates
  <2>. QED BY <1>2, <1>6, <2>1, AtWorld, Values DEF WorldIs
<1>. HIDE DEF a
<1>8. /\ WorldIs(t, t.saved, a.refused, a.taken) /\ t.b = a.b /\ t.p = a.p
      /\ t.saved.queue = a.p.queue /\ t.saved.currentIndex = a.p.currentIndex
  <2>1. t = Persist(a)
    BY DEF a, m, len, c, s
  <2>. QED BY <1>7, <2>1, PersistedWorld DEF WorldIs
<1>9. /\ t \in Worlds /\ t.refused = FALSE
      /\ t.p.queue = w.p.queue /\ t.p.currentIndex = index /\ t.p.playingState = "stopped"
      /\ t.p.attempts = w.p.attempts /\ t.p.plan = w.p.plan /\ t.b.next = NoNext
      /\ t.saved.queue = w.p.queue /\ t.saved.currentIndex = index
  BY <1>1, <1>4, <1>5, <1>6, <1>7, <1>8 DEF WorldIs, BackendIs, PlayerLike, PlayerIs
<1>10. NextIsPrepared(t)
  BY <1>9, Values DEF NextIsPrepared, Nothing
<1>11. PlanInv(t.p)
  BY <1>1, <1>9 DEF PlanInv, Relocates
<1>12. SavedInv(t.p, t.saved)
  BY <1>9 DEF SavedInv
<1>. QED BY <1>1, <1>2, <1>9, <1>10, <1>11, <1>12 DEF Loadable, Begins

LEMMA PlayQueueIndexKeeps ==
  ASSUME NEW w, Begins(w), NEW index, Relocates(w), NEW u \in PlayQueueIndexCommand(w, index)
  PROVE  Done(u)
<1>. DEFINE t == IF Loaded(w) THEN SyncPosition(w) ELSE w
<1>1. CASE ~Valid(w, index)
  <2>1. u = Refused(w)
    BY <1>1 DEF PlayQueueIndexCommand
  <2>. QED BY <2>1, RefusedSound DEF Done, Begins
<1>2. CASE Valid(w, index)
  <2>1. /\ Done(t) /\ PlayerLike(t.p, w.p) /\ t.refused \in BOOLEAN
        /\ ~t.refused => Begins(t)
    <3>1. CASE Loaded(w)
      BY <3>1, SyncedBegins
    <3>2. CASE ~Loaded(w)
      <4>1. t = w
        BY <3>2
      <4>2. w \in Worlds
        BY BeginFields DEF Begins
      <4>. HIDE DEF t
      <4>. QED BY <4>1, <4>2, WorldFields DEF Begins, Done, PlayerLike
    <3>. QED BY <3>1, <3>2
  <2>2. u \in (IF t.refused THEN {t}
               ELSE Play(Persist(At([ClearNativeEvents(StopBackend(t)) EXCEPT
                                        !.p.playNextQueueLen = AdvancedLen(t, index)],
                                    index, AtStart, "stopped"))))
    BY <1>2 DEF PlayQueueIndexCommand, Then
  <2>. HIDE DEF t
  <2>3. index \in Indices(t.p.queue) /\ Relocates(t)
    BY <1>2, <2>1 DEF Valid, PlayerLike, PlayerIs, Relocates
  <2>4. CASE t.refused
    BY <2>1, <2>2, <2>4
  <2>5. CASE ~t.refused
    <3>. DEFINE m == Persist(At([ClearNativeEvents(StopBackend(t)) EXCEPT
                                   !.p.playNextQueueLen = AdvancedLen(t, index)],
                                index, AtStart, "stopped"))
    <3>1. Loadable(m)
      BY <2>1, <2>3, <2>5, JumpLoads
    <3>2. u \in Play(m)
      BY <2>2, <2>5
    <3>. HIDE DEF m
    <3>. QED BY <3>1, <3>2, PlayLoads
  <2>. QED BY <2>4, <2>5
<1>. QED BY <1>1, <1>2

-----------------------------------------------------------------------------
\* The queue edits.

LEMMA ReleasedBegins ==
  ASSUME NEW w, Begins(w), NEW t, t = ClearGapless(w)
  PROVE  /\ Begins(t) /\ t \in Worlds /\ t.saved = w.saved
         /\ PlayerIs(t.p, w.p.queue, w.p.currentIndex, w.p.playingState, w.p.resume,
                     w.p.active, NoPrepared, w.p.attempts, w.p.plan)
<1>1. Sound(w) /\ Calm(w) /\ w \in Worlds
  BY DEF Begins, Sound
<1>2. Sound(t) /\ Calm(t)
  BY <1>1, ReleasedSound
<1>3. /\ t \in Worlds /\ t.saved = w.saved /\ t.refused = w.refused
      /\ PlayerIs(t.p, w.p.queue, w.p.currentIndex, w.p.playingState, w.p.resume,
                  w.p.active, NoPrepared, w.p.attempts, w.p.plan)
  BY <1>1, ClearedGapless
<1>. QED BY <1>2, <1>3 DEF Begins, SavedInv, PlayerIs

LEMMA SyncedIfPossible ==
  ASSUME NEW w, Begins(w), NEW t, t = SyncIfPossible(w)
  PROVE  /\ Begins(t) /\ t.saved = w.saved /\ t.b = w.b /\ PlayerLike(t.p, w.p)
<1>1. w \in Worlds /\ Sound(w) /\ w.refused = FALSE
  BY DEF Begins, Sound
<1>2. WorldIs(t, w.saved, FALSE, w.taken) /\ t.b = w.b /\ PlayerLike(t.p, w.p)
  BY <1>1, SyncedWorld
<1>3. Sound(t)
  BY <1>1, <1>2, LikeSound DEF WorldIs
<1>. QED BY <1>2, <1>3 DEF Begins, Calm, SavedInv, WorldIs, PlayerLike, PlayerIs

\* What the queue edits go on from.
LEMMA EditedBegins ==
  ASSUME NEW w, Begins(w), NEW t, t = Edited(w)
  PROVE  /\ Begins(t) /\ t.saved = w.saved
         /\ PlayerIs(t.p, w.p.queue, w.p.currentIndex, w.p.playingState, w.p.resume,
                     w.p.active, NoPrepared, w.p.attempts, w.p.plan)
<1>. DEFINE c == ClearGapless(w)
<1>1. t = SyncIfPossible(c)
  BY DEF Edited
<1>2. /\ Begins(c) /\ c.saved = w.saved
      /\ PlayerIs(c.p, w.p.queue, w.p.currentIndex, w.p.playingState, w.p.resume,
                  w.p.active, NoPrepared, w.p.attempts, w.p.plan)
  BY ReleasedBegins
<1>. HIDE DEF c
<1>3. Begins(t) /\ t.saved = c.saved /\ PlayerLike(t.p, c.p)
  BY <1>1, <1>2, SyncedIfPossible
<1>. QED BY <1>2, <1>3 DEF PlayerLike, PlayerIs

\* An edit that leaves the current entry's song where the index leads.
LEMMA RequeuedKeeps ==
  ASSUME NEW w, Begins(w), w.p.prepared = NoPrepared, w.p.active = TRUE,
         NEW queue \in Seq(Entries), NEW index \in Int, NEW len \in Int, IndexIn(queue, index),
         w.p.currentIndex \in Indices(w.p.queue)
           => index \in Indices(queue) /\ SongAt(queue, index) = SongAt(w.p.queue, w.p.currentIndex),
         "recovery" \in windows \/ w.p.plan = NoPlan \/ index = w.p.currentIndex,
         NEW t, t = WithQueue(w, queue, index, len)
  PROVE  Sound(t) /\ Done(Persist(t))
<1>1. Sound(w) /\ w \in Worlds
  BY DEF Begins, Sound
<1>2. /\ WorldIs(t, w.saved, w.refused, w.taken) /\ t.b = w.b
      /\ PlayerIs(t.p, queue, index, w.p.playingState, w.p.resume, w.p.active,
                  w.p.prepared, w.p.attempts, w.p.plan)
  BY <1>1, QueueWorld
<1>3. Showing(t.p) = Showing(w.p)
  BY <1>2 DEF Showing, PlayerIs
<1>4. Sound(t)
  BY <1>1, <1>2, <1>3, QueueEdited DEF WorldIs
<1>. QED BY <1>4, PersistedDone

\* The first entries of an empty queue.
LEMMA FirstItems ==
  ASSUME NEW w, Begins(w), w.p.prepared = NoPrepared, w.p.active = TRUE, w.p.queue = <<>>,
         NEW items \in Seq(Entries), items # <<>>, NEW len \in Int,
         NEW t, t = [WithQueue(w, items, 0, len) EXCEPT !.p.playingState = "stopped"]
  PROVE  Done(Persist(t))
<1>. DEFINE q == WithQueue(w, items, 0, len)
            p == [q.p EXCEPT !.playingState = "stopped"]
<1>1. /\ Sound(w) /\ Calm(w) /\ w \in Worlds /\ w.p.currentIndex \in Int
      /\ IndexIn(w.p.queue, w.p.currentIndex) /\ PlanInv(w.p)
      /\ HeardInv(w.p, w.b, w.b.events, 0) /\ SilentInv(w.p, w.b, w.b.events, 0)
  BY BeginFields DEF Begins, EventInv, StatusInv
<1>2. IndexIn(items, 0) /\ 0 \in Int
  BY IndexInRange DEF IndexIn
<1>3. /\ WorldIs(q, w.saved, w.refused, w.taken) /\ q.b = w.b
      /\ PlayerIs(q.p, items, 0, w.p.playingState, w.p.resume, w.p.active,
                  w.p.prepared, w.p.attempts, w.p.plan)
  BY <1>1, <1>2, QueueWorld
<1>4. t = [q EXCEPT !.p = p]
  OBVIOUS
<1>. HIDE DEF q
<1>5. PlayerIs(p, items, 0, "stopped", w.p.resume, w.p.active,
               w.p.prepared, w.p.attempts, w.p.plan)
  BY <1>3 DEF Player, PlayerIs, PlayingStates
<1>. HIDE DEF p
<1>6. /\ t \in Worlds /\ t.saved = w.saved /\ t.b = w.b
      /\ PlayerIs(t.p, items, 0, "stopped", w.p.resume, w.p.active,
                  w.p.prepared, w.p.attempts, w.p.plan)
  <2>1. q \in Worlds /\ p \in Player
    BY <1>3, <1>5 DEF WorldIs, PlayerIs
  <2>. DEFINE a == [q EXCEPT !.p = p]
  <2>2. WorldIs(a, q.saved, q.refused, q.taken) /\ a.p = p /\ a.b = q.b
    BY <2>1, WithPlayer
  <2>3. t = a
    BY <1>4
  <2>. HIDE DEF a
  <2>. QED BY <1>3, <1>5, <2>2, <2>3 DEF WorldIs
<1>7. Indices(w.p.queue) = {}
  BY DEF Indices
<1>8. "recovery" \in windows \/ w.p.plan = NoPlan
  BY <1>1, <1>7 DEF PlanInv, IndexIn
<1>9. Undisturbed => w.b.heard = NoEntry \/ w.b.ended
  BY <1>1, <1>7 DEF HeardInv, SilentInv
<1>10. Sound(t)
  BY <1>1, <1>2, <1>6, <1>8, <1>9, StoppedKeeps
<1>. QED BY <1>10, PersistedDone

LEMMA RegionEnd ==
  ASSUME NEW n \in Nat, NEW index \in -1 .. n - 1, NEW len \in 0 .. n - (index + 1)
  PROVE  index + 1 + len \in 0 .. n /\ index + 1 <= index + 1 + len
OBVIOUS

LEMMA InsertKeeps ==
  ASSUME NEW w, Begins(w), w.p.active = TRUE, NEW items \in Seq(Entries), items # <<>>,
         NEW u \in InsertCommand(w, items)
  PROVE  Done(u)
<1>. DEFINE t == Edited(w)
            n == Len(t.p.queue)
            at == PlayNextEnd(n, t.p.currentIndex, t.p.playNextQueueLen)
            queue == SubSeq(t.p.queue, 1, at) \o items \o SubSeq(t.p.queue, at + 1, n)
            clamped == ClampedPlayNextLen(n, t.p.currentIndex, t.p.playNextQueueLen)
<1>1. u = Persist(IF n = 0
                  THEN [WithQueue(t, items, 0, Len(items) - 1) EXCEPT
                          !.p.playingState = "stopped"]
                  ELSE WithQueue(t, queue, t.p.currentIndex, clamped + Len(items)))
  BY DEF InsertCommand
<1>2. Begins(t) /\ t.p.active = TRUE /\ t.p.prepared = NoPrepared
  BY EditedBegins DEF PlayerIs
<1>. HIDE DEF t
<1>3. /\ t.p \in Player /\ t.p.queue \in Seq(Entries) /\ t.p.currentIndex \in Int
      /\ IndexIn(t.p.queue, t.p.currentIndex)
  BY <1>2, BeginFields DEF Begins
<1>4. /\ n \in Nat /\ t.p.playNextQueueLen \in Int /\ Len(items) \in Nat
      /\ t.p.currentIndex \in -1 .. n - 1
  BY <1>3, PlayerFields, IndexInRange
<1>5. CASE n = 0
  <2>1. t.p.queue = <<>>
    BY <1>3, <1>5
  <2>2. u = Persist([WithQueue(t, items, 0, Len(items) - 1) EXCEPT !.p.playingState = "stopped"])
    BY <1>1, <1>5
  <2>3. Len(items) - 1 \in Int
    BY <1>4
  <2>. QED BY <1>2, <2>1, <2>2, <2>3, FirstItems
<1>6. CASE n # 0
  <2>1. u = Persist(WithQueue(t, queue, t.p.currentIndex, clamped + Len(items)))
    BY <1>1, <1>6
  <2>2. clamped \in 0 .. n - (t.p.currentIndex + 1)
    BY <1>4, ClampedFits
  <2>3. at = t.p.currentIndex + 1 + clamped
    BY <1>4, <1>6 DEF PlayNextEnd, PlayNextStart, NoIndex
  <2>4. clamped + Len(items) \in Int
    BY <1>4, <2>2
  <2>. HIDE DEF clamped, at
  <2>5. at \in 0 .. n /\ t.p.currentIndex + 1 <= at
    BY <1>4, <2>2, <2>3, RegionEnd
  <2>6. /\ queue \in Seq(Entries) /\ Len(queue) = n + Len(items)
        /\ \A x \in 1 .. at : queue[x] = t.p.queue[x]
    BY <1>3, <2>5, InsertedIsTracked
  <2>. HIDE DEF queue
  <2>7. IndexIn(queue, t.p.currentIndex)
    BY <1>4, <2>6 DEF IndexIn, Indices, NoIndex
  <2>8. ASSUME t.p.currentIndex \in Indices(t.p.queue)
        PROVE  /\ t.p.currentIndex \in Indices(queue)
               /\ SongAt(queue, t.p.currentIndex) = SongAt(t.p.queue, t.p.currentIndex)
    <3>1. t.p.currentIndex \in 0 .. n - 1
      BY <2>8 DEF Indices
    <3>2. t.p.currentIndex + 1 \in 1 .. at /\ t.p.currentIndex \in 0 .. Len(queue) - 1
      BY <1>4, <2>5, <2>6, <3>1
    <3>3. queue[t.p.currentIndex + 1] = t.p.queue[t.p.currentIndex + 1]
      BY <2>6, <3>2
    <3>. QED BY <3>2, <3>3 DEF Indices, SongAt, ItemAt
  <2>. QED BY <1>2, <1>3, <2>1, <2>4, <2>6, <2>7, <2>8, RequeuedKeeps
<1>. QED BY <1>5, <1>6

LEMMA AppendKeeps ==
  ASSUME NEW w, Begins(w), w.p.active = TRUE, NEW items \in Seq(Entries), items # <<>>,
         NEW u \in AppendCommand(w, items)
  PROVE  Done(u)
<1>. DEFINE t == Edited(w)
            queue == t.p.queue \o items
            p == [t.p EXCEPT !.queue = queue]
<1>1. u = Persist(IF t.p.queue = <<>>
                  THEN [WithQueue(t, items, 0, 0) EXCEPT !.p.playingState = "stopped"]
                  ELSE [t EXCEPT !.p = p])
  BY DEF AppendCommand
<1>2. Begins(t) /\ t.p.active = TRUE /\ t.p.prepared = NoPrepared
  BY EditedBegins DEF PlayerIs
<1>. HIDE DEF t
<1>3. /\ t \in Worlds /\ Sound(t) /\ t.p \in Player /\ t.p.queue \in Seq(Entries)
      /\ t.p.currentIndex \in Int /\ IndexIn(t.p.queue, t.p.currentIndex)
  BY <1>2, BeginFields DEF Begins
<1>4. CASE t.p.queue = <<>>
  <2>1. u = Persist([WithQueue(t, items, 0, 0) EXCEPT !.p.playingState = "stopped"])
    BY <1>1, <1>4
  <2>. QED BY <1>2, <1>4, <2>1, FirstItems, 0 \in Int
<1>5. CASE t.p.queue # <<>>
  <2>1. u = Persist([t EXCEPT !.p = p])
    BY <1>1, <1>5
  <2>2. /\ queue \in Seq(Entries) /\ Len(queue) = Len(t.p.queue) + Len(items)
        /\ Len(t.p.queue) \in Nat /\ Len(items) \in Nat
        /\ \A x \in 1 .. Len(t.p.queue) : queue[x] = t.p.queue[x]
    BY <1>3
  <2>. HIDE DEF queue
  <2>3. PlayerIs(p, queue, t.p.currentIndex, t.p.playingState, t.p.resume, t.p.active,
                 t.p.prepared, t.p.attempts, t.p.plan)
    BY <1>3, <2>2 DEF Player, PlayerIs
  <2>. HIDE DEF p
  <2>4. IndexIn(queue, t.p.currentIndex)
    BY <1>3, <2>2, IndexInRange
  <2>5. ASSUME t.p.currentIndex \in Indices(t.p.queue)
        PROVE  /\ t.p.currentIndex \in Indices(queue)
               /\ SongAt(queue, t.p.currentIndex) = SongAt(t.p.queue, t.p.currentIndex)
    <3>1. t.p.currentIndex \in 0 .. Len(t.p.queue) - 1
      BY <2>5 DEF Indices
    <3>2. t.p.currentIndex + 1 \in 1 .. Len(t.p.queue)
          /\ t.p.currentIndex \in 0 .. Len(queue) - 1
      BY <2>2, <3>1
    <3>3. queue[t.p.currentIndex + 1] = t.p.queue[t.p.currentIndex + 1]
      BY <2>2, <3>2
    <3>. QED BY <3>2, <3>3 DEF Indices, SongAt, ItemAt
  <2>. DEFINE a == [t EXCEPT !.p = p]
  <2>6. /\ a \in Worlds /\ a.saved = t.saved /\ a.b = t.b
        /\ PlayerIs(a.p, queue, t.p.currentIndex, t.p.playingState, t.p.resume, t.p.active,
                    t.p.prepared, t.p.attempts, t.p.plan)
    BY <1>3, <2>3, WithPlayer DEF WorldIs, PlayerIs
  <2>. HIDE DEF a
  <2>7. Showing(a.p) = Showing(t.p)
    BY <2>6 DEF Showing, PlayerIs
  <2>8. Sound(a)
    BY <1>2, <1>3, <2>4, <2>5, <2>6, <2>7, QueueEdited
  <2>. QED BY <2>1, <2>8, PersistedDone DEF a
<1>. QED BY <1>4, <1>5

LEMMA MoveKeeps ==
  ASSUME NEW w, Begins(w), w.p.active = TRUE, Relocates(w),
         NEW moving \in SUBSET Indices(w.p.queue), NEW before \in 0 .. Len(w.p.queue),
         NEW u \in MoveCommand(w, moving, before)
  PROVE  Done(u)
<1>. DEFINE map == MovedIndexMap(Len(w.p.queue), moving, before)
            t == Edited(w)
            index == IF t.p.currentIndex = NoIndex THEN NoIndex ELSE ItemAt(map, t.p.currentIndex)
            queue == ApplyIndexMap(t.p.queue, map)
            n == Len(w.p.queue)
<1>1. u = w \/ u = Persist(WithQueue(t, queue, index, AdvancedLen(t, index)))
  BY DEF MoveCommand
<1>2. /\ Begins(t) /\ t.p.active = TRUE /\ t.p.prepared = NoPrepared
      /\ t.p.queue = w.p.queue /\ t.p.plan = w.p.plan
  BY EditedBegins DEF PlayerIs
<1>. HIDE DEF t
<1>3. /\ t \in Worlds /\ t.p \in Player /\ t.p.queue \in Seq(Entries) /\ t.p.currentIndex \in Int
      /\ IndexIn(t.p.queue, t.p.currentIndex)
  BY <1>2, BeginFields DEF Begins
<1>4. /\ n \in Nat /\ t.p.playNextQueueLen \in Int
      /\ t.p.currentIndex \in -1 .. n - 1
  <2>1. t.p.playNextQueueLen \in Int
    BY <1>3, PlayerFields
  <2>2. Len(t.p.queue) \in Nat /\ t.p.currentIndex \in -1 .. Len(t.p.queue) - 1
    BY <1>3, IndexInRange
  <2>. QED BY <1>2, <2>1, <2>2
<1>5. Survivors(map) = 0 .. n - 1 /\ IndexMap(map, n, n)
  <2>1. moving \in SUBSET (0 .. n - 1)
    BY DEF Indices
  <2>. QED BY <1>4, <2>1, MovedIsIndexMap
<1>. HIDE DEF map
<1>6. /\ queue \in Seq(Entries) /\ Len(queue) = n
      /\ \A i \in 0 .. n - 1 : ItemAt(queue, ItemAt(map, i)) = ItemAt(t.p.queue, i)
  BY <1>2, <1>3, <1>4, <1>5, AppliedIndexMap
<1>. HIDE DEF queue
<1>7. \A i \in 0 .. n - 1 : ItemAt(map, i) \in 0 .. n - 1
  BY <1>5 DEF IndexMap
<1>8. index \in -1 .. n - 1
  BY <1>4, <1>7 DEF NoIndex
<1>9. ASSUME t.p.currentIndex \in Indices(t.p.queue)
      PROVE  /\ index \in Indices(queue)
             /\ SongAt(queue, index) = SongAt(t.p.queue, t.p.currentIndex)
  <2>1. t.p.currentIndex \in 0 .. n - 1 /\ t.p.currentIndex # NoIndex
    BY <1>2, <1>9, <1>4 DEF Indices, NoIndex
  <2>2. index = ItemAt(map, t.p.currentIndex) /\ index \in 0 .. n - 1
    BY <1>7, <2>1
  <2>3. ItemAt(queue, index) = ItemAt(t.p.queue, t.p.currentIndex)
    BY <1>6, <2>1, <2>2
  <2>. QED BY <1>6, <2>2, <2>3 DEF Indices, SongAt
<1>. HIDE DEF index
<1>10. index \in Int /\ IndexIn(queue, index) /\ IndexIn(t.p.queue, index)
  <2>1. index \in Int /\ Len(queue) = n /\ Len(t.p.queue) = n
    BY <1>2, <1>6, <1>8
  <2>2. IndexIn(queue, index)
    BY <1>6, <1>8, <2>1, IndexInRange
  <2>3. IndexIn(t.p.queue, index)
    BY <1>3, <1>8, <2>1, IndexInRange
  <2>. QED BY <2>1, <2>2, <2>3
<1>11. AdvancedLen(t, index) \in Int
  <2>1. AdvancedLen(t, index) \in Nat
    BY <1>3, <1>10, AdvancedLenNat
  <2>. QED BY <2>1
<1>12. "recovery" \in windows \/ t.p.plan = NoPlan
  BY <1>2 DEF Relocates
<1>13. Done(Persist(WithQueue(t, queue, index, AdvancedLen(t, index))))
  BY <1>2, <1>6, <1>9, <1>10, <1>11, <1>12, RequeuedKeeps
<1>. QED BY <1>1, <1>13 DEF Begins, Done

\* What is left of the queue after a removal, and where in it the player is.
LEMMA RemovedWorld ==
  ASSUME NEW w \in Worlds, NEW queue \in Seq(Entries), NEW index \in Int, NEW len \in Int,
         IndexIn(queue, index), NEW state \in {"idle", "stopped"},
         NEW a, a = At(WithQueue(w, queue, index, len), index, AtStart, state)
  PROVE  /\ a \in Worlds /\ a.saved = w.saved /\ a.refused = w.refused /\ a.b = w.b
         /\ PlayerIs(a.p, queue, index, state, Nothing, w.p.active, w.p.prepared,
                     w.p.attempts, w.p.plan)
<1>. DEFINE q == WithQueue(w, queue, index, len)
<1>1. /\ WorldIs(q, w.saved, w.refused, w.taken) /\ q.b = w.b
      /\ PlayerIs(q.p, queue, index, w.p.playingState, w.p.resume, w.p.active,
                  w.p.prepared, w.p.attempts, w.p.plan)
  BY QueueWorld
<1>. HIDE DEF q
<1>2. q \in Worlds /\ state \in PlayingStates
  BY <1>1 DEF WorldIs, PlayingStates
<1>3. /\ WorldIs(a, q.saved, q.refused, q.taken) /\ a.b = q.b
      /\ PlayerIs(a.p, q.p.queue, index, state, Nothing, q.p.active, q.p.prepared,
                  q.p.attempts, q.p.plan)
  <2>. DEFINE b == At(q, index, AtStart, state)
  <2>1. a = b
    BY DEF q
  <2>2. /\ WorldIs(b, q.saved, q.refused, q.taken) /\ b.b = q.b
        /\ PlayerIs(b.p, q.p.queue, index, state, Nothing, q.p.active, q.p.prepared,
                    q.p.attempts, q.p.plan)
    BY <1>2, Values, AtWorld
  <2>. HIDE DEF b
  <2>. QED BY <2>1, <2>2
<1>. QED BY <1>1, <1>3 DEF WorldIs, PlayerIs

\* What goes on from there where the next one is loaded.
LoadedThere(u, here, index, autoplay) ==
    \E t \in LoadTrack(here, index, AtStart, autoplay) :
        /\ "save" \in windows \/ ~t.refused
        /\ u \in (IF t.refused THEN {t} ELSE ProcessEvents(Persist(t), TRUE))

LEMMA AfterRemovalWorlds ==
  ASSUME NEW w, NEW queue, NEW index, NEW len, NEW removedCurrent,
         NEW reload, NEW autoplay, NEW state,
         state = IF queue = <<>> THEN "idle" ELSE "stopped",
         NEW stopped, stopped = ClearNativeEvents(StopBackend(w)),
         NEW a, a = At(WithQueue(stopped, queue, index, len), index, AtStart, state),
         NEW b, b = At(WithQueue(w, queue, index, len), index, AtStart, state),
         NEW u \in AfterRemoval(w, queue, index, len, removedCurrent, reload, autoplay)
  PROVE  \/ ~removedCurrent /\ u = Persist(WithQueue(w, queue, index, len))
         \/ /\ removedCurrent /\ reload /\ queue # <<>>
            /\ LoadedThere(u, a, index, autoplay)
         \/ removedCurrent /\ Loaded(w) /\ u = Persist(a)
         \/ removedCurrent /\ ~Loaded(w) /\ u = Persist(b)
<1>. DEFINE silenced == IF removedCurrent /\ Loaded(w) THEN stopped ELSE w
            removed == WithQueue(silenced, queue, index, len)
            here == At(removed, index, AtStart, state)
            loads == LoadTrack(here, index, AtStart, autoplay)
            rest == Then({t \in loads : "save" \in windows \/ ~t.refused},
                         LAMBDA t : ProcessEvents(Persist(t), TRUE))
<1>1. AfterRemoval(w, queue, index, len, removedCurrent, reload, autoplay)
        = IF ~removedCurrent THEN {Persist(removed)}
          ELSE IF reload /\ Loaded(w) /\ queue # <<>> THEN rest
          ELSE {Persist(here)}
  BY DEF AfterRemoval
<1>. HIDE DEF rest
<1>2. CASE ~removedCurrent
  <2>1. u = Persist(removed) /\ silenced = w
    BY <1>1, <1>2
  <2>. QED BY <1>2, <2>1
<1>3. CASE removedCurrent /\ reload /\ Loaded(w) /\ queue # <<>>
  <2>1. u \in rest
    BY <1>1, <1>3
  <2>2. here = a
    BY <1>3
  <2>. HIDE DEF here
  <2>3. \E t \in loads : /\ "save" \in windows \/ ~t.refused
                         /\ u \in (IF t.refused THEN {t} ELSE ProcessEvents(Persist(t), TRUE))
    <3>. HIDE DEF loads
    <3>. QED BY <2>1 DEF rest, Then
  <2>4. LoadedThere(u, a, index, autoplay)
    BY <2>2, <2>3 DEF LoadedThere
  <2>. QED BY <1>3, <2>4
<1>4. CASE removedCurrent /\ Loaded(w) /\ ~(reload /\ Loaded(w) /\ queue # <<>>)
  <2>1. u = Persist(here) /\ silenced = stopped
    BY <1>1, <1>4
  <2>. QED BY <1>4, <2>1
<1>5. CASE removedCurrent /\ ~Loaded(w)
  <2>1. u = Persist(here) /\ silenced = w
    BY <1>1, <1>5
  <2>. QED BY <1>5, <2>1
<1>. QED BY <1>2, <1>3, <1>4, <1>5

LEMMA AfterRemovalKeeps ==
  ASSUME NEW w, Begins(w), w.p.prepared = NoPrepared, w.p.active = TRUE, Relocates(w),
         NEW queue \in Seq(Entries), NEW index \in Int, NEW len \in Int, IndexIn(queue, index),
         NEW removedCurrent, NEW reload, NEW autoplay \in BOOLEAN,
         ~removedCurrent /\ w.p.currentIndex \in Indices(w.p.queue)
           => index \in Indices(queue) /\ SongAt(queue, index) = SongAt(w.p.queue, w.p.currentIndex),
         removedCurrent /\ reload /\ queue # <<>> => index \in Indices(queue),
         NEW u \in AfterRemoval(w, queue, index, len, removedCurrent, reload, autoplay)
  PROVE  Done(u)
<1>. DEFINE state == IF queue = <<>> THEN "idle" ELSE "stopped"
            stopped == ClearNativeEvents(StopBackend(w))
            a == At(WithQueue(stopped, queue, index, len), index, AtStart, state)
            b == At(WithQueue(w, queue, index, len), index, AtStart, state)
<1>1. /\ w \in Worlds /\ Sound(w) /\ Calm(w) /\ w.refused = FALSE /\ PlanInv(w.p)
      /\ (w.p.plan = NoPlan <=> w.p.plan.attempt = 0)
      /\ IndexIn(w.saved.queue, w.saved.currentIndex)
  BY BeginFields DEF Begins
<1>2. "recovery" \in windows \/ w.p.plan = NoPlan
  BY DEF Relocates
<1>3. stopped = Silenced(w)
  <2>. DEFINE s == StopBackend(w)
  <2>1. s.p = w.p
    BY <1>1, StoppedBackend
  <2>. HIDE DEF s
  <2>2. ClearGapless(s) = s
    BY <2>1 DEF ClearGapless
  <2>. QED BY <2>2 DEF Silenced, s
<1>4. /\ stopped \in Worlds /\ stopped.saved = w.saved /\ stopped.refused = FALSE
      /\ PlayerIs(stopped.p, w.p.queue, w.p.currentIndex, w.p.playingState,
                  w.p.resume, w.p.active, NoPrepared, w.p.attempts, w.p.plan)
      /\ BackendIs(stopped.b, NoEntry, w.b.paused, w.b.ended, NoNext, <<>>)
      /\ stopped.b = Silenced(w).b
  BY <1>1, <1>3, SilencedWorld
<1>5. state \in {"idle", "stopped"} /\ state \in {"stopped", "idle"}
  OBVIOUS
<1>6. \/ ~removedCurrent /\ u = Persist(WithQueue(w, queue, index, len))
      \/ /\ removedCurrent /\ reload /\ queue # <<>>
         /\ LoadedThere(u, a, index, autoplay)
      \/ removedCurrent /\ Loaded(w) /\ u = Persist(a)
      \/ removedCurrent /\ ~Loaded(w) /\ u = Persist(b)
  <2>1. /\ state = (IF queue = <<>> THEN "idle" ELSE "stopped")
        /\ stopped = ClearNativeEvents(StopBackend(w))
        /\ a = At(WithQueue(stopped, queue, index, len), index, AtStart, state)
        /\ b = At(WithQueue(w, queue, index, len), index, AtStart, state)
    OBVIOUS
  <2>. HIDE DEF state, stopped, a, b
  <2>. QED BY <2>1, AfterRemovalWorlds
<1>. HIDE DEF stopped, state
<1>7. /\ a \in Worlds /\ a.saved = w.saved /\ a.refused = FALSE /\ a.b = stopped.b
      /\ PlayerIs(a.p, queue, index, state, Nothing, w.p.active, NoPrepared,
                  w.p.attempts, w.p.plan)
  <2>1. /\ a \in Worlds /\ a.saved = stopped.saved /\ a.refused = stopped.refused
        /\ a.b = stopped.b
        /\ PlayerIs(a.p, queue, index, state, Nothing, stopped.p.active, stopped.p.prepared,
                    stopped.p.attempts, stopped.p.plan)
    BY <1>4, <1>5, RemovedWorld
  <2>. HIDE DEF a
  <2>. QED BY <1>4, <2>1 DEF PlayerIs
<1>8. /\ b \in Worlds /\ b.saved = w.saved /\ b.b = w.b
      /\ PlayerIs(b.p, queue, index, state, Nothing, w.p.active, w.p.prepared,
                  w.p.attempts, w.p.plan)
  BY <1>1, <1>5, RemovedWorld
<1>. HIDE DEF a, b
<1>9. CASE ~removedCurrent /\ u = Persist(WithQueue(w, queue, index, len))
  BY <1>2, <1>9, RequeuedKeeps
<1>10. ASSUME removedCurrent, reload, queue # <<>>, LoadedThere(u, a, index, autoplay)
       PROVE  Done(u)
  <2>0. PICK t \in LoadTrack(a, index, AtStart, autoplay) :
           /\ "save" \in windows \/ ~t.refused
           /\ u \in (IF t.refused THEN {t} ELSE ProcessEvents(Persist(t), TRUE))
    BY <1>10 DEF LoadedThere
  <2>1. /\ a.p.queue = queue /\ a.p.plan = w.p.plan /\ a.p.attempts = w.p.attempts
        /\ a.b.next = NoNext
    BY <1>4, <1>7 DEF PlayerIs, BackendIs
  <2>2. index \in Indices(a.p.queue) /\ Relocates(a)
    BY <1>2, <1>10, <2>1 DEF Relocates
  <2>3. PlanInv(a.p) /\ (a.p.plan = NoPlan <=> a.p.plan.attempt = 0)
    BY <1>1, <1>2, <2>1 DEF PlanInv
  <2>4. NextIsPrepared(a)
    BY <2>1, Values DEF NextIsPrepared, Nothing
  <2>5. IndexIn(a.saved.queue, a.saved.currentIndex)
    BY <1>1, <1>7
  <2>6. t.refused => SavedInv(a.p, a.saved)
    BY <2>0 DEF SavedInv
  <2>7. reports \in Troubles
    BY DEF Begins
  <2>. QED BY <1>7, <2>0, <2>2, <2>3, <2>4, <2>5, <2>6, <2>7, LoadedGoesOn
<1>11. CASE removedCurrent /\ Loaded(w) /\ u = Persist(a)
  <2>1. state # "interrupted" /\ state \notin ShowingStates
    BY <1>5 DEF ShowingStates
  <2>2. a.b = Silenced(w).b
    BY <1>4, <1>7
  <2>. QED BY <1>1, <1>2, <1>7, <1>11, <2>1, <2>2, SilencedSound
<1>12. CASE removedCurrent /\ ~Loaded(w) /\ u = Persist(b)
  <2>1. OnDesktop => w.p.prepared = NoPrepared
    OBVIOUS
  <2>2. Undisturbed /\ w.p.active => w.b.heard = NoEntry \/ w.b.ended
    <3>1. Showing(w.p) \notin ShowingStates
      BY <1>12 DEF Showing, ShowingStates, Loaded, LoadedStates
    <3>2. SilentInv(w.p, w.b, w.b.events, 0)
      BY <1>1 DEF Sound, EventInv, StatusInv
    <3>. QED BY <3>1, <3>2 DEF SilentInv
  <2>3. Sound(b)
    BY <1>1, <1>2, <1>5, <1>8, <2>1, <2>2, StoppedKeeps
  <2>. QED BY <1>12, <2>3, PersistedDone
<1>. QED BY <1>6, <1>9, <1>10, <1>11, <1>12

\* Where a removal begins: with the position told, as far as it can be.
LEMMA RemovalBegins ==
  ASSUME NEW w, Begins(w), NEW s \in {SyncPosition(w), SyncIfPossible(w)},
         NEW c, c = ClearGapless(s)
  PROVE  /\ Done(s)
         /\ ~s.refused =>
              /\ Begins(c)
              /\ PlayerIs(c.p, w.p.queue, w.p.currentIndex, w.p.playingState, w.p.resume,
                          w.p.active, NoPrepared, w.p.attempts, w.p.plan)
<1>1. Done(s) /\ PlayerLike(s.p, w.p) /\ (~s.refused => Begins(s))
  <2>1. CASE s = SyncPosition(w)
    BY <2>1, SyncedBegins
  <2>2. CASE s = SyncIfPossible(w)
    BY <2>2, SyncedIfPossible DEF Begins, Done
  <2>. QED BY <2>1, <2>2
<1>2. ASSUME ~s.refused
      PROVE  /\ Begins(c)
             /\ PlayerIs(c.p, w.p.queue, w.p.currentIndex, w.p.playingState, w.p.resume,
                         w.p.active, NoPrepared, w.p.attempts, w.p.plan)
  <2>1. /\ Begins(c)
        /\ PlayerIs(c.p, s.p.queue, s.p.currentIndex, s.p.playingState, s.p.resume,
                    s.p.active, NoPrepared, s.p.attempts, s.p.plan)
    BY <1>1, <1>2, ReleasedBegins
  <2>. QED BY <1>1, <2>1 DEF PlayerLike, PlayerIs
<1>. QED BY <1>1, <1>2

\* The rest of a removal, after which the index is where the map leads, or for a
\* removed entry, at one that is left.
LEMMA RemovalKeeps ==
  ASSUME NEW w, Begins(w), w.p.active = TRUE, Relocates(w),
         NEW s \in {SyncPosition(w), SyncIfPossible(w)},
         NEW map, NEW m \in Nat, IndexMap(map, Len(w.p.queue), m),
         NEW queue, queue = ApplyIndexMap(w.p.queue, map),
         NEW index \in -1 .. m - 1, NEW len \in Int,
         NEW removedCurrent, NEW reload, NEW autoplay \in BOOLEAN,
         ~removedCurrent /\ w.p.currentIndex # NoIndex
           => w.p.currentIndex \in Survivors(map) /\ index = ItemAt(map, w.p.currentIndex),
         removedCurrent /\ reload /\ m # 0 => index # NoIndex,
         NEW u,
         u \in (IF s.refused THEN {s}
                ELSE AfterRemoval(ClearGapless(s), queue, index, len, removedCurrent, reload,
                                  autoplay))
  PROVE  Done(u)
<1>. DEFINE c == ClearGapless(s)
<1>1. /\ Done(s)
      /\ ~s.refused =>
           /\ Begins(c)
           /\ PlayerIs(c.p, w.p.queue, w.p.currentIndex, w.p.playingState, w.p.resume,
                       w.p.active, NoPrepared, w.p.attempts, w.p.plan)
  BY RemovalBegins
<1>2. CASE s.refused
  BY <1>1, <1>2
<1>3. CASE ~s.refused
  <2>1. u \in AfterRemoval(c, queue, index, len, removedCurrent, reload, autoplay)
    BY <1>3
  <2>. HIDE DEF c
  <2>2. /\ Begins(c) /\ c.p.prepared = NoPrepared /\ c.p.active = TRUE
        /\ c.p.queue = w.p.queue /\ c.p.currentIndex = w.p.currentIndex
        /\ Relocates(c)
    BY <1>1, <1>3 DEF PlayerIs, Relocates
  <2>3. w.p.queue \in Seq(Entries)
    BY BeginFields DEF Begins
  <2>4. /\ queue \in Seq(Entries) /\ Len(queue) = m
        /\ \A i \in Survivors(map) : ItemAt(queue, ItemAt(map, i)) = ItemAt(w.p.queue, i)
    BY <2>3, AppliedIndexMap
  <2>5. index \in Int /\ IndexIn(queue, index)
    BY <2>4, IndexInRange
  <2>6. ASSUME ~removedCurrent, c.p.currentIndex \in Indices(c.p.queue)
        PROVE  /\ index \in Indices(queue)
               /\ SongAt(queue, index) = SongAt(c.p.queue, c.p.currentIndex)
    <3>1. w.p.currentIndex # NoIndex
      BY <2>2, <2>3, <2>6 DEF Indices, NoIndex
    <3>2. w.p.currentIndex \in Survivors(map) /\ index = ItemAt(map, w.p.currentIndex)
      BY <2>6, <3>1
    <3>3. index \in 0 .. m - 1
      BY <3>2 DEF IndexMap
    <3>4. ItemAt(queue, index) = ItemAt(w.p.queue, w.p.currentIndex)
      BY <2>4, <3>2
    <3>. QED BY <2>2, <2>4, <3>3, <3>4 DEF Indices, SongAt
  <2>7. ASSUME removedCurrent, reload, queue # <<>> PROVE index \in Indices(queue)
    <3>1. m # 0
      BY <2>4, <2>7
    <3>. QED BY <2>4, <2>7, <3>1 DEF Indices, NoIndex
  <2>. QED BY <2>1, <2>2, <2>4, <2>5, <2>6, <2>7, AfterRemovalKeeps
<1>. QED BY <1>2, <1>3

LEMMA RemoveIndexKeeps ==
  ASSUME NEW w, Begins(w), w.p.active = TRUE, Relocates(w), NEW index \in Indices(w.p.queue),
         NEW u \in RemoveIndexCommand(w, index)
  PROVE  Done(u)
<1>. DEFINE n == Len(w.p.queue)
            map == RemovedIndexMap(n, {index})
            queue == ApplyIndexMap(w.p.queue, map)
            removingCurrent == w.p.currentIndex = index
            consumes == /\ w.p.playNextQueueLen > 0
                        /\ \/ removingCurrent
                           \/ index \in PlayNextRegion(n, w.p.currentIndex, w.p.playNextQueueLen)
            len == IF consumes THEN w.p.playNextQueueLen - 1 ELSE w.p.playNextQueueLen
            current == IF w.p.currentIndex = NoIndex \/ n = 1 THEN NoIndex
                       ELSE IF w.p.currentIndex > index THEN w.p.currentIndex - 1
                       ELSE IF removingCurrent /\ index = n - 1 THEN n - 2
                       ELSE w.p.currentIndex
            s == IF removingCurrent THEN SyncPosition(w) ELSE SyncIfPossible(w)
            autoplay == ShouldAutoplay(w)
            rest(t) == AfterRemoval(ClearGapless(t), queue, current, len, removingCurrent, TRUE,
                                    autoplay)
<1>1. RemoveIndexCommand(w, index) = Then({s}, LAMBDA t : rest(t))
  BY DEF RemoveIndexCommand
<1>. HIDE DEF rest
<1>2. u \in (IF s.refused THEN {s} ELSE rest(s))
  <2>. HIDE DEF s
  <2>. QED BY <1>1 DEF Then
<1>3. u \in (IF s.refused THEN {s}
             ELSE AfterRemoval(ClearGapless(s), queue, current, len, removingCurrent, TRUE,
                               autoplay))
  BY <1>2 DEF rest
<1>4. s \in {SyncPosition(w), SyncIfPossible(w)} /\ autoplay \in BOOLEAN
  BY DEF ShouldAutoplay
<1>5. /\ w.p \in Player /\ w.p.queue \in Seq(Entries) /\ w.p.currentIndex \in Int
      /\ IndexIn(w.p.queue, w.p.currentIndex)
  BY BeginFields DEF Begins
<1>6. /\ n \in Nat /\ w.p.playNextQueueLen \in Int /\ index \in 0 .. n - 1
      /\ w.p.currentIndex \in -1 .. n - 1
  <2>1. w.p.playNextQueueLen \in Int
    BY <1>5, PlayerFields
  <2>2. n \in Nat /\ w.p.currentIndex \in -1 .. n - 1
    BY <1>5, IndexInRange
  <2>3. index \in 0 .. n - 1
    BY DEF Indices
  <2>. QED BY <2>1, <2>2, <2>3
<1>. HIDE DEF n
<1>7. Rank(n, {index}) = n - 1
  <2>. DEFINE below == 0 .. n - 1
  <2>1. index \in below /\ IsFiniteSet(below) /\ Cardinality(below) = n
    BY <1>6, FS_Interval
  <2>. HIDE DEF below
  <2>2. Cardinality(below \ {index}) = Cardinality(below) - 1
    BY <2>1, FS_RemoveElement
  <2>. QED BY <2>1, <2>2 DEF Rank, below
<1>8. /\ Survivors(map) = (0 .. n - 1) \ {index}
      /\ \A i \in Survivors(map) : ItemAt(map, i) = Rank(i, {index})
      /\ IndexMap(map, n, n - 1)
  BY <1>6, <1>7, RemovedIsIndexMap
<1>9. n - 1 \in Nat /\ current \in -1 .. (n - 1) - 1
  BY <1>6 DEF NoIndex
<1>10. len \in Int
  BY <1>6
<1>11. ASSUME ~removingCurrent, w.p.currentIndex # NoIndex
       PROVE  /\ w.p.currentIndex \in Survivors(map)
              /\ current = ItemAt(map, w.p.currentIndex)
  <2>. DEFINE i == w.p.currentIndex
  <2>1. i \in 0 .. n - 1 /\ i # index /\ n # 1
    BY <1>6, <1>11 DEF NoIndex
  <2>2. i \in Survivors(map) /\ ItemAt(map, i) = Rank(i, {index})
    BY <1>8, <2>1
  <2>3. CASE i > index
    <3>. DEFINE below == 0 .. i - 1
    <3>1. i \in Nat /\ index \in below
      BY <1>6, <2>1, <2>3
    <3>4. IsFiniteSet(below) /\ Cardinality(below) = i - 1 - 0 + 1
      <4>. HIDE DEF i
      <4>. QED BY <3>1, FS_Interval
    <3>5. Cardinality(below) = i
      BY <3>1, <3>4
    <3>. HIDE DEF below
    <3>2. Cardinality(below \ {index}) = Cardinality(below) - 1
      BY <3>1, <3>4, FS_RemoveElement
    <3>3. Rank(i, {index}) = i - 1
      BY <3>1, <3>2, <3>5 DEF Rank, below
    <3>6. current = i - 1
      BY <1>11, <2>1, <2>3
    <3>. QED BY <2>2, <3>3, <3>6
  <2>4. CASE ~(i > index)
    <3>1. (0 .. i - 1) \ {index} = 0 .. i - 1
      BY <1>6, <2>1, <2>4
    <3>2. Cardinality(0 .. i - 1) = i
      BY <2>1, FS_Interval
    <3>3. Rank(i, {index}) = i
      BY <3>1, <3>2 DEF Rank
    <3>4. current = i
      BY <1>6, <1>11, <2>1, <2>4
    <3>. QED BY <2>2, <3>3, <3>4
  <2>. QED BY <2>3, <2>4
<1>12. removingCurrent /\ n - 1 # 0 => current # NoIndex
  BY <1>6 DEF NoIndex
<1>. HIDE DEF map, current, len, s, autoplay, removingCurrent
<1>. DEFINE m == n - 1
            reload == TRUE
<1>13. /\ queue = ApplyIndexMap(w.p.queue, map) /\ m \in Nat
       /\ current \in -1 .. m - 1
  BY <1>9
<1>14. IndexMap(map, Len(w.p.queue), m)
  BY <1>8 DEF n
<1>15. /\ u \in (IF s.refused THEN {s}
                 ELSE AfterRemoval(ClearGapless(s), queue, current, len, removingCurrent,
                                   reload, autoplay))
       /\ removingCurrent /\ reload /\ m # 0 => current # NoIndex
  BY <1>3, <1>12
<1>. HIDE DEF queue, m, reload
<1>. QED BY <1>4, <1>10, <1>11, <1>13, <1>14, <1>15, RemovalKeeps, ZenonT(60)

LEMMA RemoveIndicesKeeps ==
  ASSUME NEW w, Begins(w), w.p.active = TRUE, Relocates(w),
         NEW removing \in SUBSET Indices(w.p.queue),
         NEW u \in RemoveIndicesCommand(w, removing)
  PROVE  Done(u)
<1>. DEFINE n == Len(w.p.queue)
            map == RemovedIndexMap(n, removing)
            queue == ApplyIndexMap(w.p.queue, map)
            S == Survivors(map)
            removedCurrent == w.p.currentIndex \in removing
            after == {i \in S : removedCurrent /\ i > w.p.currentIndex}
            replacement == IF after = {} THEN NoIndex
                           ELSE CHOOSE i \in after : \A j \in after : i <= j
            kept == (S \ {replacement})
                        \cap PlayNextRegion(n, w.p.currentIndex, w.p.playNextQueueLen)
            left == Cardinality(S)
            len == Cardinality(kept)
            current == IF w.p.currentIndex = NoIndex \/ left = 0 THEN NoIndex
                       ELSE IF ~removedCurrent THEN ItemAt(map, w.p.currentIndex)
                       ELSE IF after # {} THEN ItemAt(map, replacement)
                       ELSE left - 1
            s == IF removedCurrent THEN SyncPosition(w) ELSE SyncIfPossible(w)
            reload == after # {}
            rest(t) == AfterRemoval(ClearGapless(t), queue, current, len, removedCurrent,
                                    reload, FALSE)
<1>1. RemoveIndicesCommand(w, removing) = Then({s}, LAMBDA t : rest(t))
  BY DEF RemoveIndicesCommand
<1>. HIDE DEF rest
<1>2. u \in (IF s.refused THEN {s} ELSE rest(s))
  <2>. HIDE DEF s
  <2>. QED BY <1>1 DEF Then
<1>3. u \in (IF s.refused THEN {s}
             ELSE AfterRemoval(ClearGapless(s), queue, current, len, removedCurrent, reload,
                               FALSE))
  BY <1>2 DEF rest
<1>4. s \in {SyncPosition(w), SyncIfPossible(w)}
  OBVIOUS
<1>. HIDE DEF s
<1>5. /\ w.p \in Player /\ w.p.queue \in Seq(Entries) /\ w.p.currentIndex \in Int
      /\ IndexIn(w.p.queue, w.p.currentIndex)
  BY BeginFields DEF Begins
<1>6. /\ n \in Nat /\ w.p.currentIndex \in -1 .. n - 1
  BY <1>5, IndexInRange
<1>. HIDE DEF n
<1>7. S = (0 .. n - 1) \ removing /\ IndexMap(map, n, left) /\ left \in Nat
  <2>1. /\ S = (0 .. n - 1) \ removing
        /\ Rank(n, removing) \in Nat /\ IndexMap(map, n, Rank(n, removing))
    BY <1>6, RemovedIsIndexMap
  <2>2. left = Rank(n, removing)
    BY <2>1 DEF IndexMap
  <2>. QED BY <2>1, <2>2
<1>8. IsFiniteSet(S) /\ \A i \in S : ItemAt(map, i) \in 0 .. left - 1
  BY <1>7 DEF IndexMap
<1>9. queue = ApplyIndexMap(w.p.queue, map)
  OBVIOUS
<1>. HIDE DEF queue
<1>10. len \in Int
  <2>1. kept \in SUBSET S
    OBVIOUS
  <2>. HIDE DEF kept, S
  <2>2. IsFiniteSet(kept)
    BY <1>8, <2>1, FS_Subset
  <2>3. Cardinality(kept) \in Nat
    BY <2>2, FS_CardinalityType
  <2>. QED BY <2>3
<1>. HIDE DEF len, kept
<1>11. after # {} => replacement \in S
  <2>1. after \in SUBSET Nat /\ after \in SUBSET S
    BY <1>6, <1>7
  <2>2. after # {} => \E i \in after : \A j \in after : i <= j
    <3>. HIDE DEF after
    <3>. QED BY <2>1, LeastExists
  <2>. HIDE DEF after
  <2>. QED BY <2>1, <2>2
<1>. HIDE DEF replacement
<1>12. ASSUME ~removedCurrent, w.p.currentIndex # NoIndex
       PROVE  /\ w.p.currentIndex \in S /\ current = ItemAt(map, w.p.currentIndex)
  <2>1. w.p.currentIndex \in S
    BY <1>6, <1>7, <1>12 DEF NoIndex
  <2>2. left # 0
    <3>. HIDE DEF S
    <3>. QED BY <1>8, <2>1, FS_EmptySet
  <2>. HIDE DEF left, S
  <2>. QED BY <1>12, <2>1, <2>2
<1>13. current \in -1 .. left - 1 /\ (removedCurrent /\ reload /\ left # 0 => current # NoIndex)
  <2>1. removedCurrent => w.p.currentIndex # NoIndex
    BY DEF Indices, NoIndex
  <2>2. ~removedCurrent /\ w.p.currentIndex # NoIndex => current \in 0 .. left - 1
    BY <1>8, <1>12
  <2>. HIDE DEF S, after, left, map
  <2>3. CASE w.p.currentIndex = NoIndex \/ left = 0
    <3>1. current = NoIndex
      BY <2>3
    <3>2. current \in -1 .. left - 1
      BY <1>7, <3>1 DEF NoIndex
    <3>3. ~(removedCurrent /\ left # 0)
      BY <2>1, <2>3
    <3>. HIDE DEF current, removedCurrent
    <3>. QED BY <3>2, <3>3
  <2>4. CASE ~(w.p.currentIndex = NoIndex \/ left = 0) /\ ~removedCurrent
    <3>1. current \in 0 .. left - 1
      BY <2>2, <2>4
    <3>. HIDE DEF current, removedCurrent
    <3>. QED BY <1>7, <2>4, <3>1
  <2>5. CASE ~(w.p.currentIndex = NoIndex \/ left = 0) /\ removedCurrent /\ after # {}
    <3>1. current = ItemAt(map, replacement)
      BY <2>5
    <3>2. current \in 0 .. left - 1
      BY <1>8, <1>11, <2>5, <3>1
    <3>. QED BY <1>7, <3>2 DEF NoIndex
  <2>6. CASE ~(w.p.currentIndex = NoIndex \/ left = 0) /\ removedCurrent /\ after = {}
    <3>1. current = left - 1
      BY <2>6
    <3>. QED BY <1>7, <2>6, <3>1 DEF NoIndex
  <2>. QED BY <2>3, <2>4, <2>5, <2>6
<1>. HIDE DEF map, left, current, removedCurrent, reload
<1>. QED BY <1>3, <1>4, <1>7, <1>9, <1>10, <1>12, <1>13, RemovalKeeps DEF n

-----------------------------------------------------------------------------
\* Connect brings the shared state.

\* The worlds apply_connect_shared_state goes through.
ActiveAs(w, active) == [w EXCEPT !.p.active = active]
ReplacedAs(w, shared, active, state) ==
    At(WithQueue(Silenced(ActiveAs(w, active)), shared.queue, shared.currentIndex,
                 shared.playNextQueueLen),
       shared.currentIndex, shared.position, state)
EmptiedAs(w, shared, active) ==
    At(WithQueue(Silenced(ActiveAs(w, active)), shared.queue, shared.currentIndex,
                 shared.playNextQueueLen),
       NoIndex, AtStart, "idle")
PreservedAs(w, shared, active) ==
    [WithQueue(ClearGapless(SyncIfPossible(ActiveAs(w, active))), shared.queue,
               shared.currentIndex, shared.playNextQueueLen) EXCEPT !.p.resume = Nothing]

LEMMA ApplyWorlds ==
  ASSUME NEW w, NEW shared, NEW active, NEW mayPreserve,
         NEW r, r = Persist(ReplacedAs(w, shared, active, "stopped")),
         NEW u \in ApplySharedCommand(w, shared, active, mayPreserve)
  PROVE  \/ /\ mayPreserve /\ active /\ Preserves(w, shared)
            /\ \E t \in SyncGapless(PreservedAs(w, shared, active)) : u = Persist(t)
         \/ shared.queue = <<>> /\ u = Persist(EmptiedAs(w, shared, active))
         \/ /\ shared.queue # <<>> /\ ~active
            /\ u = Persist(ReplacedAs(w, shared, active, shared.playingState))
         \/ shared.queue # <<>> /\ active /\ u \in Play(r)
         \/ shared.queue # <<>> /\ active /\ u \in Then(Play(r), Pause)
         \/ /\ shared.queue # <<>> /\ active
            /\ shared.playingState \notin {"playing", "paused"}
            /\ u = [r EXCEPT !.p.playingState = IF shared.playingState \in {"stopped", "idle"}
                                                THEN shared.playingState ELSE @]
<1>. DEFINE preserved == {Persist(t) : t \in SyncGapless(PreservedAs(w, shared, active))}
            started == Play(r)
            goesOn == Then(started, Pause)
            stays == [r EXCEPT !.p.playingState = IF shared.playingState \in {"stopped", "idle"}
                                                  THEN shared.playingState ELSE @]
<1>1. ApplySharedCommand(w, shared, active, mayPreserve)
        = IF mayPreserve /\ active /\ Preserves(w, shared) THEN preserved
          ELSE IF shared.queue = <<>> THEN {Persist(EmptiedAs(w, shared, active))}
          ELSE IF ~active THEN {Persist(ReplacedAs(w, shared, active, shared.playingState))}
          ELSE CASE shared.playingState = "playing" -> started
                 [] shared.playingState = "paused" -> goesOn
                 [] OTHER -> {stays}
  BY DEF ApplySharedCommand, ReplacedAs, EmptiedAs, PreservedAs, ActiveAs
<1>2. u \in preserved => \E t \in SyncGapless(PreservedAs(w, shared, active)) : u = Persist(t)
  OBVIOUS
<1>3. shared.playingState = "playing" \/ shared.playingState = "paused"
      \/ shared.playingState \notin {"playing", "paused"}
  OBVIOUS
<1>. HIDE DEF preserved, goesOn, stays
<1>. QED BY <1>1, <1>2, <1>3 DEF goesOn, stays

\* What Connect brings: a queue, at its last entry.
Brings(shared, queue) ==
    /\ shared.queue = queue /\ shared.currentIndex = Len(queue) - 1
    /\ shared.playNextQueueLen = 0 /\ shared.position \in {AtStart, Later}

\* Only a device that is not the active one shows what plays elsewhere.
MayShow(active, state) == active \in BOOLEAN /\ (active => state \in {"stopped", "idle"})

Replaced(t, queue, state) ==
    /\ Done(Persist(t)) /\ t \in Worlds /\ t.refused = FALSE /\ t.b.next = NoNext
    /\ t.p.queue = queue /\ t.p.playingState = state

LEMMA ReplacedKeeps ==
  ASSUME NEW w, Begins(w), Relocates(w), NEW queue \in Seq(Entries),
         NEW shared, Brings(shared, queue),
         NEW state \in {"playing", "paused", "stopped", "idle"}, NEW active, MayShow(active, state)
  PROVE  Replaced(ReplacedAs(w, shared, active, state), queue, state)
<1>. DEFINE p == [w.p EXCEPT !.active = active]
            h == ActiveAs(w, active)
            s == Silenced(h)
            index == Len(queue) - 1
            q == WithQueue(s, queue, index, 0)
            a == At(q, index, shared.position, state)
<1>0. active \in BOOLEAN /\ (active = TRUE => state \in {"stopped", "idle"})
  BY DEF MayShow
<1>1. /\ w \in Worlds /\ w.p \in Player /\ w.refused = FALSE /\ PlanInv(w.p)
      /\ (w.p.plan = NoPlan <=> w.p.plan.attempt = 0)
      /\ IndexIn(w.saved.queue, w.saved.currentIndex)
  BY BeginFields DEF Begins
<1>2. ReplacedAs(w, shared, active, state) = a
  BY DEF ReplacedAs, Brings
<1>3. PlayerIs(p, w.p.queue, w.p.currentIndex, w.p.playingState, w.p.resume, active,
               w.p.prepared, w.p.attempts, w.p.plan)
  BY <1>0, <1>1 DEF Player, PlayerIs
<1>4. h = [w EXCEPT !.p = p]
  BY DEF ActiveAs
<1>. HIDE DEF p
<1>5. h \in Worlds /\ h.saved = w.saved /\ h.refused = FALSE /\ h.p = p
  <2>1. p \in Player
    BY <1>3 DEF PlayerIs
  <2>2. WorldIs([w EXCEPT !.p = p], w.saved, w.refused, w.taken) /\ [w EXCEPT !.p = p].p = p
    BY <1>1, <2>1, WithPlayer
  <2>. QED BY <1>1, <1>4, <2>2 DEF WorldIs
<1>. HIDE DEF h
<1>6. /\ s \in Worlds /\ s.saved = w.saved /\ s.refused = FALSE
      /\ PlayerIs(s.p, w.p.queue, w.p.currentIndex, w.p.playingState, w.p.resume, active,
                  NoPrepared, w.p.attempts, w.p.plan)
      /\ s.b.heard = NoEntry /\ s.b.next = NoNext /\ s.b.events = <<>>
  BY <1>3, <1>5, SilencedWorld DEF PlayerIs, BackendIs
<1>. HIDE DEF s
<1>7. /\ index \in Int /\ 0 \in Int /\ IndexIn(queue, index)
      /\ index + 1 \notin Indices(queue)
  <2>1. Len(queue) \in Nat
    OBVIOUS
  <2>. QED BY <2>1 DEF IndexIn, Indices, NoIndex
<1>. HIDE DEF index
<1>8. /\ WorldIs(q, s.saved, s.refused, s.taken) /\ q.b = s.b
      /\ PlayerIs(q.p, queue, index, s.p.playingState, s.p.resume, s.p.active, s.p.prepared,
                  s.p.attempts, s.p.plan)
  BY <1>6, <1>7, QueueWorld
<1>. HIDE DEF q
<1>9. state \in PlayingStates /\ q \in Worlds /\ shared.position \in {AtStart, Later}
  BY <1>8 DEF PlayingStates, WorldIs, Brings
<1>10. /\ WorldIs(a, q.saved, q.refused, q.taken) /\ a.b = q.b
       /\ PlayerIs(a.p, q.p.queue, index, state, Nothing, q.p.active, q.p.prepared,
                   q.p.attempts, q.p.plan)
  BY <1>7, <1>9, AtWorld
<1>. HIDE DEF a
<1>11. /\ a \in Worlds /\ a.saved = w.saved /\ a.refused = FALSE
       /\ a.b.heard = NoEntry /\ a.b.next = NoNext /\ a.b.events = <<>>
       /\ PlayerIs(a.p, queue, index, state, Nothing, active, NoPrepared, w.p.attempts, w.p.plan)
  BY <1>6, <1>8, <1>10 DEF WorldIs, PlayerIs
<1>12. /\ a.p.queue = queue /\ a.p.currentIndex = index /\ a.p.active = active
       /\ a.p.prepared = NoPrepared /\ a.p.plan = w.p.plan /\ a.p.attempts = w.p.attempts
       /\ a.p.playingState = state
  BY <1>11 DEF PlayerIs
<1>13. Showing(a.p) = state
  BY <1>12 DEF Showing
<1>14. PlanInv(a.p)
  BY <1>1, <1>12 DEF PlanInv, Relocates
<1>15. Undisturbed /\ a.p.active => Showing(a.p) \notin ShowingStates
  BY <1>0, <1>12, <1>13 DEF ShowingStates
<1>16. OnDesktop /\ a.p.plan # NoPlan /\ a.p.playingState \in ShowingStates
         => ~a.p.active /\ a.p.currentIndex + 1 \notin Indices(a.p.queue)
  <2>1. a.p.currentIndex + 1 \notin Indices(a.p.queue)
    BY <1>7, <1>12
  <2>2. active = TRUE => a.p.playingState \notin ShowingStates
    BY <1>0, <1>12 DEF ShowingStates
  <2>3. active = TRUE \/ active = FALSE
    BY <1>0
  <2>. QED BY <1>12, <2>1, <2>2, <2>3
<1>17. Sound(a)
  BY <1>1, <1>7, <1>11, <1>12, <1>14, <1>15, <1>16, QuietSound
<1>18. Done(Persist(a))
  BY <1>17, PersistedDone
<1>. QED BY <1>2, <1>11, <1>12, <1>18 DEF Replaced

\* The device that was the active one and plays the shared song goes on with it.
LEMMA PreservedKeeps ==
  ASSUME NEW w, Begins(w), Relocates(w), w.p.active = TRUE,
         NEW queue \in Seq(Entries), queue # <<>>,
         NEW shared, Brings(shared, queue), Preserves(w, shared),
         NEW t \in SyncGapless(PreservedAs(w, shared, TRUE))
  PROVE  Done(Persist(t))
<1>. DEFINE h == ActiveAs(w, TRUE)
            s == SyncIfPossible(h)
            c == ClearGapless(s)
            index == Len(queue) - 1
            q == WithQueue(c, queue, index, 0)
            p == [q.p EXCEPT !.resume = Nothing]
            a == [q EXCEPT !.p = p]
<1>1. PreservedAs(w, shared, TRUE) = a
  BY DEF PreservedAs, Brings
<1>2. h = w
  <2>1. w \in Worlds /\ w.p \in Player
    BY BeginFields DEF Begins
  <2>2. [w.p EXCEPT !.active = TRUE] = w.p
    BY <2>1 DEF Player
  <2>. QED BY <2>1, <2>2 DEF ActiveAs, Worlds
<1>. HIDE DEF h
<1>3. Begins(s) /\ PlayerLike(s.p, w.p)
  BY <1>2, SyncedIfPossible
<1>. HIDE DEF s
<1>4. /\ Begins(c)
      /\ PlayerIs(c.p, s.p.queue, s.p.currentIndex, s.p.playingState, s.p.resume,
                  s.p.active, NoPrepared, s.p.attempts, s.p.plan)
  BY <1>3, ReleasedBegins
<1>. HIDE DEF c
<1>5. /\ c.p.queue = w.p.queue /\ c.p.currentIndex = w.p.currentIndex
      /\ c.p.playingState = w.p.playingState /\ c.p.active = TRUE
      /\ c.p.prepared = NoPrepared /\ c.p.attempts = w.p.attempts /\ c.p.plan = w.p.plan
  BY <1>3, <1>4 DEF PlayerLike, PlayerIs
<1>6. /\ index \in Int /\ 0 \in Int /\ index \in Indices(queue) /\ IndexIn(queue, index)
  BY DEF IndexIn, Indices
<1>7. shared.queue = queue /\ shared.currentIndex = index
  BY DEF Brings
<1>. HIDE DEF index
<1>8. c \in Worlds /\ Sound(c) /\ Calm(c)
  BY <1>4 DEF Begins, Sound
<1>9. /\ WorldIs(q, c.saved, c.refused, c.taken) /\ q.b = c.b
      /\ PlayerIs(q.p, queue, index, c.p.playingState, c.p.resume, c.p.active, c.p.prepared,
                  c.p.attempts, c.p.plan)
  BY <1>6, <1>8, QueueWorld
<1>. HIDE DEF q
<1>10. PlayerIs(p, queue, index, c.p.playingState, Nothing, c.p.active, c.p.prepared,
                c.p.attempts, c.p.plan)
  BY <1>9, Values DEF Player, PlayerIs
<1>. HIDE DEF p
<1>11. /\ a \in Worlds /\ a.saved = c.saved /\ a.b = c.b
       /\ PlayerIs(a.p, queue, index, c.p.playingState, Nothing, c.p.active, NoPrepared,
                   c.p.attempts, c.p.plan)
  <2>1. q \in Worlds /\ p \in Player
    BY <1>9, <1>10 DEF WorldIs, PlayerIs
  <2>2. WorldIs(a, q.saved, q.refused, q.taken) /\ a.p = p /\ a.b = q.b
    BY <2>1, WithPlayer
  <2>. HIDE DEF a
  <2>. QED BY <1>5, <1>9, <1>10, <2>2 DEF WorldIs
<1>. HIDE DEF a
<1>12. SongAt(queue, index) = SongAt(c.p.queue, c.p.currentIndex)
  BY <1>5, <1>7 DEF Preserves
<1>13. Showing(a.p) = Showing(c.p)
  BY <1>5, <1>11 DEF Showing, PlayerIs, Preserves, PlayingOrPaused
<1>14. "recovery" \in windows \/ c.p.plan = NoPlan
  BY <1>5 DEF Relocates
<1>15. Sound(a)
  BY <1>5, <1>6, <1>8, <1>11, <1>12, <1>13, <1>14, QueueEdited
<1>16. Calm(a)
  BY <1>8, <1>11 DEF Calm
<1>17. Sound(t)
  BY <1>1, <1>15, <1>16, SyncGaplessSound
<1>. QED BY <1>17, PersistedDone

LEMMA ApplySharedKeeps ==
  ASSUME NEW w, Begins(w), Relocates(w), NEW queue \in Seq(Entries),
         NEW state \in {"playing", "paused", "stopped"},
         NEW active, MayShow(active, "stopped"), NEW mayPreserve, mayPreserve => w.p.active = TRUE,
         NEW u \in ApplySharedCommand(w,
                     [queue |-> queue, currentIndex |-> Len(queue) - 1, playNextQueueLen |-> 0,
                      position |-> Later, playingState |-> state], active, mayPreserve)
  PROVE  Done(u)
<1>. DEFINE shared == [queue |-> queue, currentIndex |-> Len(queue) - 1, playNextQueueLen |-> 0,
                       position |-> Later, playingState |-> state]
            t == ReplacedAs(w, shared, active, "stopped")
            r == Persist(t)
<1>1. Brings(shared, queue) /\ shared.queue = queue /\ shared.playingState = state
  BY DEF Brings
<1>2. u \in ApplySharedCommand(w, shared, active, mayPreserve)
  OBVIOUS
<1>. HIDE DEF shared
<1>3. \/ /\ mayPreserve /\ active /\ Preserves(w, shared)
         /\ \E v \in SyncGapless(PreservedAs(w, shared, active)) : u = Persist(v)
      \/ queue = <<>> /\ u = Persist(EmptiedAs(w, shared, active))
      \/ /\ queue # <<>> /\ ~active
         /\ u = Persist(ReplacedAs(w, shared, active, state))
      \/ queue # <<>> /\ active /\ u \in Play(r)
      \/ queue # <<>> /\ active /\ u \in Then(Play(r), Pause)
      \/ /\ queue # <<>> /\ active /\ state \notin {"playing", "paused"}
         /\ u = [r EXCEPT !.p.playingState = IF state \in {"stopped", "idle"}
                                             THEN state ELSE @]
  BY <1>1, <1>2, ApplyWorlds
<1>4. CASE /\ mayPreserve /\ active /\ Preserves(w, shared)
           /\ \E v \in SyncGapless(PreservedAs(w, shared, active)) : u = Persist(v)
  <2>1. active = TRUE
    BY <1>4 DEF MayShow
  <2>2. PICK v \in SyncGapless(PreservedAs(w, shared, TRUE)) : u = Persist(v)
    BY <1>4, <2>1
  <2>3. queue # <<>>
    <3>1. Len(queue) - 1 # NoIndex
      BY <1>1, <1>4 DEF Preserves, Brings
    <3>. QED BY <3>1 DEF NoIndex
  <2>4. Done(Persist(v))
    BY <1>1, <1>4, <2>3, PreservedKeeps
  <2>. QED BY <2>2, <2>4
<1>12. CASE queue = <<>> /\ u = Persist(EmptiedAs(w, shared, active))
  <2>. DEFINE empty == [queue |-> queue, currentIndex |-> Len(queue) - 1,
                        playNextQueueLen |-> 0, position |-> AtStart]
  <2>1. Brings(empty, queue) /\ MayShow(active, "idle")
        /\ "idle" \in {"playing", "paused", "stopped", "idle"}
    BY DEF Brings, MayShow
  <2>2. EmptiedAs(w, shared, active) = ReplacedAs(w, empty, active, "idle")
    <3>1. empty.currentIndex = NoIndex /\ shared.currentIndex = NoIndex
      BY <1>1, <1>12 DEF Brings, NoIndex
    <3>2. /\ empty.queue = shared.queue /\ empty.position = AtStart
          /\ empty.playNextQueueLen = shared.playNextQueueLen
      BY <1>1 DEF Brings
    <3>. HIDE DEF empty
    <3>. QED BY <3>1, <3>2 DEF EmptiedAs, ReplacedAs
  <2>. HIDE DEF empty
  <2>3. Replaced(ReplacedAs(w, empty, active, "idle"), queue, "idle")
    BY <2>1, ReplacedKeeps
  <2>. QED BY <1>12, <2>2, <2>3 DEF Replaced
<1>5. CASE ~active /\ u = Persist(ReplacedAs(w, shared, active, state))
  <2>1. MayShow(active, state)
    BY <1>5 DEF MayShow
  <2>2. Replaced(ReplacedAs(w, shared, active, state), queue, state)
    BY <1>1, <2>1, ReplacedKeeps
  <2>. QED BY <1>5, <2>2 DEF Replaced
<1>6. /\ Done(r) /\ r = Persist(t) /\ t \in Worlds /\ t.refused = FALSE /\ t.b.next = NoNext
      /\ t.p.queue = queue /\ t.p.playingState = "stopped"
  <2>1. "stopped" \in {"playing", "paused", "stopped"}
    OBVIOUS
  <2>2. Replaced(ReplacedAs(w, shared, active, "stopped"), queue, "stopped")
    BY <1>1, <2>1, ReplacedKeeps
  <2>. QED BY <2>2 DEF Replaced
<1>. HIDE DEF t
<1>7. r.p = t.p /\ r.b = t.b /\ r.refused = FALSE /\ r \in Worlds /\ r.p \in Player
  BY <1>6, PersistedWorld, WorldFields DEF WorldIs
<1>. HIDE DEF r
<1>8. queue # <<>> => Loadable(r)
  <2>. SUFFICES ASSUME queue # <<>>
                PROVE  Loadable(r)
    OBVIOUS
  <2>1. /\ r.p.playingState = "stopped" /\ r.p.queue = queue /\ r.b.next = NoNext
    BY <1>6, <1>7
  <2>2. /\ IndexIn(r.p.queue, r.p.currentIndex) /\ IndexIn(r.saved.queue, r.saved.currentIndex)
        /\ NextIsPrepared(r) /\ PlanInv(r.p) /\ (r.p.plan = NoPlan <=> r.p.plan.attempt = 0)
    BY <1>6, BeginFields DEF Done
  <2>. QED BY <1>6, <1>7, <2>1, <2>2 DEF Loadable, Done, Begins
<1>9. CASE queue # <<>> /\ u \in Play(r)
  BY <1>8, <1>9, PlayLoads
<1>10. CASE queue # <<>> /\ u \in Then(Play(r), Pause)
  <2>1. PICK v \in Play(r) : u \in (IF v.refused THEN {v} ELSE Pause(v))
    BY <1>10 DEF Then
  <2>2. /\ Done(v) /\ v.refused \in BOOLEAN
        /\ ~v.refused => v.b.events = <<>> /\ v.p.playingState = "playing"
    BY <1>8, <1>10, PlayLoads
  <2>3. CASE v.refused
    BY <2>1, <2>2, <2>3
  <2>4. CASE ~v.refused
    <3>1. Begins(v) /\ Loaded(v)
      BY <2>2, <2>4 DEF Begins, Done, Calm, Loaded, LoadedStates
    <3>. QED BY <2>1, <2>4, <3>1, PauseKeeps
  <2>. QED BY <2>3, <2>4
<1>11. CASE /\ state \notin {"playing", "paused"}
            /\ u = [r EXCEPT !.p.playingState = IF state \in {"stopped", "idle"}
                                                THEN state ELSE @]
  <2>1. state = "stopped" /\ r.p.playingState = "stopped"
    BY <1>6, <1>7, <1>11
  <2>2. u = [r EXCEPT !.p = [r.p EXCEPT !.playingState = "stopped"]]
    BY <1>11, <2>1
  <2>3. [r.p EXCEPT !.playingState = "stopped"] = r.p
    BY <1>7, <2>1 DEF Player
  <2>4. [r EXCEPT !.p = r.p] = r
    BY <1>7 DEF Worlds
  <2>. QED BY <1>6, <2>2, <2>3, <2>4
<1>. QED BY <1>3, <1>4, <1>5, <1>9, <1>10, <1>11, <1>12

-----------------------------------------------------------------------------
\* The steps of the controller.

\* A stream is reloaded as often as the attempts count, and Android reloads none.
CountInv ==
    /\ count.recovered <= player.attempts
    /\ OnAndroid => count.recovered = 0
IInv == TypeOK /\ Done(World) /\ CountInv

LEMMA WorldHere ==
  /\ World.p = player /\ World.b = backend /\ World.saved = saved
  /\ World.refused = FALSE /\ World.taken = <<>>
BY DEF World

LEMMA WorldBegins ==
  ASSUME IInv
  PROVE  /\ World \in Worlds /\ Sound(World) /\ SavedInv(World.p, World.saved)
         /\ World.refused = FALSE /\ reports \in Troubles
         /\ (Calm(World) => Begins(World))
<1>1. Sound(World) /\ SavedInv(World.p, World.saved) /\ reports \in Troubles
  BY DEF IInv, Done, TypeOK
<1>. QED BY <1>1, WorldHere DEF Begins, Sound

\* What a step leaves, once its world is the state.
LEMMA WorldAfter ==
  ASSUME NEW u, Done(u), UNCHANGED <<windows, reports>>,
         player' = u.p, backend' = u.b, saved' = u.saved
  PROVE  Done(World)'
<1>1. World' = [p |-> u.p, b |-> u.b, saved |-> u.saved, refused |-> FALSE, taken |-> <<>>]
  BY DEF World
<1>2. /\ u \in Worlds /\ u.p \in Player /\ u.b \in Backend /\ u.saved \in Saved
      /\ IndexInv(u.p, u.saved) /\ PlanInv(u.p) /\ DesktopInv(u.p)
      /\ NextInv(u.p, u.b, u.b.events, 0) /\ ReadyInv(u.p, u.b, u.b.events, 0)
      /\ RecoveryInv(u.p, u.b, u.b.events, 0) /\ OrderInv(u.p, u.b, u.b.events, 0)
      /\ HeardInv(u.p, u.b, u.b.events, 0) /\ SilentInv(u.p, u.b, u.b.events, 0)
      /\ SavedInv(u.p, u.saved)
  BY DEF Done, Sound, CoreInv, EventInv, StatusInv, Worlds
<1>3. /\ World.p' = u.p /\ World.b' = u.b /\ World.saved' = u.saved
  BY <1>1
<1>4. World' \in Worlds'
  <2>1. Player' = Player /\ Saved' = Saved /\ Backend' = Backend
        /\ Seq(NativeEvents)' = Seq(NativeEvents)
    BY DEF Player, Saved, Backend, NativeEvents
  <2>2. <<>> \in Seq(NativeEvents)
    OBVIOUS
  <2>. QED BY <1>1, <1>2, <2>1, <2>2 DEF Worlds
<1>5. windows' = windows /\ reports' = reports
  OBVIOUS
<1>6. IndexInv(World.p, World.saved)'
  BY <1>2, <1>3 DEF IndexInv
<1>7. PlanInv(World.p)'
  BY <1>2, <1>3, <1>5 DEF PlanInv, OnAndroid
<1>8. DesktopInv(World.p)'
  BY <1>2, <1>3, <1>5 DEF DesktopInv, OnDesktop, NextTarget
<1>9. NextInv(World.p, World.b, World.b.events, 0)'
  BY <1>2, <1>3 DEF NextInv, PreparedActive
<1>10. ReadyInv(World.p, World.b, World.b.events, 0)'
  BY <1>2, <1>3, <1>5 DEF ReadyInv, OnDesktop, Undisturbed, PreparedActive
<1>11. RecoveryInv(World.p, World.b, World.b.events, 0)'
  BY <1>2, <1>3, <1>5 DEF RecoveryInv
<1>12. OrderInv(World.p, World.b, World.b.events, 0)'
  BY <1>2, <1>3, <1>5 DEF OrderInv, Undisturbed, PreparedActive
<1>13. HeardInv(World.p, World.b, World.b.events, 0)'
  BY <1>2, <1>3, <1>5 DEF HeardInv, Undisturbed, Showing, PreparedActive, NextTarget
<1>14. SilentInv(World.p, World.b, World.b.events, 0)'
  BY <1>2, <1>3, <1>5 DEF SilentInv, Undisturbed, Showing, PreparedActive
<1>15. SavedInv(World.p, World.saved)'
  BY <1>2, <1>3, <1>5 DEF SavedInv
<1>. QED BY <1>4, <1>6, <1>7, <1>8, <1>9, <1>10, <1>11, <1>12, <1>13, <1>14, <1>15
         DEF Done, Sound, CoreInv, EventInv, StatusInv

LEMMA TypesAfter ==
  ASSUME TypeOK, NEW u, Done(u), UNCHANGED <<windows, reports>>,
         player' = u.p, backend' = u.b, saved' = u.saved,
         count' \in [calls: 0 .. MaxCalls, troubles: 0 .. MaxTroubles, recovered: Nat]
  PROVE  TypeOK'
<1>1. u.p \in Player /\ u.b \in Backend /\ u.saved \in Saved
  BY DEF Done, Sound, Worlds
<1>2. Backend' = Backend
  BY DEF Backend, NativeEvents
<1>. QED BY <1>1, <1>2 DEF TypeOK

\* A command that may begin leaves what a step must leave.
LEMMA PerformStep ==
  ASSUME IInv, NEW worlds, Begins(World) => \A u \in worlds : Done(u), Perform(worlds)
  PROVE  IInv'
<1>1. PICK u \in worlds : player' = u.p /\ backend' = u.b /\ saved' = u.saved
  BY DEF Perform, Becomes
<1>2. /\ UNCHANGED <<windows, reports>> /\ count.calls < MaxCalls
      /\ count' = [count EXCEPT !.calls = @ + 1, !.recovered = 0]
  BY DEF Perform
<1>3. Calm(World)
  BY WorldHere DEF Perform, Calm
<1>4. Done(u)
  BY <1>1, <1>3, WorldBegins
<1>5. count \in [calls: 0 .. MaxCalls, troubles: 0 .. MaxTroubles, recovered: Nat]
  BY DEF IInv, TypeOK
<1>6. /\ count' \in [calls: 0 .. MaxCalls, troubles: 0 .. MaxTroubles, recovered: Nat]
      /\ count'.recovered = 0
  <2>1. MaxCalls \in Nat /\ count.calls + 1 \in 0 .. MaxCalls /\ 0 \in Nat
    BY <1>2, <1>5, ControllerAssumption
  <2>. QED BY <1>2, <1>5, <2>1
<1>7. TypeOK'
  BY <1>1, <1>2, <1>4, <1>6, TypesAfter DEF IInv
<1>8. Done(World)'
  BY <1>1, <1>2, <1>4, WorldAfter
<1>9. CountInv'
  <2>1. player'.attempts \in 0 .. MaxAttempts
    BY <1>7 DEF TypeOK, Player
  <2>. QED BY <1>6, <2>1 DEF CountInv, MaxAttempts
<1>. QED BY <1>7, <1>8, <1>9 DEF IInv

LEMMA RelocationStep ==
  ASSUME IInv, NEW worlds,
         Begins(World) /\ Relocates(World) => \A u \in worlds : Done(u), Relocation(worlds)
  PROVE  IInv'
<1>1. Relocates(World) /\ Perform(worlds)
  BY WorldHere DEF Relocation, Recovering, Relocates
<1>. QED BY <1>1, PerformStep

LEMMA QueuesAre ==
  ASSUME NEW queue \in Queues
  PROVE  queue \in Seq(Entries)
BY ControllerAssumption

LEMMA SetQueueOrPositionStep ==
  ASSUME IInv, SetQueueOrPosition
  PROVE  IInv'
<1>1. CASE \E queue \in Queues : \E index \in Indices(queue) \cup {NoIndex} :
              Perform(SetQueueCommand(World, queue, index))
  <2>1. PICK queue \in Queues : \E index \in Indices(queue) \cup {NoIndex} :
              Perform(SetQueueCommand(World, queue, index))
    BY <1>1
  <2>2. PICK index \in Indices(queue) \cup {NoIndex} :
              Perform(SetQueueCommand(World, queue, index))
    BY <2>1
  <2>3. queue \in Seq(Entries)
    BY QueuesAre
  <2>4. Begins(World) => \A u \in SetQueueCommand(World, queue, index) : Done(u)
    BY <2>3, SetQueueCommandKeeps
  <2>. QED BY <2>2, <2>4, PerformStep
<1>2. CASE Perform(ClearQueueCommand(World))
  <2>1. Begins(World) => \A u \in ClearQueueCommand(World) : Done(u)
    BY ClearQueueKeeps
  <2>. QED BY <1>2, <2>1, PerformStep
<1>3. CASE \E position \in Positions : Perform(SetPosition(World, position))
  <2>1. PICK position \in Positions : Perform(SetPosition(World, position))
    BY <1>3
  <2>2. Begins(World) => \A u \in SetPosition(World, position) : Done(u)
    BY SetPositionKeeps DEF Positions
  <2>. QED BY <2>1, <2>2, PerformStep
<1>. QED BY <1>1, <1>2, <1>3 DEF SetQueueOrPosition

LEMMA EditQueueStep ==
  ASSUME IInv, EditQueue
  PROVE  IInv'
<1>. DEFINE n == Len(player.queue)
<1>1. /\ World.p = player /\ player.active = TRUE
      /\ player.queue \in Seq(Entries) /\ n \in Nat
      /\ Below(n) = Indices(player.queue)
  <2>1. player \in Player
    BY DEF IInv, TypeOK
  <2>2. player.active \in BOOLEAN /\ player.queue \in Seq(Entries)
    BY <2>1, PlayerFields
  <2>. QED BY <2>2, WorldHere DEF EditQueue, Here, Below, Indices
<1>2. CASE \E entry \in Entries \ Range(player.queue) :
              \/ Perform(InsertCommand(World, <<entry>>))
              \/ Perform(AppendCommand(World, <<entry>>))
  <2>1. PICK entry \in Entries : \/ Perform(InsertCommand(World, <<entry>>))
                                 \/ Perform(AppendCommand(World, <<entry>>))
    BY <1>2
  <2>2. <<entry>> \in Seq(Entries) /\ <<entry>> # <<>>
    OBVIOUS
  <2>3. Begins(World) => \A u \in InsertCommand(World, <<entry>>) : Done(u)
    BY <1>1, <2>2, InsertKeeps
  <2>4. Begins(World) => \A u \in AppendCommand(World, <<entry>>) : Done(u)
    BY <1>1, <2>2, AppendKeeps
  <2>. QED BY <2>1, <2>3, <2>4, PerformStep
<1>3. CASE \E i \in Below(n), before \in 0 .. n : Relocation(MoveCommand(World, {i}, before))
  <2>1. PICK i \in Below(n), before \in 0 .. n : Relocation(MoveCommand(World, {i}, before))
    BY <1>3
  <2>2. {i} \in SUBSET Indices(World.p.queue) /\ before \in 0 .. Len(World.p.queue)
    BY <1>1
  <2>3. Begins(World) /\ Relocates(World)
          => \A u \in MoveCommand(World, {i}, before) : Done(u)
    BY <1>1, <2>2, MoveKeeps
  <2>. QED BY <2>1, <2>3, RelocationStep
<1>4. CASE \E i \in Below(n) : Relocation(RemoveIndexCommand(World, i))
  <2>1. PICK i \in Below(n) : Relocation(RemoveIndexCommand(World, i))
    BY <1>4
  <2>2. i \in Indices(World.p.queue)
    BY <1>1
  <2>3. Begins(World) /\ Relocates(World) => \A u \in RemoveIndexCommand(World, i) : Done(u)
    BY <1>1, <2>2, RemoveIndexKeeps
  <2>. QED BY <2>1, <2>3, RelocationStep
<1>5. CASE \E removing \in SUBSET Below(n) :
              removing # {} /\ Relocation(RemoveIndicesCommand(World, removing))
  <2>1. PICK removing \in SUBSET Below(n) :
              Relocation(RemoveIndicesCommand(World, removing))
    BY <1>5
  <2>2. removing \in SUBSET Indices(World.p.queue)
    BY <1>1
  <2>3. Begins(World) /\ Relocates(World)
          => \A u \in RemoveIndicesCommand(World, removing) : Done(u)
    BY <1>1, <2>2, RemoveIndicesKeeps
  <2>. QED BY <2>1, <2>3, RelocationStep
<1>. QED BY <1>2, <1>3, <1>4, <1>5 DEF EditQueue

LEMMA PlayOrPauseStep ==
  ASSUME IInv, PlayOrPause
  PROVE  IInv'
<1>1. CASE Perform(Play(World))
  <2>1. Begins(World) => \A u \in Play(World) : Done(u)
    BY PlayKeeps
  <2>. QED BY <1>1, <2>1, PerformStep
<1>2. CASE ("stall" \in windows \/ Loaded(World)) /\ Perform(Pause(World))
  <2>1. Begins(World) => \A u \in Pause(World) : Done(u)
    BY <1>2, PauseKeeps
  <2>. QED BY <1>2, <2>1, PerformStep
<1>. QED BY <1>1, <1>2 DEF PlayOrPause

LEMMA StopPlayingStep ==
  ASSUME IInv, StopPlaying
  PROVE  IInv'
<1>1. Begins(World) => \A u \in Stop(World) : Done(u)
  BY StopKeeps
<1>. QED BY <1>1, PerformStep DEF StopPlaying

LEMMA HereNotStalled ==
  ASSUME "stall" \in windows \/ ~Stalled
  PROVE  NotStalled(World)
BY WorldHere DEF NotStalled, Stalled, Recovering

LEMMA SeekStep ==
  ASSUME IInv, Seek
  PROVE  IInv'
<1>1. PICK position \in Positions : Perform(SeekCommand(World, position))
  BY DEF Seek
<1>2. NotStalled(World)
  BY HereNotStalled DEF Seek
<1>3. Begins(World) => \A u \in SeekCommand(World, position) : Done(u)
  BY <1>2, SeekKeeps DEF Positions
<1>. QED BY <1>1, <1>3, PerformStep

LEMMA PlayQueueIndexStep ==
  ASSUME IInv, PlayQueueIndexHere
  PROVE  IInv'
<1>1. PICK i \in Below(Len(player.queue)) : Relocation(PlayQueueIndexCommand(World, i))
  BY DEF PlayQueueIndexHere
<1>2. Begins(World) /\ Relocates(World) => \A u \in PlayQueueIndexCommand(World, i) : Done(u)
  BY PlayQueueIndexKeeps
<1>. QED BY <1>1, <1>2, RelocationStep

LEMMA SkipStep ==
  ASSUME IInv, Skip
  PROVE  IInv'
<1>1. NotStalled(World)
  BY HereNotStalled DEF Skip
<1>2. Begins(World) /\ Relocates(World) => \A u \in NextCommand(World) : Done(u)
  BY <1>1, NextKeeps
<1>3. Begins(World) /\ Relocates(World) => \A u \in PrevCommand(World) : Done(u)
  BY <1>1, PrevKeeps
<1>. QED BY <1>2, <1>3, RelocationStep DEF Skip

LEMMA ChangeSettingsStep ==
  ASSUME IInv, ChangeSettings
  PROVE  IInv'
<1>1. Begins(World) => \A u \in SetOutputDevice(World) : Done(u)
  BY SetOutputDeviceKeeps
<1>2. Begins(World) => \A u \in SetGapless(World) : Done(u)
  BY SetGaplessKeeps
<1>3. Begins(World) => \A u \in SetStreamSettings(World) : Done(u)
  BY SetStreamSettingsKeeps
<1>. QED BY <1>1, <1>2, <1>3, PerformStep DEF ChangeSettings

LEMMA LogInAgainStep ==
  ASSUME IInv, LogInAgain
  PROVE  IInv'
<1>1. Begins(World) /\ Relocates(World) => \A u \in SwitchProfile(World) : Done(u)
  BY SwitchProfileKeeps DEF Relocates
<1>. QED BY <1>1, RelocationStep DEF LogInAgain

LEMMA ApplySharedStep ==
  ASSUME IInv, ApplyShared
  PROVE  IInv'
<1>1. PICK queue \in Queues, state \in {"playing", "paused", "stopped"},
           active \in BOOLEAN, mayPreserve \in BOOLEAN :
        /\ mayPreserve => player.active /\ active
        /\ Relocation(ApplySharedCommand(World,
              [queue |-> queue, currentIndex |-> Len(queue) - 1, playNextQueueLen |-> 0,
               position |-> Later, playingState |-> state], active, mayPreserve))
  BY DEF ApplyShared
<1>2. queue \in Seq(Entries) /\ MayShow(active, "stopped")
  BY QueuesAre DEF MayShow
<1>3. mayPreserve => World.p.active = TRUE
  <2>1. player.active \in BOOLEAN
    BY DEF IInv, TypeOK, Player
  <2>. QED BY <1>1, <2>1, WorldHere
<1>4. Begins(World) /\ Relocates(World)
        => \A u \in ApplySharedCommand(World,
              [queue |-> queue, currentIndex |-> Len(queue) - 1, playNextQueueLen |-> 0,
               position |-> Later, playingState |-> state], active, mayPreserve) : Done(u)
  BY <1>1, <1>2, <1>3, ApplySharedKeeps
<1>. QED BY <1>1, <1>4, RelocationStep

\* What processing events, or a poll of the status, may change.
Dispatched(u, w) ==
    /\ Sound(u) /\ u.p.queue = w.p.queue /\ u.saved = w.saved
    /\ OnDesktop /\ u.p.currentIndex = w.p.currentIndex
         => w.p.attempts + Recovered(w.p.plan, u.p.plan) <= u.p.attempts

LEMMA PollWorlds ==
  ASSUME NEW w, NEW u \in Poll(w)
  PROVE  \E t \in ProcessEvents(w, TRUE) :
            \/ u = t
            \/ ~t.refused /\ u = SyncPosition(t)
            \/ ~t.refused /\ ~SyncPosition(t).refused /\ u \in SyncGapless(SyncPosition(t))
<1>. DEFINE rest(t) == Then({SyncPosition(t)}, SyncGapless)
<1>1. PICK t \in ProcessEvents(w, TRUE) : u \in (IF t.refused THEN {t} ELSE rest(t))
  BY DEF Poll, Then
<1>2. u \in rest(t)
        => u \in (IF SyncPosition(t).refused THEN {SyncPosition(t)}
                  ELSE SyncGapless(SyncPosition(t)))
  BY DEF Then
<1>. HIDE DEF rest
<1>. QED BY <1>1, <1>2

LEMMA PollKeeps ==
  ASSUME NEW w, Sound(w), w.refused = FALSE, reports \in Troubles, NEW u \in Poll(w)
  PROVE  Dispatched(u, w)
<1>1. PICK t \in ProcessEvents(w, TRUE) :
            \/ u = t
            \/ ~t.refused /\ u = SyncPosition(t)
            \/ ~t.refused /\ ~SyncPosition(t).refused /\ u \in SyncGapless(SyncPosition(t))
  BY PollWorlds
<1>2. Processed(t, w)
  BY ProcessKeeps
<1>3. Sound(t) /\ t.b.events = <<>> /\ t.refused \in BOOLEAN
  BY <1>2, WorldFields DEF Processed
<1>. DEFINE s == SyncPosition(t)
<1>4. CASE u = t
  BY <1>2, <1>4 DEF Processed, Dispatched
<1>5. ~t.refused => /\ Sound(s) /\ PlayerLike(s.p, t.p) /\ s.saved = t.saved /\ s.b = t.b
  BY <1>3, SyncedSound
<1>6. CASE ~t.refused /\ u = s
  BY <1>2, <1>5, <1>6 DEF Processed, Dispatched, PlayerLike, PlayerIs
<1>7. CASE ~t.refused /\ u \in SyncGapless(s)
  <2>1. Calm(s)
    BY <1>3, <1>5, <1>7 DEF Calm
  <2>. HIDE DEF s
  <2>2. Sound(u) /\ PreparationOnly(u, s)
    BY <1>5, <1>7, <2>1, SyncGaplessSound
  <2>3. /\ u.p.queue = t.p.queue /\ u.p.currentIndex = t.p.currentIndex /\ u.saved = t.saved
        /\ u.p.attempts = t.p.attempts /\ u.p.plan = t.p.plan
    BY <1>5, <1>7, <2>2 DEF PreparationOnly, PlayerLike, PlayerIs
  <2>. QED BY <1>2, <2>2, <2>3 DEF Processed, Dispatched
<1>. QED BY <1>1, <1>4, <1>6, <1>7

LEMMA DispatchStep ==
  ASSUME IInv, NEW worlds, \A u \in worlds : Dispatched(u, World), Dispatch(worlds)
  PROVE  IInv'
<1>1. PICK u \in worlds : player' = u.p /\ backend' = u.b /\ saved' = u.saved
  BY DEF Dispatch, Becomes
<1>2. /\ UNCHANGED <<windows, reports>>
      /\ count' = [count EXCEPT !.recovered =
                      IF player'.currentIndex # player.currentIndex THEN 0
                      ELSE @ + Recovered(player.plan, player'.plan)]
  BY DEF Dispatch
<1>3. Dispatched(u, World)
  BY <1>1
<1>4. Done(u)
  BY <1>3, WorldBegins DEF Dispatched, Done, SavedInv
<1>5. count \in [calls: 0 .. MaxCalls, troubles: 0 .. MaxTroubles, recovered: Nat]
  BY DEF IInv, TypeOK
<1>6. Recovered(player.plan, player'.plan) \in {0, 1}
  BY DEF Recovered
<1>7. /\ count'.recovered = IF player'.currentIndex # player.currentIndex THEN 0
                            ELSE count.recovered + Recovered(player.plan, player'.plan)
      /\ count'.calls = count.calls /\ count'.troubles = count.troubles
      /\ count.recovered \in Nat /\ count'.recovered \in Nat
  BY <1>2, <1>5, <1>6
<1>8. count' \in [calls: 0 .. MaxCalls, troubles: 0 .. MaxTroubles, recovered: Nat]
  BY <1>2, <1>5, <1>7
<1>9. TypeOK'
  BY <1>1, <1>2, <1>4, <1>8, TypesAfter DEF IInv
<1>10. Done(World)'
  BY <1>1, <1>2, <1>4, WorldAfter
<1>11. OnDesktop \/ OnAndroid
  BY ControllerAssumption, WorldBegins DEF OnDesktop, OnAndroid
<1>12. player'.attempts \in 0 .. MaxAttempts /\ player.attempts \in 0 .. MaxAttempts
  BY <1>9 DEF IInv, TypeOK, Player
<1>13. OnAndroid => player.plan = NoPlan
  BY WorldBegins, WorldHere, BeginFields DEF PlanInv
<1>14. CountInv'
  <2>1. CASE player'.currentIndex # player.currentIndex
    BY <1>7, <1>12, <2>1 DEF CountInv, MaxAttempts
  <2>2. CASE player'.currentIndex = player.currentIndex
    <3>1. OnAndroid => count'.recovered = 0
      <4>1. OnAndroid => Recovered(player.plan, player'.plan) = 0
        BY <1>13 DEF Recovered
      <4>. QED BY <1>7, <2>2, <4>1 DEF IInv, CountInv
    <3>2. OnDesktop => count'.recovered <= player'.attempts
      <4>1. OnDesktop => player.attempts + Recovered(player.plan, player'.plan)
                          <= player'.attempts
        BY <1>1, <1>3, <2>2, WorldHere DEF Dispatched
      <4>2. count.recovered <= player.attempts
        BY DEF IInv, CountInv
      <4>. QED BY <1>6, <1>7, <1>12, <2>2, <4>1, <4>2 DEF MaxAttempts
    <3>3. OnAndroid => count'.recovered <= player'.attempts
      BY <1>12, <3>1 DEF MaxAttempts
    <3>4. OnAndroid' = OnAndroid
      BY <1>2 DEF OnAndroid
    <3>. QED BY <1>11, <3>1, <3>2, <3>3, <3>4 DEF CountInv
  <2>. QED BY <2>1, <2>2
<1>. QED BY <1>9, <1>10, <1>14 DEF IInv

LEMMA ProcessNativeEventsStep ==
  ASSUME IInv, ProcessNativeEvents
  PROVE  IInv'
<1>1. ASSUME NEW u \in ProcessEvents(World, TRUE)
      PROVE  Dispatched(u, World)
  BY WorldBegins, ProcessKeeps DEF Processed, Dispatched
<1>. QED BY <1>1, DispatchStep DEF ProcessNativeEvents

LEMMA PollStateStep ==
  ASSUME IInv, PollState
  PROVE  IInv'
<1>1. ASSUME NEW u \in Poll(World)
      PROVE  Dispatched(u, World)
  BY WorldBegins, PollKeeps
<1>. QED BY <1>1, DispatchStep DEF PollState

\* The app starts: what the state file held is shown, and nothing is heard.
LEMMA StartedSound ==
  ASSUME NEW file \in Saved, IndexIn(file.queue, file.currentIndex),
         NEW u, u = [p |-> Restored(file), b |-> SilentBackend, saved |-> file,
                     refused |-> FALSE, taken |-> <<>>]
  PROVE  Done(u)
<1>. DEFINE p == Restored(file)
            b == SilentBackend
<1>1. PlayerIs(p, file.queue, file.currentIndex, StoppedOrIdle(file.queue), Nothing, TRUE,
               NoPrepared, 0, NoPlan)
  BY RestoredPlayer
<1>2. b \in Backend /\ b.heard = NoEntry /\ b.next = NoNext /\ b.events = <<>>
  <2>1. <<>> \in Seq(NativeEvents)
    OBVIOUS
  <2>. QED BY <2>1, Values DEF SilentBackend, Backend, AtStart
<1>. HIDE DEF p, b
<1>3. /\ u \in Worlds /\ u.p = p /\ u.b = b /\ u.saved = file
  <2>1. <<>> \in Seq(NativeEvents)
    OBVIOUS
  <2>2. u = [p |-> p, b |-> b, saved |-> file, refused |-> FALSE, taken |-> <<>>]
    BY DEF p, b
  <2>. QED BY <1>1, <1>2, <2>1, <2>2 DEF PlayerIs, Worlds
<1>4. /\ u.p.queue = file.queue /\ u.p.currentIndex = file.currentIndex
      /\ u.p.playingState \in {"stopped", "idle"} /\ u.p.plan = NoPlan
      /\ u.p.prepared = NoPrepared
  BY <1>1, <1>3 DEF PlayerIs, StoppedOrIdle
<1>5. Showing(u.p) \notin ShowingStates
  BY <1>4 DEF Showing, ShowingStates
<1>6. PlanInv(u.p) /\ (u.p.plan = NoPlan <=> u.p.plan.attempt = 0)
  BY <1>4, Values DEF PlanInv
<1>7. Sound(u)
  BY <1>2, <1>3, <1>4, <1>5, <1>6, QuietSound
<1>8. SavedInv(u.p, u.saved)
  BY <1>3, <1>4 DEF SavedInv
<1>. QED BY <1>7, <1>8 DEF Done

LEMMA RestartStep ==
  ASSUME IInv, Restart
  PROVE  IInv'
<1>. DEFINE empty == [queue |-> <<>>, currentIndex |-> NoIndex, playNextQueueLen |-> 0,
                      position |-> AtStart]
            kept == Persist(IF Playing(World) THEN SyncIfPossible(World) ELSE World)
<1>1. /\ saved' \in {saved, kept.saved, empty} /\ player' = Restored(saved')
      /\ backend' = SilentBackend
      /\ UNCHANGED <<windows, reports>> /\ count.calls < MaxCalls
      /\ count' = [count EXCEPT !.calls = @ + 1, !.recovered = 0]
  BY DEF Restart
<1>2. empty \in Saved /\ IndexIn(empty.queue, empty.currentIndex)
  BY DEF Saved, IndexIn, NoIndex, AtStart
<1>3. saved \in Saved /\ IndexIn(saved.queue, saved.currentIndex)
  BY WorldBegins, WorldHere, BeginFields
<1>4. kept.saved \in Saved /\ IndexIn(kept.saved.queue, kept.saved.currentIndex)
  <2>. DEFINE s == IF Playing(World) THEN SyncIfPossible(World) ELSE World
  <2>1. Sound(s)
    BY WorldBegins, SyncedSound
  <2>. HIDE DEF s
  <2>2. Done(Persist(s))
    BY <2>1, PersistedDone
  <2>3. Sound(kept)
    BY <2>2 DEF Done, s
  <2>. HIDE DEF kept
  <2>. QED BY <2>3, BeginFields
<1>. HIDE DEF empty, kept
<1>5. saved' \in Saved /\ IndexIn(saved'.queue, saved'.currentIndex)
  BY <1>1, <1>2, <1>3, <1>4
<1>. DEFINE u == [p |-> Restored(saved'), b |-> SilentBackend, saved |-> saved',
                  refused |-> FALSE, taken |-> <<>>]
<1>6. Done(u)
  BY <1>5, StartedSound
<1>7. player' = u.p /\ backend' = u.b /\ saved' = u.saved
  BY <1>1
<1>. HIDE DEF u
<1>8. count \in [calls: 0 .. MaxCalls, troubles: 0 .. MaxTroubles, recovered: Nat]
  BY DEF IInv, TypeOK
<1>9. /\ count' \in [calls: 0 .. MaxCalls, troubles: 0 .. MaxTroubles, recovered: Nat]
      /\ count'.recovered = 0
  <2>1. MaxCalls \in Nat /\ count.calls + 1 \in 0 .. MaxCalls /\ 0 \in Nat
    BY <1>1, <1>8, ControllerAssumption
  <2>. QED BY <1>1, <1>8, <2>1
<1>10. TypeOK'
  BY <1>1, <1>6, <1>7, <1>9, TypesAfter DEF IInv
<1>11. Done(World)'
  BY <1>1, <1>6, <1>7, WorldAfter
<1>12. CountInv'
  <2>1. player'.attempts \in 0 .. MaxAttempts
    BY <1>10 DEF TypeOK, Player
  <2>. QED BY <1>9, <2>1 DEF CountInv, MaxAttempts
<1>. QED BY <1>10, <1>11, <1>12 DEF IInv

LEMMA ControllerInit ==
  ASSUME Init
  PROVE  IInv
<1>1. PICK queue \in Queues :
         saved = [queue |-> queue, currentIndex |-> IF queue = <<>> THEN NoIndex ELSE 0,
                  playNextQueueLen |-> 0, position |-> AtStart]
  BY DEF Init
<1>2. saved \in Saved /\ IndexIn(saved.queue, saved.currentIndex)
  <2>1. queue \in Seq(Entries) /\ (queue # <<>> => 0 \in Indices(queue))
    BY QueuesAre DEF Indices
  <2>. QED BY <1>1, <2>1 DEF Saved, IndexIn, NoIndex, AtStart
<1>3. /\ player = Restored(saved) /\ backend = SilentBackend
      /\ windows \subseteq Windows /\ reports \in Troubles
      /\ count = [calls |-> 0, troubles |-> 0, recovered |-> 0]
  BY DEF Init
<1>4. Done(World)
  BY <1>2, <1>3, StartedSound DEF World
<1>5. player \in Player /\ backend \in Backend
  BY <1>4, WorldHere DEF Done, Sound, Worlds
<1>6. TypeOK
  BY <1>2, <1>3, <1>5, ControllerAssumption DEF TypeOK
<1>7. CountInv
  <2>1. player.attempts \in 0 .. MaxAttempts
    BY <1>5 DEF Player
  <2>. QED BY <1>3, <2>1 DEF CountInv, MaxAttempts
<1>. QED BY <1>4, <1>6, <1>7 DEF IInv

-----------------------------------------------------------------------------
\* The steps of the backend.

\* The events of two backends, of which the second tells one more.
Tells(b, old, q, r, n, event) ==
    /\ old.events = q /\ b.events = r /\ b \in Backend
    /\ Longer(r, q, n, event) /\ event.stale = FALSE

\* The second tells an event of that kind.
TellsOf(b, old, kind, heard, paused, ended, next) ==
    /\ Tells(b, old, old.events, b.events, Len(old.events) + 1, [kind |-> kind, stale |-> FALSE])
    /\ b.heard = heard /\ b.paused = paused /\ b.ended = ended /\ b.next = next

LEMMA PushedTells ==
  ASSUME NEW old \in Backend, NEW c, [c EXCEPT !.events = old.events] \in Backend,
         c.events = old.events, NEW kind,
         kind \in {"prepared", "failed", "transition", "ended", "seek"} \cup reports,
         NEW heard, NEW paused, NEW ended, NEW next,
         BackendIs(c, heard, paused, ended, next, old.events),
         NEW b, b = Pushed(c, kind)
  PROVE  TellsOf(b, old, kind, heard, paused, ended, next)
<1>. DEFINE event == [kind |-> kind, stale |-> FALSE]
            q == old.events
            r == Append(q, event)
            n == Len(q) + 1
<1>1. event \in NativeEvents /\ event.kind = kind /\ event.stale = FALSE
  BY DEF NativeEvents
<1>2. q \in Seq(NativeEvents) /\ c \in Backend /\ c.events = q
  BY BackendFields DEF BackendIs
<1>3. b = [c EXCEPT !.events = r]
  BY <1>2 DEF Pushed
<1>. HIDE DEF event
<1>4. r \in Seq(NativeEvents) /\ Longer(r, q, n, event)
  BY <1>1, <1>2, AppendWaits
<1>. HIDE DEF r, n, q
<1>5. /\ b \in Backend /\ b.events = r
      /\ b.heard = heard /\ b.paused = paused /\ b.ended = ended /\ b.next = next
  BY <1>2, <1>3, <1>4 DEF Backend, BackendIs
<1>6. Tells(b, old, q, r, n, event)
  BY <1>1, <1>4, <1>5 DEF Tells, q
<1>. QED BY <1>1, <1>5, <1>6 DEF TellsOf, event, q, n

\* The parts of the invariant that no event concerns but those they name.
LEMMA EventsPart ==
  ASSUME NEW p, NEW b, NEW q, EventInv(p, b, q, 0)
  PROVE  /\ NextInv(p, b, q, 0) /\ ReadyInv(p, b, q, 0) /\ RecoveryInv(p, b, q, 0)
         /\ OrderInv(p, b, q, 0) /\ HeardInv(p, b, q, 0) /\ SilentInv(p, b, q, 0)
BY DEF EventInv, StatusInv

\* What is prepared has been prepared, or has failed to be.
LEMMA PreparedTold ==
  ASSUME NEW p, NEW old, NEW b, NEW q, NEW r, NEW n, NEW event,
         Tells(b, old, q, r, n, event), EventInv(p, old, q, 0),
         old \in Backend, old.next.state = "preparing",
         b.heard = old.heard, b.paused = old.paused, b.ended = old.ended,
         \/ /\ event.kind = "prepared"
            /\ b.next.entry = old.next.entry /\ b.next.state \in {"stored", "installed"}
         \/ event.kind = "failed" /\ b.next = NoNext
  PROVE  EventInv(p, b, r, 0)
<1>1. /\ Longer(r, q, n, event) /\ event.stale = FALSE
      /\ event.kind \in {"prepared", "failed"}
  BY DEF Tells
<1>2. /\ NextInv(p, old, q, 0) /\ ReadyInv(p, old, q, 0) /\ RecoveryInv(p, old, q, 0)
      /\ OrderInv(p, old, q, 0) /\ HeardInv(p, old, q, 0) /\ SilentInv(p, old, q, 0)
  BY EventsPart
<1>3. old.next # NoNext /\ old.next.entry # NoEntry
  BY <1>2, Values DEF NextInv, Nothing
<1>4. \A kinds \in {PlayerKinds, EndKinds, Deciding, {"transition"}, {"ended"}} :
         Waits(r, 0, kinds) <=> Waits(q, 0, kinds)
  BY <1>1 DEF Longer, PlayerKinds, EndKinds, Deciding
<1>5. b.next = NoNext <=> b.next.entry = NoEntry
  BY <1>3, Values
<1>6. b.next = NoNext <=> b.next.state = Nothing
  BY Values DEF Nothing
<1>7. NextInv(p, b, r, 0)
  BY <1>1, <1>2, <1>3, <1>5, <1>6 DEF NextInv, Longer
<1>8. ReadyInv(p, b, r, 0)
  <2>1. event.kind = "failed" => WaitsFresh(r, 0, "failed")
    BY <1>1 DEF Longer
  <2>2. b.next # NoNext => b.next.state \in {"stored", "installed"}
    OBVIOUS
  <2>3. event.kind = "prepared" => b.next # NoNext
    BY <1>6 DEF Nothing
  <2>. QED BY <1>1, <2>1, <2>2, <2>3 DEF ReadyInv
<1>9. RecoveryInv(p, b, r, 0)
  <2>1. "recovery" \notin windows => ErrorsEnd(r, 0)
    BY <1>1, <1>2 DEF RecoveryInv, ErrorsEnd, Longer
  <2>. QED BY <1>2, <1>4, <2>1 DEF RecoveryInv
<1>10. OrderInv(p, b, r, 0)
  <2>. SUFFICES ASSUME Undisturbed PROVE OrderInv(p, b, r, 0)
    BY DEF OrderInv
  <2>1. /\ \A k, l \in Waiting(q, 0) : k < l /\ q[k].kind \in EndKinds
              => q[l].kind \notin PlayerKinds \cup EndKinds \cup {"transition"}
        /\ \A k, l \in Waiting(q, 0) : k < l /\ q[k].kind = "transition"
              => q[l].kind # "transition"
        /\ PreparedActive(p) /\ ~Waits(q, 0, {"transition"})
        /\ (Waits(q, 0, EndKinds) => old.ended)
    BY <1>2, <1>3 DEF OrderInv
  <2>2. event.kind \notin PlayerKinds \cup EndKinds \cup {"transition"}
    BY <1>1 DEF PlayerKinds, EndKinds
  <2>3. \A k, l \in Waiting(r, 0) : k < l /\ r[k].kind \in EndKinds
              => r[l].kind \notin PlayerKinds \cup EndKinds \cup {"transition"}
    BY <1>1, <2>1, <2>2 DEF Longer
  <2>4. \A k, l \in Waiting(r, 0) : k < l /\ r[k].kind = "transition"
              => r[l].kind # "transition"
    BY <1>1, <2>1, <2>2 DEF Longer
  <2>. QED BY <1>4, <2>1, <2>3, <2>4 DEF OrderInv
<1>11. HeardInv(p, b, r, 0)
  <2>. SUFFICES ASSUME Undisturbed, p.active, Showing(p) \in ShowingStates
                PROVE  HeardInv(p, b, r, 0)
    BY DEF HeardInv
  <2>1. ~Waits(r, 0, {"transition"})
    BY <1>2, <1>3, <1>4 DEF OrderInv
  <2>2. event.kind \notin Deciding
    BY <1>1 DEF Deciding
  <2>3. \A k \in Waiting(r, 0) :
            r[k].kind \in Deciding
              /\ (\A l \in Waiting(r, 0) : l > k => r[l].kind \notin Deciding)
              => b.paused = (r[k].kind = "paused")
    BY <1>1, <1>2, <2>2 DEF HeardInv, Longer
  <2>4. b.ended => Waits(r, 0, EndKinds)
    BY <1>2, <1>4 DEF HeardInv
  <2>. QED BY <1>2, <1>4, <2>1, <2>3, <2>4 DEF HeardInv
<1>12. SilentInv(p, b, r, 0)
  BY <1>2, <1>4 DEF SilentInv
<1>. QED BY <1>7, <1>8, <1>9, <1>10, <1>11, <1>12 DEF EventInv, StatusInv

\* The track that was installed is handed over to.
LEMMA TransitionTold ==
  ASSUME NEW p, NEW old, NEW b, NEW q, NEW r, NEW n, NEW event,
         Tells(b, old, q, r, n, event), EventInv(p, old, q, 0), event.kind = "transition",
         old.heard # NoEntry, old.paused = FALSE, old.next.state = "installed",
         "events" \in windows \/ old.ended = FALSE,
         b.heard = old.next.entry, b.paused = FALSE, b.ended = FALSE, b.next = NoNext
  PROVE  EventInv(p, b, r, 0)
<1>1. Longer(r, q, n, event) /\ event.stale = FALSE
  BY DEF Tells
<1>2. /\ NextInv(p, old, q, 0) /\ ReadyInv(p, old, q, 0) /\ RecoveryInv(p, old, q, 0)
      /\ OrderInv(p, old, q, 0) /\ HeardInv(p, old, q, 0) /\ SilentInv(p, old, q, 0)
  BY EventsPart
<1>3. old.next # NoNext /\ old.next.entry # NoEntry
  BY <1>2, Values DEF NextInv, Nothing
<1>4. Waits(r, 0, {"transition"}) /\ Waits(r, 0, Deciding)
  BY <1>1 DEF Longer, Deciding
<1>5. \A kinds \in {PlayerKinds, EndKinds, {"ended"}} : Waits(r, 0, kinds) <=> Waits(q, 0, kinds)
  BY <1>1 DEF Longer, PlayerKinds, EndKinds
<1>6. NextInv(p, b, r, 0)
  BY Values DEF NextInv
<1>7. ReadyInv(p, b, r, 0)
  BY <1>4 DEF ReadyInv
<1>8. RecoveryInv(p, b, r, 0)
  <2>1. p.plan = NoPlan
    BY <1>2 DEF RecoveryInv
  <2>2. "recovery" \notin windows => ErrorsEnd(r, 0)
    BY <1>1, <1>2 DEF RecoveryInv, ErrorsEnd, Longer
  <2>. QED BY <2>1, <2>2 DEF RecoveryInv
<1>9. Undisturbed => /\ old.ended = FALSE /\ PreparedActive(p)
                     /\ ~Waits(q, 0, {"transition"}) /\ ~Waits(q, 0, EndKinds)
  <2>1. Undisturbed => old.ended = FALSE
    BY DEF Undisturbed
  <2>. QED BY <1>2, <1>3, <2>1 DEF OrderInv
<1>10. OrderInv(p, b, r, 0)
  <2>. SUFFICES ASSUME Undisturbed PROVE OrderInv(p, b, r, 0)
    BY DEF OrderInv
  <2>1. /\ \A k \in Waiting(r, 0) : r[k].kind \notin EndKinds
        /\ \A k \in Waiting(r, 0) : r[k].kind = "transition" => k = n
    <3>1. \A k \in Waiting(q, 0) : q[k].kind \notin EndKinds /\ q[k].kind # "transition"
      BY <1>9 DEF Waits
    <3>2. event.kind \notin EndKinds
      BY DEF EndKinds
    <3>. QED BY <1>1, <3>1, <3>2 DEF Longer
  <2>2. \A k, l \in Waiting(r, 0) : k < l /\ r[k].kind = "transition"
              => r[l].kind # "transition"
    BY <1>1, <2>1 DEF Longer
  <2>. QED BY <1>5, <1>9, <2>1, <2>2 DEF OrderInv
<1>11. HeardInv(p, b, r, 0)
  <2>. SUFFICES ASSUME Undisturbed, p.active, Showing(p) \in ShowingStates
                PROVE  HeardInv(p, b, r, 0)
    BY DEF HeardInv
  <2>1. /\ p.currentIndex \in Indices(p.queue) /\ (PreparedActive(p) => NextTarget(p))
    BY <1>2 DEF HeardInv
  <2>2. SongOf[b.heard] = p.prepared.song /\ ~WaitsFresh(r, 0, "failed")
    BY <1>1, <1>2, <1>3, <1>9 DEF NextInv, Longer
  <2>3. \A k \in Waiting(r, 0) :
            r[k].kind \in Deciding
              /\ (\A l \in Waiting(r, 0) : l > k => r[l].kind \notin Deciding)
              => b.paused = (r[k].kind = "paused")
    <3>1. event.kind \in Deciding /\ event.kind # "paused"
      BY DEF Deciding
    <3>2. \A k \in Waiting(r, 0) : k = n \/ n > k
      BY <1>1 DEF Longer
    <3>. QED BY <1>1, <3>1, <3>2 DEF Longer
  <2>. QED BY <1>3, <1>4, <1>9, <2>1, <2>2, <2>3 DEF HeardInv
<1>12. SilentInv(p, b, r, 0)
  BY <1>2, <1>9 DEF SilentInv
<1>. QED BY <1>6, <1>7, <1>8, <1>10, <1>11, <1>12 DEF EventInv, StatusInv

\* The track ends, and nothing is installed after it.
LEMMA EndTold ==
  ASSUME NEW p, NEW old, NEW b, NEW q, NEW r, NEW n, NEW event,
         Tells(b, old, q, r, n, event), EventInv(p, old, q, 0), event.kind = "ended",
         old.heard # NoEntry, old.ended = FALSE,
         "recovery" \in windows \/ ~Waits(q, 0, {"error"}),
         b.heard = old.heard, b.paused = old.paused, b.ended = TRUE, b.next = old.next
  PROVE  EventInv(p, b, r, 0)
<1>1. Longer(r, q, n, event) /\ event.stale = FALSE
  BY DEF Tells
<1>2. /\ NextInv(p, old, q, 0) /\ ReadyInv(p, old, q, 0) /\ RecoveryInv(p, old, q, 0)
      /\ OrderInv(p, old, q, 0) /\ HeardInv(p, old, q, 0) /\ SilentInv(p, old, q, 0)
  BY EventsPart
<1>3. /\ \A kinds \in {PlayerKinds, Deciding, {"transition"}} :
            Waits(r, 0, kinds) <=> Waits(q, 0, kinds)
      /\ Waits(r, 0, EndKinds)
      /\ \A kind \in {"prepared", "failed"} : WaitsFresh(r, 0, kind) <=> WaitsFresh(q, 0, kind)
  BY <1>1 DEF Longer, PlayerKinds, EndKinds, Deciding
<1>4. NextInv(p, b, r, 0)
  BY <1>2, <1>3 DEF NextInv
<1>5. ReadyInv(p, b, r, 0)
  BY <1>2, <1>3 DEF ReadyInv
<1>6. RecoveryInv(p, b, r, 0)
  <2>1. p.plan = NoPlan
    BY <1>2 DEF RecoveryInv
  <2>2. "recovery" \notin windows => \A k \in Waiting(r, 0) : r[k].kind # "error"
    BY <1>1 DEF Waits, Longer
  <2>. QED BY <2>1, <2>2 DEF RecoveryInv, ErrorsEnd
<1>7. OrderInv(p, b, r, 0)
  <2>. SUFFICES ASSUME Undisturbed PROVE OrderInv(p, b, r, 0)
    BY DEF OrderInv
  <2>1. \A k \in Waiting(q, 0) : q[k].kind \notin EndKinds
    BY <1>2 DEF OrderInv, Waits
  <2>2. \A k, l \in Waiting(r, 0) : k < l => r[k].kind \notin EndKinds
    BY <1>1, <2>1 DEF Longer
  <2>3. \A k, l \in Waiting(r, 0) : k < l /\ r[k].kind = "transition"
              => r[l].kind # "transition"
    BY <1>1, <1>2 DEF Longer, OrderInv
  <2>. QED BY <1>2, <1>3, <2>2, <2>3 DEF OrderInv
<1>8. HeardInv(p, b, r, 0)
  <2>. SUFFICES ASSUME Undisturbed, p.active, Showing(p) \in ShowingStates
                PROVE  HeardInv(p, b, r, 0)
    BY DEF HeardInv
  <2>1. event.kind \notin Deciding
    BY DEF Deciding
  <2>2. \A k \in Waiting(r, 0) :
            r[k].kind \in Deciding
              /\ (\A l \in Waiting(r, 0) : l > k => r[l].kind \notin Deciding)
              => b.paused = (r[k].kind = "paused")
    BY <1>1, <1>2, <2>1 DEF HeardInv, Longer
  <2>. QED BY <1>2, <1>3, <2>2 DEF HeardInv
<1>9. SilentInv(p, b, r, 0)
  BY <1>2, <1>3 DEF SilentInv
<1>. QED BY <1>4, <1>5, <1>6, <1>7, <1>8, <1>9 DEF EventInv, StatusInv

\* The stream fails, or the player tells a state of its own.
LEMMA TroubleTold ==
  ASSUME NEW p, NEW old, NEW b, NEW q, NEW r, NEW n, NEW event,
         Tells(b, old, q, r, n, event), EventInv(p, old, q, 0),
         event.kind \in {"error", "buffering", "ready", "playing", "paused", "failure"},
         old.heard # NoEntry, event.kind # "error" => old.ended = FALSE,
         old.paused \in BOOLEAN, old.ended \in BOOLEAN,
         b.heard = old.heard, b.next = old.next,
         b.paused = (event.kind = "paused" \/ (old.paused /\ event.kind # "playing")),
         b.ended = (event.kind = "failure" \/ old.ended)
  PROVE  EventInv(p, b, r, 0)
<1>1. Longer(r, q, n, event) /\ event.stale = FALSE
  BY DEF Tells
<1>2. /\ NextInv(p, old, q, 0) /\ ReadyInv(p, old, q, 0) /\ RecoveryInv(p, old, q, 0)
      /\ OrderInv(p, old, q, 0) /\ HeardInv(p, old, q, 0) /\ SilentInv(p, old, q, 0)
  BY EventsPart
<1>3. /\ \A kinds \in {{"transition"}, {"ended"}} : Waits(r, 0, kinds) <=> Waits(q, 0, kinds)
      /\ \A kind \in {"prepared", "failed"} : WaitsFresh(r, 0, kind) <=> WaitsFresh(q, 0, kind)
      /\ Waits(r, 0, EndKinds) <=> Waits(q, 0, EndKinds) \/ event.kind = "failure"
      /\ Waits(r, 0, Deciding) <=> Waits(q, 0, Deciding) \/ event.kind \in {"playing", "paused"}
      /\ event.kind = "error" => (Waits(r, 0, PlayerKinds) <=> Waits(q, 0, PlayerKinds))
  BY <1>1 DEF Longer, PlayerKinds, EndKinds, Deciding
<1>4. NextInv(p, b, r, 0)
  BY <1>2, <1>3 DEF NextInv
<1>5. ReadyInv(p, b, r, 0)
  BY <1>2, <1>3 DEF ReadyInv
<1>6. RecoveryInv(p, b, r, 0)
  <2>1. p.plan = NoPlan
    BY <1>2 DEF RecoveryInv
  <2>2. "recovery" \notin windows => ErrorsEnd(r, 0)
    BY <1>1, <1>2 DEF RecoveryInv, ErrorsEnd, Longer
  <2>. QED BY <2>1, <2>2 DEF RecoveryInv
<1>7. OrderInv(p, b, r, 0)
  <2>. SUFFICES ASSUME Undisturbed PROVE OrderInv(p, b, r, 0)
    BY DEF OrderInv
  <2>1. event.kind # "error" => \A k \in Waiting(q, 0) : q[k].kind \notin EndKinds
    BY <1>2 DEF OrderInv, Waits
  <2>2. /\ event.kind = "error"
             => event.kind \notin PlayerKinds \cup EndKinds \cup {"transition"}
        /\ event.kind # "transition"
    BY DEF PlayerKinds, EndKinds
  <2>3. \A k, l \in Waiting(r, 0) : k < l /\ r[k].kind \in EndKinds
              => r[l].kind \notin PlayerKinds \cup EndKinds \cup {"transition"}
    BY <1>1, <1>2, <2>1, <2>2 DEF Longer, OrderInv
  <2>4. \A k, l \in Waiting(r, 0) : k < l /\ r[k].kind = "transition"
              => r[l].kind # "transition"
    BY <1>1, <1>2, <2>2 DEF Longer, OrderInv
  <2>. QED BY <1>2, <1>3, <2>3, <2>4 DEF OrderInv
<1>8. HeardInv(p, b, r, 0)
  <2>. SUFFICES ASSUME Undisturbed, p.active, Showing(p) \in ShowingStates
                PROVE  HeardInv(p, b, r, 0)
    BY DEF HeardInv
  <2>1. event.kind \in Deciding <=> event.kind \in {"playing", "paused"}
    BY DEF Deciding
  <2>2. event.kind \in {"playing", "paused"} => b.paused = (event.kind = "paused")
    OBVIOUS
  <2>3. event.kind \notin {"playing", "paused"} => b.paused = old.paused
    OBVIOUS
  <2>4. \A k \in Waiting(r, 0) :
            r[k].kind \in Deciding
              /\ (\A l \in Waiting(r, 0) : l > k => r[l].kind \notin Deciding)
              => b.paused = (r[k].kind = "paused")
    <3>1. CASE event.kind \in {"playing", "paused"}
      <4>1. \A k \in Waiting(r, 0) : k = n \/ n > k
        BY <1>1 DEF Longer
      <4>. QED BY <1>1, <2>1, <2>2, <3>1, <4>1 DEF Longer
    <3>2. CASE event.kind \notin {"playing", "paused"}
      BY <1>1, <1>2, <2>1, <2>3, <3>2 DEF Longer, HeardInv
    <3>. QED BY <3>1, <3>2
  <2>5. b.ended => Waits(r, 0, EndKinds)
    BY <1>2, <1>3 DEF HeardInv
  <2>6. ~Waits(r, 0, Deciding) => b.paused = (Showing(p) = "paused")
    BY <1>2, <1>3, <2>3 DEF HeardInv
  <2>. QED BY <1>2, <1>3, <2>4, <2>5, <2>6 DEF HeardInv
<1>9. SilentInv(p, b, r, 0)
  <2>. SUFFICES ASSUME Undisturbed, p.active, Showing(p) \notin ShowingStates
                PROVE  SilentInv(p, b, r, 0)
    BY DEF SilentInv
  <2>1. event.kind = "error" /\ old.ended
    BY <1>2 DEF SilentInv
  <2>. QED BY <1>2, <1>3, <2>1 DEF SilentInv
<1>. QED BY <1>4, <1>5, <1>6, <1>7, <1>8, <1>9 DEF EventInv, StatusInv

\* A step of the backend alone.
LEMMA BackendStep ==
  ASSUME IInv, BackendOnly, backend' \in Backend,
         EventInv(player, backend', (backend').events, 0),
         (count') \in [calls: 0 .. MaxCalls, troubles: 0 .. MaxTroubles, recovered: Nat],
         (count').recovered = count.recovered
  PROVE  IInv'
<1>. DEFINE u == [World EXCEPT !.b = backend']
<1>1. World \in Worlds /\ CoreInv(player, saved) /\ SavedInv(player, saved)
  BY WorldBegins, WorldHere DEF Sound
<1>2. u \in Worlds /\ u.p = player /\ u.b = backend' /\ u.saved = saved
  BY <1>1, WithBackend, WorldHere DEF WorldIs
<1>. HIDE DEF u
<1>3. Done(u)
  BY <1>1, <1>2 DEF Done, Sound
<1>4. /\ UNCHANGED <<windows, reports>>
      /\ player' = u.p /\ backend' = u.b /\ saved' = u.saved
  BY <1>2 DEF BackendOnly
<1>5. TypeOK'
  BY <1>3, <1>4, TypesAfter DEF IInv
<1>6. Done(World)'
  BY <1>3, <1>4, WorldAfter
<1>7. CountInv'
  BY DEF IInv, CountInv, BackendOnly, OnAndroid
<1>. QED BY <1>5, <1>6, <1>7 DEF IInv

LEMMA HereNow ==
  ASSUME IInv
  PROVE  /\ player \in Player /\ backend \in Backend
         /\ EventInv(player, backend, backend.events, 0)
         /\ backend.next \in NextTracks /\ backend.next.entry \in Entries \cup {NoEntry}
         /\ backend.events \in Seq(NativeEvents)
         /\ backend.paused \in BOOLEAN /\ backend.ended \in BOOLEAN
         /\ count \in [calls: 0 .. MaxCalls, troubles: 0 .. MaxTroubles, recovered: Nat]
         /\ (backend.next # NoNext <=> backend.next.entry # NoEntry)
<1>1. /\ player \in Player /\ backend \in Backend
      /\ EventInv(player, backend, backend.events, 0)
  BY WorldBegins, WorldHere DEF Sound, Worlds
<1>2. backend.next \in NextTracks /\ backend.events \in Seq(NativeEvents)
      /\ backend.paused \in BOOLEAN /\ backend.ended \in BOOLEAN
  BY <1>1, BackendFields
<1>3. backend.next.entry \in Entries \cup {NoEntry}
  BY <1>2 DEF NextTracks
<1>4. backend.next # NoNext <=> backend.next.entry # NoEntry
  BY <1>1, EventsPart DEF NextInv
<1>. QED BY <1>1, <1>2, <1>3, <1>4 DEF IInv, TypeOK

LEMMA PreparedStep ==
  ASSUME IInv, Prepared
  PROVE  IInv'
<1>. DEFINE n == Len(backend.events) + 1
            event(kind) == [kind |-> kind, stale |-> FALSE]
<1>1. /\ backend \in Backend /\ backend.next \in NextTracks
      /\ EventInv(player, backend, backend.events, 0)
      /\ backend.next.state = "preparing" /\ BackendOnly /\ UNCHANGED count
      /\ count \in [calls: 0 .. MaxCalls, troubles: 0 .. MaxTroubles, recovered: Nat]
  BY HereNow DEF Prepared
<1>2. CASE \E state \in {"stored", "installed"} :
             backend' = Pushed([backend EXCEPT !.next.state = state], "prepared")
  <2>1. PICK state \in {"stored", "installed"} :
             backend' = Pushed([backend EXCEPT !.next.state = state], "prepared")
    BY <1>2
  <2>. DEFINE next == [backend.next EXCEPT !.state = state]
              c == [backend EXCEPT !.next = next]
  <2>2. next \in NextTracks /\ next.entry = backend.next.entry /\ next.state = state
    BY <1>1 DEF NextTracks
  <2>3. [backend EXCEPT !.next.state = state] = c
    BY <1>1 DEF Backend
  <2>. HIDE DEF next
  <2>4. BackendIs(c, backend.heard, backend.paused, backend.ended, next, backend.events)
    BY <1>1, <2>2 DEF Backend, BackendIs
  <2>5. c.events = backend.events /\ [c EXCEPT !.events = backend.events] \in Backend
    BY <2>4 DEF Backend, BackendIs
  <2>6. backend' = Pushed(c, "prepared")
    BY <2>1, <2>3
  <2>. HIDE DEF c
  <2>7. /\ Tells(backend', backend, backend.events, (backend').events, n, event("prepared"))
        /\ event("prepared").kind = "prepared"
        /\ (backend').heard = backend.heard /\ (backend').paused = backend.paused
        /\ (backend').ended = backend.ended /\ (backend').next = next
    <3>1. TellsOf(backend', backend, "prepared", backend.heard, backend.paused, backend.ended, next)
      BY <1>1, <2>4, <2>5, <2>6, PushedTells
    <3>. QED BY <3>1 DEF TellsOf
  <2>. HIDE DEF event, n
  <2>8. EventInv(player, backend', (backend').events, 0)
    BY <1>1, <2>1, <2>2, <2>7, PreparedTold
  <2>9. backend' \in Backend
    BY <2>7 DEF Tells
  <2>. QED BY <1>1, <2>8, <2>9, BackendStep
<1>3. CASE backend' = Pushed([backend EXCEPT !.next = NoNext], "failed")
  <2>. DEFINE c == [backend EXCEPT !.next = NoNext]
  <2>1. BackendIs(c, backend.heard, backend.paused, backend.ended, NoNext, backend.events)
    BY <1>1, Values DEF Backend, BackendIs
  <2>2. c.events = backend.events /\ [c EXCEPT !.events = backend.events] \in Backend
    BY <2>1 DEF Backend, BackendIs
  <2>3. backend' = Pushed(c, "failed")
    BY <1>3
  <2>. HIDE DEF c
  <2>4. /\ Tells(backend', backend, backend.events, (backend').events, n, event("failed"))
        /\ event("failed").kind = "failed"
        /\ (backend').heard = backend.heard /\ (backend').paused = backend.paused
        /\ (backend').ended = backend.ended /\ (backend').next = NoNext
    <3>1. TellsOf(backend', backend, "failed", backend.heard, backend.paused, backend.ended, NoNext)
      BY <1>1, <2>1, <2>2, <2>3, PushedTells
    <3>. QED BY <3>1 DEF TellsOf
  <2>. HIDE DEF event, n
  <2>5. EventInv(player, backend', (backend').events, 0)
    BY <1>1, <2>4, PreparedTold
  <2>6. backend' \in Backend
    BY <2>4 DEF Tells
  <2>. QED BY <1>1, <2>5, <2>6, BackendStep
<1>4. \A state : state \in {"stored"} \cup (IF backend.heard = NoEntry THEN {} ELSE {"installed"})
                   => state \in {"stored", "installed"}
  OBVIOUS
<1>. QED BY <1>2, <1>3, <1>4 DEF Prepared

LEMMA TrackEndsStep ==
  ASSUME IInv, TrackEnds
  PROVE  IInv'
<1>. DEFINE n == Len(backend.events) + 1
            event(kind) == [kind |-> kind, stale |-> FALSE]
<1>1. /\ backend \in Backend /\ backend.next \in NextTracks
      /\ backend.next.entry \in Entries \cup {NoEntry}
      /\ EventInv(player, backend, backend.events, 0)
      /\ BackendOnly /\ UNCHANGED count
      /\ count \in [calls: 0 .. MaxCalls, troubles: 0 .. MaxTroubles, recovered: Nat]
      /\ backend.heard # NoEntry /\ backend.paused = FALSE /\ backend.ended \in BOOLEAN
  BY HereNow DEF TrackEnds, Sounding
<1>2. CASE /\ backend.next.state = "installed"
           /\ "events" \in windows \/ ~backend.ended
           /\ backend' = Pushed([backend EXCEPT
                 !.heard = backend.next.entry, !.next = NoNext, !.position = AtStart,
                 !.ended = FALSE], "transition")
  <2>. DEFINE c == [backend EXCEPT !.heard = backend.next.entry, !.next = NoNext,
                                   !.position = AtStart, !.ended = FALSE]
  <2>1. BackendIs(c, backend.next.entry, FALSE, FALSE, NoNext, backend.events)
    BY <1>1, Values DEF Backend, BackendIs
  <2>2. c.events = backend.events /\ [c EXCEPT !.events = backend.events] \in Backend
    BY <2>1 DEF Backend, BackendIs
  <2>3. backend' = Pushed(c, "transition")
    BY <1>2
  <2>. HIDE DEF c
  <2>4. /\ Tells(backend', backend, backend.events, (backend').events, n, event("transition"))
        /\ event("transition").kind = "transition"
        /\ (backend').heard = backend.next.entry /\ (backend').paused = FALSE
        /\ (backend').ended = FALSE /\ (backend').next = NoNext
    <3>1. TellsOf(backend', backend, "transition", backend.next.entry, FALSE, FALSE, NoNext)
      BY <1>1, <2>1, <2>2, <2>3, PushedTells
    <3>. QED BY <3>1 DEF TellsOf
  <2>. HIDE DEF event, n
  <2>5. EventInv(player, backend', (backend').events, 0)
    BY <1>1, <1>2, <2>4, TransitionTold
  <2>6. backend' \in Backend
    BY <2>4 DEF Tells
  <2>. QED BY <1>1, <2>5, <2>6, BackendStep
<1>3. CASE /\ backend.next.state # "installed" /\ ~backend.ended
           /\ backend' = Pushed([backend EXCEPT !.ended = TRUE], "ended")
  <2>. DEFINE c == [backend EXCEPT !.ended = TRUE]
  <2>1. BackendIs(c, backend.heard, FALSE, TRUE, backend.next, backend.events)
    BY <1>1 DEF Backend, BackendIs
  <2>2. c.events = backend.events /\ [c EXCEPT !.events = backend.events] \in Backend
    BY <2>1 DEF Backend, BackendIs
  <2>3. backend' = Pushed(c, "ended")
    BY <1>3
  <2>. HIDE DEF c
  <2>4. /\ Tells(backend', backend, backend.events, (backend').events, n, event("ended"))
        /\ event("ended").kind = "ended"
        /\ (backend').heard = backend.heard /\ (backend').paused = FALSE
        /\ (backend').ended = TRUE /\ (backend').next = backend.next
    <3>1. TellsOf(backend', backend, "ended", backend.heard, FALSE, TRUE, backend.next)
      BY <1>1, <2>1, <2>2, <2>3, PushedTells
    <3>. QED BY <3>1 DEF TellsOf
  <2>. HIDE DEF event, n
  <2>5. "recovery" \in windows \/ ~Waits(backend.events, 0, {"error"})
    BY DEF TrackEnds, Failed, Waits, Waiting
  <2>6. EventInv(player, backend', (backend').events, 0)
    BY <1>1, <1>3, <2>4, <2>5, EndTold
  <2>7. backend' \in Backend
    BY <2>4 DEF Tells
  <2>. QED BY <1>1, <2>6, <2>7, BackendStep
<1>. QED BY <1>2, <1>3 DEF TrackEnds

LEMMA PlayOnStep ==
  ASSUME IInv, PlayOn
  PROVE  IInv'
<1>1. /\ backend \in Backend /\ EventInv(player, backend, backend.events, 0)
      /\ BackendOnly /\ UNCHANGED count
      /\ count \in [calls: 0 .. MaxCalls, troubles: 0 .. MaxTroubles, recovered: Nat]
      /\ backend' = [backend EXCEPT !.position = Later]
  BY HereNow DEF PlayOn
<1>2. BackendIs(backend', backend.heard, backend.paused, backend.ended, backend.next,
                backend.events)
  BY <1>1 DEF Backend, BackendIs
<1>3. backend' \in Backend /\ EventInv(player, backend', backend.events, 0)
  <2>1. /\ NextInv(player, backend, backend.events, 0) /\ ReadyInv(player, backend, backend.events, 0)
        /\ RecoveryInv(player, backend, backend.events, 0)
        /\ OrderInv(player, backend, backend.events, 0)
        /\ HeardInv(player, backend, backend.events, 0)
        /\ SilentInv(player, backend, backend.events, 0)
    BY <1>1, EventsPart
  <2>. DEFINE b == backend'
  <2>2. /\ b.heard = backend.heard /\ b.paused = backend.paused /\ b.ended = backend.ended
        /\ b.next = backend.next /\ b \in Backend
    BY <1>2 DEF BackendIs
  <2>. HIDE DEF b
  <2>3. NextInv(player, b, backend.events, 0) /\ ReadyInv(player, b, backend.events, 0)
    BY <2>1, <2>2 DEF NextInv, ReadyInv
  <2>4. RecoveryInv(player, b, backend.events, 0) /\ OrderInv(player, b, backend.events, 0)
    BY <2>1, <2>2 DEF RecoveryInv, OrderInv
  <2>5. HeardInv(player, b, backend.events, 0) /\ SilentInv(player, b, backend.events, 0)
    BY <2>1, <2>2 DEF HeardInv, SilentInv
  <2>. QED BY <2>2, <2>3, <2>4, <2>5 DEF EventInv, StatusInv, b
<1>4. (backend').events = backend.events
  BY <1>2 DEF BackendIs
<1>. QED BY <1>1, <1>3, <1>4, BackendStep

LEMMA TroubleStep ==
  ASSUME IInv, Trouble
  PROVE  IInv'
<1>1. /\ backend \in Backend /\ EventInv(player, backend, backend.events, 0)
      /\ BackendOnly /\ backend.heard # NoEntry /\ count.troubles < MaxTroubles
      /\ count \in [calls: 0 .. MaxCalls, troubles: 0 .. MaxTroubles, recovered: Nat]
      /\ count' = [count EXCEPT !.troubles = @ + 1]
      /\ backend.paused \in BOOLEAN /\ backend.ended \in BOOLEAN
  BY HereNow DEF Trouble
<1>2. PICK kind \in reports :
         /\ IF kind = "error" THEN ~Failed ELSE ~backend.ended
         /\ backend' = Pushed([backend EXCEPT
                !.paused = CASE kind = "paused" -> TRUE
                             [] kind = "playing" -> FALSE
                             [] OTHER -> @,
                !.ended = (kind = "failure") \/ @], kind)
  BY DEF Trouble
<1>3. kind \in {"error", "buffering", "ready", "playing", "paused", "failure"}
  BY WorldBegins, ControllerAssumption DEF Desktop, Android
<1>. DEFINE n == Len(backend.events) + 1
            event == [kind |-> kind, stale |-> FALSE]
            paused == (kind = "paused" \/ (backend.paused /\ kind # "playing"))
            ended == (kind = "failure" \/ backend.ended)
            c == [backend EXCEPT !.paused = paused, !.ended = ended]
<1>4. (CASE kind = "paused" -> TRUE [] kind = "playing" -> FALSE [] OTHER -> backend.paused)
        = paused
  BY <1>1
<1>5. backend' = Pushed(c, kind)
  BY <1>2, <1>4
<1>6. paused \in BOOLEAN /\ ended \in BOOLEAN
  OBVIOUS
<1>. HIDE DEF paused, ended
<1>7. BackendIs(c, backend.heard, paused, ended, backend.next, backend.events)
  BY <1>1, <1>6 DEF Backend, BackendIs
<1>8. c.events = backend.events /\ [c EXCEPT !.events = backend.events] \in Backend
  BY <1>7 DEF Backend, BackendIs
<1>. HIDE DEF c
<1>9. /\ Tells(backend', backend, backend.events, (backend').events, n, event)
      /\ event.kind = kind
      /\ (backend').heard = backend.heard /\ (backend').paused = paused
      /\ (backend').ended = ended /\ (backend').next = backend.next
  <2>1. TellsOf(backend', backend, kind, backend.heard, paused, ended, backend.next)
    BY <1>1, <1>5, <1>7, <1>8, PushedTells
  <2>. QED BY <2>1 DEF TellsOf
<1>. HIDE DEF event, n
<1>10. kind # "error" => backend.ended = FALSE
  BY <1>1, <1>2
<1>11. EventInv(player, backend', (backend').events, 0)
  BY <1>1, <1>3, <1>9, <1>10, TroubleTold DEF paused, ended
<1>12. backend' \in Backend
  BY <1>9 DEF Tells
<1>13. /\ (count') \in [calls: 0 .. MaxCalls, troubles: 0 .. MaxTroubles, recovered: Nat]
       /\ (count').recovered = count.recovered
  <2>1. MaxTroubles \in Nat /\ count.troubles + 1 \in 0 .. MaxTroubles
    BY <1>1, ControllerAssumption
  <2>. QED BY <1>1, <2>1
<1>. QED BY <1>1, <1>11, <1>12, <1>13, BackendStep

-----------------------------------------------------------------------------
LEMMA ControllerStutters ==
  ASSUME IInv, UNCHANGED vars
  PROVE  IInv'
<1>. DEFINE u == World
<1>1. /\ UNCHANGED <<windows, reports>> /\ Done(World)
      /\ player' = World.p /\ backend' = World.b /\ saved' = World.saved /\ count' = count
  BY WorldHere DEF IInv, vars
<1>2. Done(World)'
  BY <1>1, WorldAfter
<1>3. TypeOK'
  BY <1>1, TypesAfter DEF IInv, TypeOK
<1>4. CountInv'
  BY <1>1, WorldHere DEF IInv, CountInv, OnAndroid
<1>. QED BY <1>2, <1>3, <1>4 DEF IInv

LEMMA ControllerNext ==
  ASSUME IInv, [Next]_vars
  PROVE  IInv'
<1>1. CASE SetQueueOrPosition
  BY <1>1, SetQueueOrPositionStep
<1>2. CASE EditQueue
  BY <1>2, EditQueueStep
<1>3. CASE PlayOrPause
  BY <1>3, PlayOrPauseStep
<1>4. CASE StopPlaying
  BY <1>4, StopPlayingStep
<1>5. CASE Seek
  BY <1>5, SeekStep
<1>6. CASE PlayQueueIndexHere
  BY <1>6, PlayQueueIndexStep
<1>7. CASE Skip
  BY <1>7, SkipStep
<1>8. CASE ChangeSettings
  BY <1>8, ChangeSettingsStep
<1>9. CASE LogInAgain
  BY <1>9, LogInAgainStep
<1>10. CASE ApplyShared
  BY <1>10, ApplySharedStep
<1>11. CASE ProcessNativeEvents
  BY <1>11, ProcessNativeEventsStep
<1>12. CASE PollState
  BY <1>12, PollStateStep
<1>13. CASE Restart
  BY <1>13, RestartStep
<1>14. CASE Prepared
  BY <1>14, PreparedStep
<1>15. CASE TrackEnds
  BY <1>15, TrackEndsStep
<1>16. CASE PlayOn
  BY <1>16, PlayOnStep
<1>17. CASE Trouble
  BY <1>17, TroubleStep
<1>18. CASE UNCHANGED vars
  BY <1>18, ControllerStutters
<1>. QED BY <1>1, <1>2, <1>3, <1>4, <1>5, <1>6, <1>7, <1>8, <1>9, <1>10, <1>11, <1>12,
            <1>13, <1>14, <1>15, <1>16, <1>17, <1>18 DEF Next, Calls

\* The invariant holds of the controller, its backend and its state file between
\* any two steps: commands, native events, restarts and the backend's own.
THEOREM ControllerInvariant == Spec => []IInv
<1>1. Init => IInv
  BY ControllerInit
<1>2. IInv /\ [Next]_vars => IInv'
  BY ControllerNext
<1>. QED BY <1>1, <1>2, PTL DEF Spec

\* The controller, its backend, its events and its file keep their types.
THEOREM ControllerTypes == Spec => []TypeOK
<1>1. IInv => TypeOK
  BY DEF IInv
<1>. QED BY <1>1, ControllerInvariant, PTL

\* The state file holds the queue after every command, batch of events and restart,
\* whichever load failed in it (persist_state comes before the load), unless the app
\* dies while it writes the file, or the track after a removed one fails to load.
THEOREM QueueIsSaved == Spec => []SavedQueue
<1>1. IInv => SavedQueue
  BY WorldHere DEF IInv, Done, SavedInv, SavedQueue
<1>. QED BY <1>1, ControllerInvariant, PTL

\* Reloads by recovery never exceed the attempts counted, which a reload that
\* works does not reset, and a scheduled recovery is for the current entry.
THEOREM RecoveryStaysOrderly == Spec => []RecoveryIsOrderly
<1>1. IInv => RecoveryIsOrderly
  <2>. SUFFICES ASSUME IInv PROVE RecoveryIsOrderly
    OBVIOUS
  <2>1. PlanInv(player)
    BY WorldBegins, WorldHere, BeginFields
  <2>2. player.attempts \in 0 .. MaxAttempts /\ count.recovered \in Nat
    BY DEF IInv, TypeOK, Player
  <2>3. count.recovered <= MaxAttempts
    BY <2>2 DEF IInv, CountInv, MaxAttempts
  <2>. QED BY <2>1, <2>3 DEF PlanInv, RecoveryIsOrderly
<1>. QED BY <1>1, ControllerInvariant, PTL

\* Once no event waits, what is prepared is the entry after the current one, and
\* what the backend holds ready is its song, although a transition names none.
THEOREM PreparedStaysNext == Spec => []PreparedIsNext
<1>1. IInv => PreparedIsNext
  <2>. SUFFICES ASSUME IInv, backend.events = <<>>, PlayingOrPaused(World),
                       player.prepared.state = "ready",
                       OnDesktop \/ (Undisturbed /\ player.active)
                PROVE  /\ IsTarget(World, player.currentIndex + 1)
                       /\ backend.next.state \in {"stored", "installed"}
                       /\ SongOf[backend.next.entry] = player.prepared.song
    BY DEF PreparedIsNext, OnDesktop, Undisturbed
  <2>1. /\ EventInv(player, backend, <<>>, 0) /\ DesktopInv(player)
        /\ IndexInv(player, saved)
    BY HereNow, WorldBegins, WorldHere DEF Sound, CoreInv
  <2>2. PreparedActive(player) /\ player.prepared # NoPrepared
    BY Values DEF PreparedActive, Nothing
  <2>3. \A kinds : ~Waits(<<>>, 0, kinds)
    BY DEF Waits, Waiting
  <2>4. \A kind : ~WaitsFresh(<<>>, 0, kind)
    BY DEF WaitsFresh, Waiting
  <2>5. backend.next # NoNext /\ backend.next.state \in {"stored", "installed"}
    BY <2>1, <2>2, <2>3, <2>4, EventsPart DEF ReadyInv
  <2>6. SongOf[backend.next.entry] = player.prepared.song
    BY <2>1, <2>2, <2>5, EventsPart DEF NextInv
  <2>7. NextTarget(player)
    <3>1. CASE OnDesktop
      BY <2>1, <2>2, <3>1 DEF DesktopInv
    <3>2. CASE Undisturbed /\ player.active
      <4>1. Showing(player) \in ShowingStates
        BY WorldHere DEF PlayingOrPaused, Showing, ShowingStates
      <4>. QED BY <2>1, <2>2, <3>2, <4>1, EventsPart DEF HeardInv
    <3>. QED BY <3>1, <3>2
  <2>. QED BY <2>5, <2>6, <2>7, WorldHere DEF NextTarget, IsTarget
<1>. QED BY <1>1, ControllerInvariant, PTL

\* Once no event waits and no recovery is scheduled, a status of playing or paused
\* is of the song that is heard or held, and one of stopped is of silence.
THEOREM StatusStaysHeard == Spec => []StatusIsHeard
<1>1. IInv => StatusIsHeard
  <2>. SUFFICES ASSUME IInv, Settled, Undisturbed
                PROVE  /\ player.playingState \in {"playing", "paused"} =>
                            /\ Valid(World, player.currentIndex)
                            /\ backend.heard # NoEntry /\ ~backend.ended
                            /\ SongOf[backend.heard] = SongAt(player.queue, player.currentIndex)
                            /\ backend.paused = (player.playingState = "paused")
                       /\ player.playingState \in {"stopped", "idle"} => ~Sounding \/ backend.ended
    BY DEF StatusIsHeard, Undisturbed
  <2>1. EventInv(player, backend, <<>>, 0) /\ player.active
    BY HereNow DEF Settled
  <2>2. HeardInv(player, backend, <<>>, 0) /\ SilentInv(player, backend, <<>>, 0)
    BY <2>1, EventsPart
  <2>3. \A kinds : ~Waits(<<>>, 0, kinds)
    BY DEF Waits, Waiting
  <2>4. player.playingState \in {"playing", "paused", "stopped", "idle"}
          => Showing(player) = player.playingState
    BY DEF Showing
  <2>5. player.playingState \in {"playing", "paused"} =>
           /\ Valid(World, player.currentIndex)
           /\ backend.heard # NoEntry /\ ~backend.ended
           /\ SongOf[backend.heard] = SongAt(player.queue, player.currentIndex)
           /\ backend.paused = (player.playingState = "paused")
    BY <2>1, <2>2, <2>3, <2>4, WorldHere DEF HeardInv, ShowingStates, Valid
  <2>6. player.playingState \in {"stopped", "idle"} => ~Sounding \/ backend.ended
    BY <2>1, <2>2, <2>3, <2>4 DEF SilentInv, ShowingStates, Sounding
  <2>. QED BY <2>5, <2>6
<1>. QED BY <1>1, ControllerInvariant, PTL

===============================================================================
