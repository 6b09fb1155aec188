---------------------------- MODULE AndroidPlayback ---------------------------
(***************************************************************************)
(* Playback on Android, from the controller's backend down to the player:  *)
(* the shim (backend_shims/android.rs) calls the plugin                    *)
(* (AndroidPlaybackPlugin.kt) and waits for its answer with the            *)
(* controller locked; the plugin runs on the UI looper and talks to the    *)
(* session of PlaybackService.kt over a MediaController; the service       *)
(* keeps books of the player's playlist, which holds what plays and what   *)
(* plays after it, and tells Rust of what the player does by events.       *)
(*                                                                         *)
(* The keys of the notification and of a headset reach the player without  *)
(* Rust.  A media is an instance of a song ("song#n"), told apart by its   *)
(* number.  ExoPlayer and the MediaController are external: they are as    *)
(* the service's calls and callbacks need them.  Positions, volume and     *)
(* artwork are left out: loads start locally here (plan_load), so every    *)
(* base position is 0.  The events a command takes before it returns are   *)
(* here taken after it, by TakeEvents.                                     *)
(***************************************************************************)
EXTENDS Integers, Sequences, Functions

CONSTANTS
    MaxMedia,       \* bound: media instances
    MaxCommands,    \* bound: commands to the controller
    MaxTroubles     \* bound: keys, stalls and errors

ASSUME AndroidPlaybackAssumption ==
    MaxMedia \in Nat \ {0} /\ MaxCommands \in Nat /\ MaxTroubles \in Nat

(***************************************************************************)
(* Short moments, of which a behaviour opens one kind:                     *)
(*   "empty"      a stream ends, or the stop key is pressed, before the    *)
(*                load that waits for it is answered                       *)
(*   "reset"      a key during a load or an activation, or the end or an   *)
(*                error of its stream, before its answer resets the hub,   *)
(*                or a restart of an ended player whose end is unheard     *)
(*   "idle"       the play key, a resume or an activation reaches a player *)
(*                that an error made idle, with another item than the      *)
(*                loaded one in its playlist                               *)
(*   "stop key"   the stop key while a track is loaded                     *)
(*   "channel"    the player goes on between the answer of a call and its  *)
(*                arrival at the session, or a stop is answered before it  *)
(*                is done                                                  *)
(*   "transition" the player goes on to the prepared item while a command  *)
(*                holds the controller, or one gets it before the event    *)
(***************************************************************************)
Windows == {"empty", "reset", "idle", "stop key", "channel", "transition"}

VARIABLES
    open,       \* the windows this behaviour opens
    rust,       \* controller and shim, and the calls they have yet to make
    call,       \* the call of the plugin that is under way
    android,    \* host, session, service, player and the event hub
    used        \* history: media, commands, troubles

vars == <<open, rust, call, android, used>>

NoMedia == 0
Media == 1 .. MaxMedia
SomeMedia == Media \cup {NoMedia}

Ops == {"load", "prepare", "activate", "clear", "play", "pause", "seek", "stop"}
NoCall == [op |-> "none", media |-> NoMedia, autoplay |-> FALSE, at |-> "none"]
Op(op, autoplay) == [op |-> op, autoplay |-> autoplay]

States == {"playing", "paused", "interrupted", "stopped", "error"}

\* prepared: what prepared_next stands for; shim: prepared_generation is set;
\* retry: a load that fails is tried with another stream first.
Rust == [media: SomeMedia, state: States, resume: States \cup {"none"},
         prepared: SomeMedia, shim: BOOLEAN, retry: BOOLEAN,
         todo: Seq([op: Ops, autoplay: BOOLEAN]), taken: Seq(STRING)]

Call == [op: Ops \cup {"none"}, media: SomeMedia, autoplay: BOOLEAN,
         at: {"none", "plugin", "connecting", "sent", "ok", "failed"}]

\* connected: PlaybackControllerHost has a controller; pending: PendingLoad;
\* index: of the item that plays, in playlist.
AndroidState ==
    [connected: BOOLEAN, channel: Seq(Call),
     pending: SomeMedia, current: SomeMedia, prepared: SomeMedia,
     transitioning: SomeMedia, manual: SomeMedia, suppress: SomeMedia,
     playlist: Seq(Media), index: Nat \ {0},
     state: {"idle", "buffering", "ready", "ended"}, playWhenReady: BOOLEAN,
     hub: Seq(STRING)]

TypeOK ==
    /\ open \subseteq Windows
    /\ rust \in Rust /\ call \in Call /\ android \in AndroidState
    /\ used \in [media: 0 .. MaxMedia, commands: 0 .. MaxCommands,
                 troubles: 0 .. MaxTroubles]

NewService ==
    [connected |-> FALSE, channel |-> <<>>,
     pending |-> NoMedia, current |-> NoMedia, prepared |-> NoMedia,
     transitioning |-> NoMedia, manual |-> NoMedia, suppress |-> NoMedia,
     playlist |-> <<>>, index |-> 1, state |-> "idle", playWhenReady |-> FALSE,
     hub |-> <<>>]

Init ==
    /\ open \in {{}} \cup {{window} : window \in Windows}
    /\ rust = [media |-> NoMedia, state |-> "stopped", resume |-> "none",
               prepared |-> NoMedia, shim |-> FALSE, retry |-> FALSE,
               todo |-> <<>>, taken |-> <<>>]
    /\ call = NoCall
    /\ android = NewService
    /\ used = [media |-> 0, commands |-> 0, troubles |-> 0]

-----------------------------------------------------------------------------
\* The player, as functions of the android record: what a call or the stream
\* does to it, and the service's callbacks, which run within it.

Emit(a, event) == [a EXCEPT !.hub = Append(@, event)]

Position(a, media) ==
    IF \E i \in DOMAIN a.playlist : a.playlist[i] = media
    THEN CHOOSE i \in DOMAIN a.playlist : a.playlist[i] = media
    ELSE 0

Without(a, i) ==
    [a EXCEPT !.playlist = SubSeq(@, 1, i - 1) \o SubSeq(@, i + 1, Len(@)),
              !.index = IF i < @ THEN @ - 1 ELSE @]

\* onIsPlayingChanged, where playWhenReady decides it.
SetPlayWhenReady(a, on) ==
    LET set == [a EXCEPT !.playWhenReady = on]
    IN  IF a.playWhenReady = on \/ a.state # "ready" THEN set
        ELSE Emit(set, IF on THEN "playing" ELSE "paused")

Buffering(a) ==
    IF a.state = "buffering" THEN a ELSE Emit([a EXCEPT !.state = "buffering"], "buffering")

\* Mutant: a player that does not start says nothing more than that it could.
OnReadyUnpaused(a) ==
    LET ready == Emit([a EXCEPT !.state = "ready", !.pending = NoMedia], "ready")
    IN  IF a.playWhenReady THEN Emit(ready, "playing") ELSE ready
OnReady(a) ==
    LET ready == Emit([a EXCEPT !.state = "ready", !.pending = NoMedia], "ready")
    IN  Emit(ready, IF a.playWhenReady THEN "playing" ELSE "paused")

\* The pending load is forgotten here without an answer.
OnEnded(a) ==
    Emit([a EXCEPT !.state = "ended", !.pending = NoMedia, !.prepared = NoMedia,
                   !.transitioning = NoMedia, !.manual = NoMedia], "ended")

\* The prepared item stays in the playlist.
OnError(a) ==
    LET idle == [a EXCEPT !.state = "idle", !.pending = NoMedia]
    IN  IF a.pending # NoMedia THEN idle
        ELSE Emit([idle EXCEPT !.prepared = NoMedia, !.transitioning = NoMedia,
                               !.manual = NoMedia], "error")

\* onMediaItemTransition to the item that plays now; the one before is
\* removed, which is no transition of its own.
OnTransition(a, bySeek) ==
    LET media == a.playlist[a.index]
        known == media \in {a.transitioning, a.prepared}
        booked == [a EXCEPT !.current = media,
                            !.transitioning = IF @ = media THEN NoMedia ELSE @,
                            !.prepared = IF a.transitioning = media THEN @ ELSE NoMedia,
                            !.manual = NoMedia]
        removed == IF a.index = 1 THEN booked
                   ELSE Without([booked EXCEPT !.suppress = media], 1)
    IN  CASE a.suppress = media -> [a EXCEPT !.suppress = NoMedia]
          [] a.suppress # media /\ ~known -> a
          [] a.suppress # media /\ known ->
                IF bySeek \/ a.manual = media THEN removed
                ELSE Emit(removed, "gapless_transition")

-----------------------------------------------------------------------------
\* The session's commands and the player's own.

LoadPreparedMedia(a, media, autoplay) ==
    Buffering([a EXCEPT !.pending = media, !.current = media, !.prepared = NoMedia,
                        !.transitioning = NoMedia, !.manual = NoMedia,
                        !.suppress = NoMedia, !.playlist = <<media>>, !.index = 1,
                        !.state = "idle", !.playWhenReady = autoplay])

\* Mutant: only the books are cleared.
ClearPreparedMediaKeepingItem(a) == [a EXCEPT !.prepared = NoMedia, !.manual = NoMedia]
ClearPreparedMedia(a) ==
    LET i == Position(a, a.prepared)
        cleared == [a EXCEPT !.prepared = NoMedia, !.manual = NoMedia]
    IN  IF i = 0 THEN cleared ELSE Without(cleared, i)

MayPrepare(a) == a.current # NoMedia /\ a.playlist # <<>>
PrepareNextMedia(a, media) ==
    LET prior == Position(a, a.prepared)
        cut == IF prior = 0 THEN a ELSE Without(a, prior)
        anchor == IF Position(cut, cut.transitioning) # 0
                  THEN Position(cut, cut.transitioning)
                  ELSE IF Position(cut, cut.current) # 0 THEN Position(cut, cut.current)
                  ELSE cut.index
    IN  [cut EXCEPT !.prepared = media,
                    !.index = IF anchor < @ THEN @ + 1 ELSE @,
                    !.playlist = SubSeq(@, 1, anchor) \o <<media>>
                                   \o SubSeq(@, anchor + 1, Len(@))]

\* A player that is idle stays idle.
SeekTo(a) == IF a.state = "idle" \/ a.playlist = <<>> THEN a ELSE Buffering(a)

MayActivate(a) == a.prepared # NoMedia /\ Len(a.playlist) >= 2
ActivatePreparedMedia(a, autoplay) ==
    LET begun == SetPlayWhenReady([a EXCEPT !.transitioning = a.prepared,
                                            !.prepared = NoMedia,
                                            !.manual = a.prepared], autoplay)
    IN  IF a.index = Len(a.playlist) THEN begun
        ELSE SeekTo(OnTransition([begun EXCEPT !.index = @ + 1], TRUE))

\* The play button prepares an idle player, and starts an ended one again.
PlayButton(a) ==
    LET started == IF a.state \in {"idle", "ended"} /\ a.playlist # <<>>
                   THEN Buffering(a) ELSE a
    IN  SetPlayWhenReady(started, TRUE)

StopPlayer(a) == [a EXCEPT !.state = "idle", !.playlist = <<>>, !.index = 1]

\* What a command of the session does; load answers later.
AfterCommand(a, c) ==
    CASE c.op = "load" -> LoadPreparedMedia(a, c.media, c.autoplay)
      [] c.op = "prepare" -> IF MayPrepare(a) THEN PrepareNextMedia(a, c.media) ELSE a
      [] c.op = "activate" -> IF MayActivate(a) THEN ActivatePreparedMedia(a, c.autoplay)
                              ELSE a
      [] c.op = "clear" -> ClearPreparedMedia(a)
      [] c.op = "play" -> PlayButton(a)
      [] c.op = "pause" -> SetPlayWhenReady(a, FALSE)
      [] c.op = "seek" -> SeekTo(a)
      [] c.op = "stop" -> StopPlayer(a)

Refuses(a, c) ==
    \/ c.op = "prepare" /\ ~MayPrepare(a)
    \/ c.op = "activate" /\ ~MayActivate(a)

-----------------------------------------------------------------------------
\* The calls: the shim asks, the plugin runs on the looper, the session's
\* commands arrive in order, and the answer lets Rust go on.

HasNext == used.media < MaxMedia

\* prepare_next_media where there is a next entry; activate_prepared without a
\* generation is refused by the shim itself.
Ask ==
    /\ call = NoCall /\ rust.todo # <<>>
    /\ LET op == Head(rust.todo)
           new == op.op \in {"load", "prepare"}
           skipped == \/ new /\ ~HasNext
                      \/ op.op = "activate" /\ ~rust.shim
       IN  /\ call' = [op |-> op.op, autoplay |-> op.autoplay,
                       media |-> IF new /\ ~skipped THEN used.media + 1 ELSE NoMedia,
                       at |-> IF skipped THEN "failed" ELSE "plugin"]
           /\ rust' = [rust EXCEPT !.shim = @ /\ op.op \notin {"load", "activate", "clear", "stop"}]
           /\ used' = IF new /\ ~skipped THEN [used EXCEPT !.media = @ + 1] ELSE used
    /\ UNCHANGED <<open, android>>

\* play, pause, seek and stop are answered when they are sent, and all but
\* play, load, prepare and activate are answered at once without a controller.
NeedsController(op) == op \in {"play", "load", "prepare", "activate"}
AnsweredWhenSent(op) == op \in {"play", "pause", "seek", "stop"}

Sent(a, c) == [a EXCEPT !.channel = Append(@, c), !.connected = @ /\ c.op # "stop"]
SentCall(c) == [c EXCEPT !.at = IF AnsweredWhenSent(c.op) THEN "ok" ELSE "sent"]

PluginRuns ==
    /\ call.at = "plugin"
    /\ IF android.connected
       THEN /\ call' = SentCall(call)
            /\ android' = Sent(android, SentCall(call))
       ELSE /\ call' = [call EXCEPT !.at = IF NeedsController(call.op) THEN "connecting"
                                           ELSE "ok"]
            /\ UNCHANGED android
    /\ UNCHANGED <<open, rust, used>>

\* publish: the callbacks that waited for the controller run, or are refused.
Connected ==
    /\ call.at = "connecting"
    /\ call' = SentCall(call)
    /\ android' = Sent([android EXCEPT !.connected = TRUE], SentCall(call))
    /\ UNCHANGED <<open, rust, used>>

ConnectingFails ==
    /\ call.at = "connecting"
    /\ used.troubles < MaxTroubles
    /\ call' = [call EXCEPT !.at = "failed"]
    /\ used' = [used EXCEPT !.troubles = @ + 1]
    /\ UNCHANGED <<open, rust, android>>

Stranded == android.state = "idle" /\ android.playlist \notin {<<>>, <<rust.media>>}

SessionHandles ==
    /\ android.channel # <<>>
    /\ LET c == Head(android.channel)
           taken == [android EXCEPT !.channel = Tail(@)]
       IN  /\ android' = AfterCommand(taken, c)
           /\ call' = IF call.at = "sent" /\ c.op = call.op /\ c.op # "load"
                      THEN [call EXCEPT !.at = IF Refuses(android, c) THEN "failed" ELSE "ok"]
                      ELSE call
    /\ UNCHANGED <<open, rust, used>>

\* Nobody is bound to the service, and nothing plays: it is destroyed, and the
\* next controller finds a new one.
ServiceDestroyed ==
    /\ ~android.connected /\ call = NoCall /\ android.channel = <<>>
    /\ android.state = "idle"
    /\ android' = [NewService EXCEPT !.hub = android.hub]
    /\ android' # android
    /\ UNCHANGED <<open, rust, call, used>>

-----------------------------------------------------------------------------
\* What the stream does to the player.  A load that waits is answered.

\* Mutant: only a stream that becomes ready answers it.
AnswerReadyLoad(result) ==
    call' = IF android.pending # NoMedia /\ result = "ok"
            THEN [call EXCEPT !.at = result] ELSE call

AnswerLoad(result) ==
    call' = IF android.pending # NoMedia THEN [call EXCEPT !.at = result] ELSE call

PlayerRuns == "channel" \in open \/ android.channel = <<>>

ResetDue == call.op \in {"load", "activate"}
Unheard(event) == event \in Range(rust.taken \o android.hub)
OnTheirWay(ops) ==
    \E ask \in Range(rust.todo) \cup Range(android.channel) \cup {call} : ask.op \in ops

StreamReady ==
    /\ PlayerRuns /\ android.state = "buffering"
    /\ android' = OnReady(android)
    /\ AnswerLoad("ok")
    /\ UNCHANGED <<open, rust, used>>

Trouble == used' = [used EXCEPT !.troubles = @ + 1] /\ used.troubles < MaxTroubles

StreamStalls ==
    /\ PlayerRuns /\ android.state = "ready"
    /\ Trouble
    /\ android' = Buffering(android)
    /\ UNCHANGED <<open, rust, call>>

StreamFails ==
    /\ PlayerRuns /\ android.state \in {"buffering", "ready"}
    /\ ResetDue /\ call.at = "ok" => "reset" \in open
    /\ \/ Unheard("gapless_transition") \/ OnTheirWay({"play"})
       \/ ~OnTheirWay({"load"}) /\ OnTheirWay({"prepare", "activate"})
       => "idle" \in open
    /\ Trouble
    /\ android' = OnError(android)
    /\ AnswerLoad("failed")
    /\ UNCHANGED <<open, rust>>

\* The item has played to its end: the next one of the playlist is played.
Idle == rust.todo = <<>> /\ call = NoCall /\ rust.taken = <<>>

ItemEnds ==
    /\ PlayerRuns /\ android.state = "ready" /\ android.playWhenReady
    /\ OnTheirWay({"load", "activate", "play", "seek"}) => "reset" \in open
    /\ android' = IF android.index < Len(android.playlist)
                  THEN OnTransition([android EXCEPT !.index = @ + 1], FALSE)
                  ELSE OnEnded(android)
    /\ android.index < Len(android.playlist) => Idle \/ "transition" \in open
    /\ UNCHANGED <<open, rust, call, used>>

EmptyStreamEnds ==
    /\ "empty" \in open /\ android.pending # NoMedia
    /\ Trouble
    /\ android' = OnEnded(android)
    /\ UNCHANGED <<open, rust, call>>

\* The keys.
KeyPlay ==
    /\ ResetDue \/ Unheard("ended") => "reset" \in open
    /\ PlayerRuns
    /\ Stranded => "idle" \in open
    /\ Trouble
    /\ android' = PlayButton(android)
    /\ UNCHANGED <<open, rust, call>>

KeyPause ==
    /\ PlayerRuns
    /\ ResetDue => "reset" \in open
    /\ Trouble
    /\ android' = SetPlayWhenReady(android, FALSE)
    /\ UNCHANGED <<open, rust, call>>

KeyStop ==
    /\ IF android.pending # NoMedia THEN "empty" \in open ELSE "stop key" \in open
    /\ Trouble
    /\ android' = [android EXCEPT !.state = "idle"]
    /\ UNCHANGED <<open, rust, call>>

-----------------------------------------------------------------------------
\* The controller.

NextPrepared == rust.prepared # NoMedia
Clearing == IF NextPrepared THEN <<Op("clear", FALSE)>> ELSE <<>>

\* sync_gapless_for_current_track, once what was prepared is not the next entry.
Preparing == <<Op("prepare", FALSE)>>

\* load_track_at_index: of the prepared entry, or of another.
Loading(r, ops) == [r EXCEPT !.state = "interrupted", !.resume = "none", !.retry = TRUE,
                             !.todo = ops]
LoadNext(r, autoplay) ==
    Loading(r, (IF NextPrepared THEN <<Op("activate", autoplay)>>
                ELSE <<Op("load", autoplay)>>) \o Preparing)
LoadOther(r, autoplay) ==
    Loading(r, Clearing \o <<Op("load", autoplay)>> \o Preparing)

ClearHub == android' = [android EXCEPT !.hub = <<>>]

Loaded(r, media, autoplay) ==
    [r EXCEPT !.media = media, !.state = IF autoplay THEN "playing" ELSE "paused",
              !.resume = "none", !.todo = Tail(@)]

Done(r) == [r EXCEPT !.todo = Tail(@)]

\* The backend has answered.
Answered(op, media, autoplay) ==
    CASE op = "load" -> [Loaded(rust, media, autoplay) EXCEPT !.prepared = NoMedia]
      [] op = "activate" -> [Loaded(rust, rust.prepared, autoplay) EXCEPT !.prepared = NoMedia]
      [] op = "prepare" -> [Done(rust) EXCEPT !.prepared = media, !.shim = TRUE]
      [] op = "clear" -> [Done(rust) EXCEPT !.prepared = NoMedia]
      [] op = "play" -> [Done(rust) EXCEPT !.state = "playing"]
      [] op = "pause" -> [Done(rust) EXCEPT !.state = "paused", !.resume = "none"]
      [] op = "seek" -> Done(rust)
      [] op = "stop" -> [Done(rust) EXCEPT !.state = "stopped", !.resume = "none",
                                           !.media = NoMedia]

\* A load is tried again and then given up, with what the handler had left to
\* do; its track stays the current one.  A track that cannot be activated is loaded.
Failed(op, media, autoplay) ==
    CASE op = "load" ->
            IF rust.retry /\ HasNext THEN [rust EXCEPT !.retry = FALSE]
            ELSE [rust EXCEPT !.state = "error", !.media = media, !.prepared = NoMedia,
                              !.todo = <<>>, !.taken = <<>>]
      [] op = "activate" ->
            [rust EXCEPT !.todo = Clearing \o <<Op("load", autoplay)>> \o Tail(@)]
      [] op = "prepare" -> Done(rust)
      [] OTHER -> [rust EXCEPT !.todo = <<>>, !.taken = <<>>]

RustGoesOn ==
    /\ call.at \in {"ok", "failed"}
    /\ call.op = "stop" /\ android.channel # <<>> => "channel" \in open
    /\ rust' = IF call.at = "ok" THEN Answered(call.op, call.media, call.autoplay)
               ELSE Failed(call.op, call.media, call.autoplay)
    /\ IF call.at = "ok" /\ call.op \in {"load", "activate", "stop"} THEN ClearHub
       ELSE UNCHANGED android
    /\ call' = NoCall
    /\ UNCHANGED <<open, used>>

\* A thread that an event woke, or a poll of the UI.
TakeEvents ==
    /\ Idle /\ android.hub # <<>>
    /\ rust' = [rust EXCEPT !.taken = android.hub]
    /\ ClearHub
    /\ UNCHANGED <<open, call, used>>

HandleEvent ==
    /\ rust.taken # <<>> /\ rust.todo = <<>> /\ call = NoCall
    /\ LET r == [rust EXCEPT !.taken = Tail(@)]
       IN  \/ /\ Head(rust.taken) = "buffering"
              /\ rust' = [r EXCEPT !.state = "interrupted",
                                   !.resume = IF r.state = "interrupted" THEN @ ELSE r.state]
           \/ /\ Head(rust.taken) = "ready"
              /\ rust' = [r EXCEPT !.state = IF @ # "interrupted" THEN @
                                             ELSE IF r.resume = "none" THEN "paused"
                                             ELSE r.resume,
                                   !.resume = "none"]
           \/ /\ Head(rust.taken) \in {"playing", "paused", "error"}
              /\ rust' = [r EXCEPT !.state = Head(rust.taken), !.resume = "none"]
           \/ /\ Head(rust.taken) = "gapless_transition"
              /\ rust' = IF NextPrepared
                         THEN [r EXCEPT !.media = rust.prepared, !.prepared = NoMedia,
                                        !.state = "playing", !.resume = "none",
                                        !.todo = Preparing]
                         ELSE r
           \/ /\ Head(rust.taken) = "ended"
              /\ rust' = IF NextPrepared \/ HasNext THEN LoadNext(r, TRUE)
                         ELSE [r EXCEPT !.state = "stopped", !.resume = "none",
                                        !.todo = Clearing]
    /\ IF Head(rust.taken) = "ended" /\ (NextPrepared \/ HasNext) THEN ClearHub
       ELSE UNCHANGED android
    /\ UNCHANGED <<open, call, used>>

Waits(event) == event \in Range(android.hub)

Command(r) ==
    /\ Idle
    /\ used.commands < MaxCommands
    /\ Waits("gapless_transition") => "transition" \in open
    /\ rust' = r
    /\ used' = [used EXCEPT !.commands = @ + 1]
    /\ UNCHANGED <<open, call>>

\* play_queue_index, play where no paused track waits, and next or prev to
\* another entry than the prepared one.
PlayEntry ==
    /\ HasNext
    /\ LET r == LoadOther(rust, TRUE)
       IN  \/ Command([r EXCEPT !.todo = <<Op("stop", FALSE)>> \o @])
           \/ rust.state # "paused" /\ Command(r)
           \/ rust.state = "paused" /\ Command(LoadOther(rust, FALSE))
    /\ ClearHub

\* While the player is buffering, next, prev and seek leave it alone
\* (PlaybackController has that).
NextCommand ==
    /\ NextPrepared /\ rust.state \in {"playing", "paused"}
    /\ Command(LoadNext(rust, rust.state = "playing"))
    /\ ClearHub

Pause ==
    /\ rust.state \in {"playing", "interrupted"}
    /\ Command([rust EXCEPT !.todo = <<Op("pause", FALSE)>>])
    /\ UNCHANGED android

Resume ==
    /\ Unheard("ended") => "reset" \in open
    /\ Unheard("error") \/ Stranded => "idle" \in open
    /\ rust.state = "paused"
    /\ Command([rust EXCEPT !.todo = <<Op("play", FALSE)>>])
    /\ UNCHANGED android

Seek ==
    /\ Unheard("ended") => "reset" \in open
    /\ rust.state \in {"playing", "paused"}
    /\ Command([rust EXCEPT !.todo = <<Op("seek", FALSE)>>])
    /\ UNCHANGED android

Stop ==
    /\ Command([rust EXCEPT !.todo = Clearing \o <<Op("stop", FALSE)>>])
    /\ UNCHANGED android

\* The entry after the current one changes.
EditQueue ==
    /\ Unheard("error") => "idle" \in open
    /\ rust.state \in {"playing", "paused"}
    /\ Command([rust EXCEPT !.todo = Clearing \o Preparing])
    /\ UNCHANGED android

Next ==
    \/ Ask \/ PluginRuns \/ Connected \/ ConnectingFails \/ SessionHandles
    \/ ServiceDestroyed \/ StreamReady \/ StreamStalls \/ StreamFails
    \/ ItemEnds \/ EmptyStreamEnds \/ KeyPlay \/ KeyPause \/ KeyStop
    \/ RustGoesOn \/ TakeEvents \/ HandleEvent
    \/ PlayEntry \/ NextCommand \/ Pause \/ Resume \/ Seek \/ Stop \/ EditQueue

\* The threads run, the looper takes its messages, and a stream becomes ready
\* or fails in the end.
Fairness ==
    /\ WF_vars(Ask \/ RustGoesOn \/ TakeEvents \/ HandleEvent)
    /\ WF_vars(PluginRuns \/ Connected \/ SessionHandles)
    /\ WF_vars(StreamReady)

-----------------------------------------------------------------------------
\* The service's books and the playlist: what plays is what the service takes
\* for current, and what it takes for prepared comes next and nothing else
\* does; so no track is played that Rust is not told of.
ServiceInStep ==
    "idle" \notin open /\ android.state \in {"buffering", "ready"} =>
        /\ android.index = 1
        /\ android.playlist = IF android.prepared = NoMedia THEN <<android.current>>
                              ELSE <<android.current, android.prepared>>

\* When nothing is under way, the controller shows the track that is played,
\* as playing if the player plays, whatever order keys, calls and events came
\* in.
Settled == Idle /\ android.hub = <<>> /\ android.channel = <<>>

ShownAsPlayed ==
    open = {} /\ Settled =>
        /\ android.state = "ready" =>
             /\ rust.media = android.playlist[android.index]
             /\ rust.state = IF android.playWhenReady THEN "playing" ELSE "paused"
        /\ rust.state = "playing" => android.state \in {"buffering", "ready"}

\* A call of the plugin is answered: the controller is locked until then, and
\* every command and every event waits.
CallsAnswered ==
    "empty" \notin open => (call # NoCall ~> call = NoCall)

Spec == Init /\ [][Next]_vars /\ Fairness
=============================================================================
