---------------------------- MODULE TrackPipeline ----------------------------
(***************************************************************************)
(* One track of the Symphonia backend, from its HTTP response to the       *)
(* speaker: the download thread fills SharedDownloadBuffer, the pump       *)
(* thread decodes it into an AudioRing, the output callback plays the ring *)
(* through its resampler, and the worker activates the track, seeks in it  *)
(* and tears it down by setting flags and joining the threads.  Threads    *)
(* meet under two mutexes (buffer, gate) with a condition variable each,   *)
(* and through atomics read outside of them.                               *)
(*                                                                         *)
(* A chunk of the body decodes to one frame.  A track prepared for gapless *)
(* playback has a gate, at which the pump parks once the ring is full and  *)
(* the download waits until the track is activated; one that is loaded to  *)
(* be played has none, and none either has a response without a length,    *)
(* whose body is there before decoding starts.                             *)
(***************************************************************************)
EXTENDS Naturals, Sequences

CONSTANTS Chunks,    \* chunks in the body
          Limit,     \* frames the ring holds before the pump waits (2 seconds)
          MaxSeeks   \* bound: seeks per behaviour

ASSUME PipelineAssumption ==
    Chunks \in Nat \ {0} /\ Limit \in Nat \ {0} /\ MaxSeeks \in Nat

(***************************************************************************)
(* Moments so short that tests do not meet them.  A behaviour opens some:  *)
(*   "cancel"    the worker cancels between the reader's look at the flag  *)
(*               and its wait                                              *)
(*   "underrun"  the pump appends and finishes between the callback's pull *)
(*               and its look at the flag                                  *)
(*   "eos"       the user seeks after the last packet was decoded          *)
(***************************************************************************)
Moments == {"cancel", "underrun", "eos"}

VARIABLES
    moments,   \* the moments this behaviour opens, chosen at the start
    gate,      \* PreparedActivationGate; gated: FALSE when there is none
    buffer,    \* SharedDownloadBuffer; armed: the pump holds its mutex, about to wait
    ring,      \* AudioRing, its frames by chunk number
    out,       \* OutputResampler: frames held; pulled: between the steps of a call
    download,  \* where the download thread is
    pump,      \* where the pump thread is, and the next chunk it decodes
    worker,    \* where the worker is, and the position of a seek under way
    heard      \* history: from, where playback last started; next, heard up to here

pipelineVars == <<moments, gate, buffer, ring, out, download, pump, worker, heard>>

NoSeek == 0
Positions == 1 .. Chunks

Gates == [gated: BOOLEAN, paused: BOOLEAN, activated: BOOLEAN, aborted: BOOLEAN]
Buffers == [data: 0 .. Chunks, complete: BOOLEAN, failed: BOOLEAN,
            cancelled: BOOLEAN, armed: BOOLEAN]
Rings == [frames: Seq(Positions), finished: BOOLEAN, cancelled: BOOLEAN, notified: BOOLEAN]
Outs == [held: Seq(Positions), ended: BOOLEAN, pulled: BOOLEAN]
Downloads == {"permit", "gate", "read", "done"}
Pumps == [at: {"probe", "loop", "read", "asleep", "parked", "eos", "done"},
          pos: 1 .. Chunks + 1]
Workers == [at: {"loading", "prepared", "active", "seeking", "cancel", "notify",
                 "joinPump", "joinDownload", "gone", "failed"},
            seek: 0 .. Chunks]
Histories == [from: Positions, next: 1 .. Chunks + 1, seeks: 0 .. MaxSeeks]

PipelineTypeOK ==
    /\ moments \subseteq Moments
    /\ gate \in Gates /\ buffer \in Buffers /\ ring \in Rings /\ out \in Outs
    /\ download \in Downloads /\ pump \in Pumps /\ worker \in Workers
    /\ heard \in Histories

\* prepare_session: with a length the body is downloaded while it is decoded.
PipelineInit ==
    /\ moments \in SUBSET Moments
    /\ \E gated, streamed \in BOOLEAN :
         /\ gated => streamed
         /\ gate = [gated |-> gated, paused |-> FALSE, activated |-> FALSE, aborted |-> FALSE]
         /\ buffer = [data |-> IF streamed THEN 0 ELSE Chunks, complete |-> ~streamed,
                      failed |-> FALSE, cancelled |-> FALSE, armed |-> FALSE]
         /\ download = IF streamed THEN "permit" ELSE "done"
    /\ ring = [frames |-> <<>>, finished |-> FALSE, cancelled |-> FALSE, notified |-> FALSE]
    /\ out = [held |-> <<>>, ended |-> FALSE, pulled |-> FALSE]
    /\ pump = [at |-> "probe", pos |-> 1]
    /\ worker = [at |-> "loading", seek |-> NoSeek]
    /\ heard = [from |-> 1, next |-> 1, seeks |-> 0]

-----------------------------------------------------------------------------
\* The download thread.

GateHolds == gate.gated /\ gate.paused /\ ~gate.activated

\* wait_for_download_permission, and the look at the flag that follows it.
DownloadPermit ==
    /\ download = "permit"
    /\ download' = CASE gate.aborted \/ buffer.cancelled -> "done"
                     [] GateHolds /\ ~gate.aborted /\ ~buffer.cancelled -> "gate"
                     [] OTHER -> "read"
    /\ UNCHANGED <<moments, gate, buffer, ring, out, pump, worker, heard>>

\* notify_all of the buffer's condition variable.
ReaderWoken == IF pump.at = "asleep" THEN [pump EXCEPT !.at = "read"] ELSE pump

\* response.read: a chunk, the end of the body, or an error; what it returns is
\* stored under the mutex and the reader is woken.
DownloadRead ==
    /\ download = "read"
    /\ ~buffer.armed
    /\ \/ /\ buffer.data < Chunks
          /\ buffer' = [buffer EXCEPT !.data = @ + 1]
          /\ download' = "permit"
       \/ /\ buffer.data = Chunks
          /\ buffer' = [buffer EXCEPT !.complete = TRUE]
          /\ download' = "done"
       \/ /\ buffer' = [buffer EXCEPT !.complete = TRUE, !.failed = TRUE]
          /\ download' = "done"
    /\ pump' = ReaderWoken
    /\ UNCHANGED <<moments, gate, ring, out, worker, heard>>

-----------------------------------------------------------------------------
\* The pump thread.

\* Probing needs the head of the body, and may fail; the worker waits for it.
\* A worker that learns of the failure gives up the download thread it started.
PumpProbe ==
    /\ pump.at = "probe"
    /\ buffer.data > 0 \/ buffer.complete
    /\ \/ /\ buffer.data > 0
          /\ pump' = [pump EXCEPT !.at = "loop"]
          /\ worker' = [worker EXCEPT !.at = IF gate.gated THEN "prepared" ELSE "active"]
       \/ /\ pump' = [pump EXCEPT !.at = "done"]
          /\ worker' = [worker EXCEPT !.at = "failed"]
    /\ UNCHANGED <<moments, gate, buffer, ring, out, download, heard>>

PumpCancelled ==
    /\ pump.at \in {"loop", "eos"}
    /\ ring.cancelled
    /\ pump' = [pump EXCEPT !.at = "done"]
    /\ UNCHANGED <<moments, gate, buffer, ring, out, download, worker, heard>>

\* A seek that succeeds empties the ring and resets its flags.  In its loop the
\* pump then goes on decoding; after the last packet it returns.
PumpSeek ==
    /\ pump.at \in {"loop", "eos"}
    /\ ~ring.cancelled
    /\ worker.at = "seeking"
    /\ LET next == IF pump.at = "loop" THEN "loop" ELSE "done"
       IN \/ /\ ring' = [ring EXCEPT !.frames = <<>>, !.finished = FALSE, !.notified = FALSE]
             /\ pump' = [at |-> next, pos |-> worker.seek]
             /\ heard' = [heard EXCEPT !.from = worker.seek, !.next = worker.seek]
          \/ /\ pump' = [pump EXCEPT !.at = next]
             /\ UNCHANGED <<ring, heard>>
    /\ worker' = [at |-> "active", seek |-> NoSeek]
    /\ UNCHANGED <<moments, gate, buffer, out, download>>

RingFull == Len(ring.frames) >= Limit

\* Back pressure: a prepared track parks at the gate (pause_until_activated);
\* one that plays sleeps and looks again.
\* Mutant: an abort is not seen.
MayParkAborted == gate.gated /\ ~gate.activated
MayPark == gate.gated /\ ~gate.activated /\ ~gate.aborted

PumpPark ==
    /\ pump.at = "loop"
    /\ ~ring.cancelled /\ worker.at # "seeking" /\ RingFull
    /\ MayPark
    /\ gate' = [gate EXCEPT !.paused = TRUE]
    /\ pump' = [pump EXCEPT !.at = "parked"]
    /\ UNCHANGED <<moments, buffer, ring, out, download, worker, heard>>

PumpNext ==
    /\ pump.at = "loop"
    /\ ~ring.cancelled /\ worker.at # "seeking" /\ ~RingFull
    /\ pump' = [pump EXCEPT !.at = "read"]
    /\ UNCHANGED <<moments, gate, buffer, ring, out, download, worker, heard>>

PumpFinishes(next) ==
    /\ ring' = [ring EXCEPT !.finished = TRUE]
    /\ pump' = [pump EXCEPT !.at = next]
    /\ UNCHANGED buffer

\* next_packet reads from StreamingMediaSource: a frame, the end, an error, or
\* a wait for the download.  The flag is read under the mutex, which the wait
\* gives up; with the moment "cancel" the reader is armed in between.
PumpRead ==
    /\ pump.at = "read"
    /\ ~buffer.armed
    /\ "underrun" \in moments \/ ~out.pulled
    /\ LET available == pump.pos <= buffer.data
       IN \/ /\ buffer.cancelled
             /\ PumpFinishes("done")
          \/ /\ ~buffer.cancelled /\ available
             /\ ring' = [ring EXCEPT !.frames = Append(@, pump.pos)]
             /\ pump' = [at |-> "loop", pos |-> pump.pos + 1]
             /\ UNCHANGED buffer
          \/ /\ ~buffer.cancelled /\ ~available /\ buffer.complete
             /\ PumpFinishes(IF buffer.failed THEN "done" ELSE "eos")
          \/ /\ ~buffer.cancelled /\ ~available /\ ~buffer.complete
             /\ \/ /\ "cancel" \in moments
                   /\ buffer' = [buffer EXCEPT !.armed = TRUE]
                   /\ UNCHANGED pump
                \/ /\ "cancel" \notin moments
                   /\ pump' = [pump EXCEPT !.at = "asleep"]
                   /\ UNCHANGED buffer
             /\ UNCHANGED ring
    /\ UNCHANGED <<moments, gate, out, download, worker, heard>>

PumpSleeps ==
    /\ buffer.armed
    /\ buffer' = [buffer EXCEPT !.armed = FALSE]
    /\ pump' = [pump EXCEPT !.at = "asleep"]
    /\ UNCHANGED <<moments, gate, ring, out, download, worker, heard>>

-----------------------------------------------------------------------------
\* The output callback, OutputWriter::write, one frame at a time.

Streaming == worker.at \in {"active", "seeking"}

\* next_output_frame interpolates between two frames; the last one is played
\* when the source is finished, and ends the resampler.
\* Mutant: the last one is kept back.
HasTwoFrames == ~out.ended /\ Len(out.held) > 1
HasFrame ==
    /\ ~out.ended
    /\ Len(out.held) > 1 \/ (Len(out.held) = 1 /\ ring.finished)

\* Mutant: an underrun is taken for the end.
DrainedUnfinished == ring.frames = <<>> /\ out.held = <<>>
Drained == ring.finished /\ ring.frames = <<>> /\ out.held = <<>>

\* pull_for_output.  A call that finds nothing to do writes silence.
OutputPull ==
    /\ Streaming /\ ~out.pulled
    /\ ring.frames # <<>> \/ HasFrame \/ (Drained /\ ~ring.notified)
    /\ out' = [out EXCEPT !.held = @ \o ring.frames, !.pulled = TRUE]
    /\ ring' = [ring EXCEPT !.frames = <<>>]
    /\ UNCHANGED <<moments, gate, buffer, download, pump, worker, heard>>

OutputFrame ==
    /\ Streaming /\ out.pulled
    /\ \/ /\ HasFrame
          /\ out' = [held |-> Tail(out.held), ended |-> Len(out.held) = 1, pulled |-> FALSE]
          /\ heard' = IF Head(out.held) = heard.next
                      THEN [heard EXCEPT !.next = @ + 1] ELSE heard
          /\ UNCHANGED ring
       \/ /\ ~HasFrame
          /\ out' = [out EXCEPT !.pulled = FALSE]
          /\ ring' = [ring EXCEPT !.notified = @ \/ Drained]
          /\ UNCHANGED heard
    /\ UNCHANGED <<moments, gate, buffer, download, pump, worker>>

-----------------------------------------------------------------------------
\* The worker that owns the track.

\* Mutant: only the pump is woken.
GateOpenedForPump ==
    /\ pump' = IF pump.at = "parked" THEN [pump EXCEPT !.at = "loop"] ELSE pump
    /\ download' = download
\* Both threads that wait at the gate go on.
GateOpened ==
    /\ pump' = IF pump.at = "parked" THEN [pump EXCEPT !.at = "loop"] ELSE pump
    /\ download' = IF download = "gate" THEN "permit" ELSE download

\* activate_gapless_preparation, when the prepared track is to be played.
Activate ==
    /\ worker.at = "prepared"
    /\ worker' = [worker EXCEPT !.at = "active"]
    /\ gate' = [gate EXCEPT !.activated = TRUE, !.paused = FALSE]
    /\ GateOpened
    /\ UNCHANGED <<moments, buffer, ring, out, heard>>

LastPacketDecoded == pump.at \in {"eos", "done"} \/ pump.pos > Chunks

\* Seek: the command is sent to the pump, and the worker waits for the answer.
SeekTo(position) ==
    /\ worker.at = "active"
    /\ heard.seeks < MaxSeeks
    /\ "eos" \in moments \/ ~LastPacketDecoded
    /\ worker' = [at |-> "seeking", seek |-> position]
    /\ heard' = [heard EXCEPT !.seeks = @ + 1]
    /\ UNCHANGED <<moments, gate, buffer, ring, out, download, pump>>

\* The pump has returned: the command or its answer is lost.
SeekLost ==
    /\ worker.at = "seeking" /\ pump.at = "done"
    /\ worker' = [at |-> "active", seek |-> NoSeek]
    /\ UNCHANGED <<moments, gate, buffer, ring, out, download, pump, heard>>

\* tear_down_core: the stream has been dropped, which waits for its callback;
\* then abort, cancel, notify and the joins.
TearDown ==
    /\ worker.at \in {"prepared", "active"}
    /\ ~out.pulled
    /\ worker' = [worker EXCEPT !.at = "cancel"]
    /\ gate' = [gate EXCEPT !.aborted = @ \/ gate.gated, !.paused = FALSE]
    /\ GateOpened
    /\ UNCHANGED <<moments, buffer, ring, out, heard>>

CancelFlags ==
    /\ worker.at = "cancel"
    /\ worker' = [worker EXCEPT !.at = "notify"]
    /\ ring' = [ring EXCEPT !.cancelled = TRUE]
    /\ buffer' = [buffer EXCEPT !.cancelled = TRUE]
    /\ UNCHANGED <<moments, gate, out, download, pump, heard>>

NotifyReader ==
    /\ worker.at = "notify"
    /\ worker' = [worker EXCEPT !.at = "joinPump"]
    /\ pump' = ReaderWoken
    /\ UNCHANGED <<moments, gate, buffer, ring, out, download, heard>>

JoinThreads ==
    /\ \/ /\ worker.at = "joinPump" /\ pump.at = "done"
          /\ worker' = [worker EXCEPT !.at = "joinDownload"]
       \/ /\ worker.at = "joinDownload" /\ download = "done"
          /\ worker' = [worker EXCEPT !.at = "gone"]
    /\ UNCHANGED <<moments, gate, buffer, ring, out, download, pump, heard>>

-----------------------------------------------------------------------------
DownloadThread == DownloadPermit \/ DownloadRead

PumpThread ==
    \/ PumpProbe \/ PumpCancelled \/ PumpSeek \/ PumpPark \/ PumpNext
    \/ PumpRead \/ PumpSleeps

OutputCallback == OutputPull \/ OutputFrame

WorkerThread == SeekLost \/ CancelFlags \/ NotifyReader \/ JoinThreads

\* What the user and the controller decide.
Requests == Activate \/ TearDown \/ \E position \in Positions : SeekTo(position)

PipelineNext ==
    \/ DownloadThread
    \/ PumpThread
    \/ OutputCallback
    \/ WorkerThread
    \/ Requests

\* Threads that can run do, a read of the response returns, the device asks for
\* samples.  Nobody has to activate, to seek or to stop.
PipelineFairness ==
    /\ WF_pipelineVars(DownloadThread)
    /\ WF_pipelineVars(PumpThread)
    /\ WF_pipelineVars(OutputCallback)
    /\ WF_pipelineVars(WorkerThread)

PipelineSpec == PipelineInit /\ [][PipelineNext]_pipelineVars /\ PipelineFairness

-----------------------------------------------------------------------------
\* When the end is signalled, everything from where playback last started was
\* heard, in order, whatever the moments: the end of a track is never reported
\* over frames still decoded, pulled or interpolated (OutputWriter::write).
\* Only a body that broke off ends early.
EndMeansHeard ==
    ring.notified /\ ~buffer.failed => heard.next = Chunks + 1

\* A track that plays comes to its end or is torn down: no wait between
\* download, pump, gate and callback holds it up, however it was loaded.
EndIsSignalled ==
    (worker.at = "active" /\ moments \cap {"underrun", "eos"} = {})
        ~> (ring.notified \/ ~Streaming)

\* A track that is torn down, or failed to load, leaves no thread behind, and
\* the worker that joins them goes on.
TearDownEnds ==
    (worker.at \in {"cancel", "failed"} /\ "cancel" \notin moments)
        ~> (pump.at = "done" /\ download = "done" /\ worker.at \in {"gone", "failed"})

\* The threads' bookkeeping agrees: only a pump that decoded or gave up leaves
\* the ring finished, a parked pump has a gate that somebody can still open,
\* and the reader is asleep only where the download is not complete.
ThreadsAgree ==
    /\ ring.finished => pump.at \in {"eos", "done"}
    /\ pump.at = "parked" => gate.gated /\ gate.paused /\ ~gate.activated /\ ~gate.aborted
    /\ download = "gate" => gate.paused
    /\ pump.at = "asleep" => ~buffer.complete /\ pump.pos > buffer.data

-----------------------------------------------------------------------------
\* What the comments say, and short moments break.

\* SharedDownloadBuffer::cancel: "wake any blocked reader".
CancelWakesReader ==
    (buffer.cancelled /\ pump.at = "asleep") ~> pump.at # "asleep"

\* pump_wait_after_eos: "a seek command (which resets and restarts decoding)":
\* after a seek, the position sought is heard.  TLC refutes it.
SeekRestartsDecoding ==
    (moments = {"eos"} /\ worker.at = "active" /\ heard.next = heard.from /\ heard.seeks > 0)
        ~> (heard.next # heard.from \/ ~Streaming \/ buffer.failed)
=============================================================================
