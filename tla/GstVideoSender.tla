---------------------------- MODULE GstVideoSender ----------------------------
(***************************************************************************)
(* GstVideoSender of yolov26_rpi_transport.cpp: the object that owns the   *)
(* GStreamer pipeline appsrc ! queue ! ... ! encoder ! ... ! udpsink.  The *)
(* renderer thread pushes frames, main starts, polls and stops.            *)
(*                                                                         *)
(* A critical section of Impl::mutex is one action; push takes it twice    *)
(* and is outside it while it copies the frame and while the appsrc may    *)
(* block, stop detaches the pipeline under it and tears it down after.     *)
(* GStreamer itself is external, modelled by what start configures: an     *)
(* appsrc that blocks once one frame is waiting, and a leaky queue of one  *)
(* frame that throws the older frame away.                                 *)
(***************************************************************************)
EXTENDS Integers, Sequences

CONSTANTS
  MaxFrame,      \* bound: calls of push that take a reference
  MaxPipeline,   \* bound: calls of start that build a pipeline
  MaxTime,       \* bound: the host clock
  MaxBase        \* bound: running time of a pipeline when start returns

ASSUME VideoAssumption ==
  /\ MaxFrame \in Nat /\ MaxPipeline \in Nat /\ MaxTime \in Nat /\ MaxBase \in Nat

None == 0
Pipelines == 1 .. MaxPipeline

VARIABLES
  now,        \* the host clock
  running,    \* running
  pipeline,   \* pipeline, or None
  appsrc,     \* the pipeline whose appsrc is kept, or None
  base,       \* base_running_time
  anchor,     \* host_anchor
  lastPts,    \* last_pts, or -1 while have_last_pts is false
  doomed,     \* stop: the pipeline between detaching and tearing down, or None
  pushPc,     \* push: "idle", "copying", "stamped"
  source,     \* push: the pipeline whose appsrc is referenced, or None
  frame,      \* push: number of the current frame
  pts,        \* push: its time stamp
  acquired,   \* push: acquired_at
  built,      \* pipelines built so far
  owned,      \* pipelines the sender holds a reference to
  state,      \* external, per pipeline: "null", "playing" or "failed"
  bus,        \* external, per pipeline: an error or end-of-stream is on its bus
  input,      \* external, per pipeline: frames in the appsrc
  raw,        \* external, per pipeline: frames in the leaky queue
  encoded,    \* history: last frame an encoder took
  entered,    \* history: last frame that entered an appsrc
  reached     \* history: latest mapped acquisition time of this pipeline's frames

implVars == <<running, pipeline, appsrc, base, anchor, lastPts>>
pushVars == <<pushPc, source, frame, pts, acquired>>
gstVars == <<state, bus, input, raw>>
history == <<encoded, entered, reached>>
vars == <<now, implVars, doomed, pushVars, built, owned, gstVars, history>>

NoFrame == [frame |-> 0, pts |-> -1, pipeline |-> None]
Current == [frame |-> frame, pts |-> pts, pipeline |-> source]

Init ==
  /\ now = 0
  /\ running = FALSE /\ pipeline = None /\ appsrc = None
  /\ base = 0 /\ anchor = 0 /\ lastPts = -1
  /\ doomed = None
  /\ pushPc = "idle" /\ source = None /\ frame = 0 /\ pts = 0 /\ acquired = 0
  /\ built = 0 /\ owned = {}
  /\ state = [p \in Pipelines |-> "null"]
  /\ bus = [p \in Pipelines |-> FALSE]
  /\ input = [p \in Pipelines |-> <<>>]
  /\ raw = [p \in Pipelines |-> <<>>]
  /\ encoded = NoFrame /\ entered = NoFrame /\ reached = 0

-------------------------------------------------------------------------------
(* start: on success everything is filled in under one lock.                *)

CanStart == ~running /\ doomed = None /\ built < MaxPipeline

Start ==
  /\ CanStart
  /\ built' = built + 1
  /\ owned' = owned \cup {built + 1}
  /\ state' = [state EXCEPT ![built + 1] = "playing"]
  /\ pipeline' = built + 1 /\ appsrc' = built + 1
  /\ base' \in 0 .. MaxBase
  /\ anchor' = now
  /\ lastPts' = -1
  /\ reached' = 0
  /\ running' = TRUE
  /\ UNCHANGED <<now, doomed, pushVars, bus, input, raw, encoded, entered>>

\* No element, no link, no pad, no PLAYING: the catch block takes the probe off, brings
\* the pipeline to NULL and releases it with the elements that are not in it yet.  This
\* is its net effect, under one lock; that it misses none of them is taken from the code.
StartFails ==
  /\ CanStart
  /\ built' = built + 1
  /\ UNCHANGED <<now, implVars, doomed, pushVars, owned, gstVars, history>>

-------------------------------------------------------------------------------
(* push *)

\* First critical section: a reference to the appsrc, or false.
PushBegin ==
  /\ pushPc = "idle"
  /\ frame < MaxFrame
  /\ running /\ appsrc # None
  /\ source' = appsrc
  /\ frame' = frame + 1
  /\ acquired' \in 0 .. now
  /\ pushPc' = "copying"
  /\ UNCHANGED <<now, implVars, doomed, pts, built, owned, gstVars, history>>

\* Bad input, no memory for the buffer, or it cannot be mapped: false.
PushGivesUp ==
  /\ pushPc = "copying"
  /\ source' = None
  /\ pushPc' = "idle"
  /\ UNCHANGED <<now, implVars, doomed, frame, pts, acquired, built, owned, gstVars, history>>

\* The host time of the acquisition on the pipeline's clock, from its beginning.
Larger(a, b) == IF a > b THEN a ELSE b
Mapped == Larger(0, base + (acquired - anchor))

\* MUTANT of Stamp: the time stamp is not kept behind the previous one.
StampUnordered ==
  /\ pushPc = "copying"
  /\ pts' = Mapped
  /\ lastPts' = pts'
  /\ reached' = Larger(reached, Mapped)
  /\ pushPc' = "stamped"
  /\ UNCHANGED <<now, running, pipeline, appsrc, base, anchor, doomed, source, frame,
                 acquired, built, owned, gstVars, encoded, entered>>

\* MUTANT of Stamp: a repeated or earlier time is replaced by the host clock.
StampWithClock ==
  /\ pushPc = "copying"
  /\ pts' = IF Mapped <= lastPts THEN Larger(lastPts + 1, base + (now - anchor) + 1)
                                 ELSE Mapped
  /\ lastPts' = pts'
  /\ reached' = Larger(reached, Mapped)
  /\ pushPc' = "stamped"
  /\ UNCHANGED <<now, running, pipeline, appsrc, base, anchor, doomed, source, frame,
                 acquired, built, owned, gstVars, encoded, entered>>

\* Second critical section, with the values of whatever pipeline is the current
\* one by then.
Stamp ==
  /\ pushPc = "copying"
  /\ pts' = IF Mapped <= lastPts THEN lastPts + 1 ELSE Mapped
  /\ lastPts' = pts'
  /\ reached' = Larger(reached, Mapped)
  /\ pushPc' = "stamped"
  /\ UNCHANGED <<now, running, pipeline, appsrc, base, anchor, doomed, source, frame,
                 acquired, built, owned, gstVars, encoded, entered>>

\* The appsrc takes the buffer once nothing waits in it; push blocks until then.
PushOk ==
  /\ pushPc = "stamped"
  /\ state[source] = "playing"
  /\ input[source] = <<>>
  /\ input' = [input EXCEPT ![source] = <<Current>>]
  /\ entered' = Current
  /\ source' = None
  /\ pushPc' = "idle"
  /\ UNCHANGED <<now, implVars, doomed, frame, pts, acquired, built, owned, state, bus, raw,
                 encoded, reached>>

\* A pipeline that failed or was set to NULL refuses the buffer, also from a push
\* that was already blocked.
PushRefused ==
  /\ pushPc = "stamped"
  /\ state[source] # "playing"
  /\ source' = None
  /\ pushPc' = "idle"
  /\ UNCHANGED <<now, implVars, doomed, frame, pts, acquired, built, owned, gstVars, history>>

-------------------------------------------------------------------------------
(* stop, also called by the destructor, and poll_bus_error *)

\* MUTANT of StopDetaches: the appsrc is left behind.
StopLeavesAppsrc ==
  /\ doomed = None
  /\ pipeline # None
  /\ doomed' = pipeline
  /\ pipeline' = None
  /\ UNCHANGED <<now, running, appsrc, base, anchor, lastPts, pushVars, built, owned, gstVars,
                 history>>

StopDetaches ==
  /\ doomed = None
  /\ pipeline # None
  /\ doomed' = pipeline
  /\ running' = FALSE /\ pipeline' = None /\ appsrc' = None
  /\ UNCHANGED <<now, base, anchor, lastPts, pushVars, built, owned, gstVars, history>>

\* MUTANT of StopTearsDown: the reference is dropped without going to NULL.
StopOnlyUnrefs ==
  /\ doomed # None
  /\ owned' = owned \ {doomed}
  /\ doomed' = None
  /\ UNCHANGED <<now, implVars, pushVars, built, gstVars, history>>

\* The pipeline goes to NULL, which empties it, loses its probe, and is released.
StopTearsDown ==
  /\ doomed # None
  /\ state' = [state EXCEPT ![doomed] = "null"]
  /\ bus' = [bus EXCEPT ![doomed] = FALSE]
  /\ input' = [input EXCEPT ![doomed] = <<>>]
  /\ raw' = [raw EXCEPT ![doomed] = <<>>]
  /\ owned' = owned \ {doomed}
  /\ doomed' = None
  /\ UNCHANGED <<now, implVars, pushVars, built, history>>

PollBusError ==
  /\ doomed = None
  /\ pipeline # None
  /\ bus[pipeline]
  /\ bus' = [bus EXCEPT ![pipeline] = FALSE]
  /\ UNCHANGED <<now, implVars, doomed, pushVars, built, owned, state, input, raw, history>>

-------------------------------------------------------------------------------
(* GStreamer: the streaming threads of a playing pipeline. *)

\* MUTANT of Stream: the queue leaks upstream, the new frame is the one lost.
StreamLeaksUpstream(p) ==
  /\ state[p] = "playing"
  /\ input[p] # <<>>
  /\ raw' = [raw EXCEPT ![p] = IF raw[p] = <<>> THEN input[p] ELSE raw[p]]
  /\ input' = [input EXCEPT ![p] = <<>>]
  /\ UNCHANGED <<now, implVars, doomed, pushVars, built, owned, state, bus, history>>

\* From the appsrc into the queue of one frame; the older frame leaks.
Stream(p) ==
  /\ state[p] = "playing"
  /\ input[p] # <<>>
  /\ raw' = [raw EXCEPT ![p] = input[p]]
  /\ input' = [input EXCEPT ![p] = <<>>]
  /\ UNCHANGED <<now, implVars, doomed, pushVars, built, owned, state, bus, history>>

Encode(p) ==
  /\ state[p] = "playing"
  /\ raw[p] # <<>>
  /\ encoded' = raw[p][1]
  /\ raw' = [raw EXCEPT ![p] = <<>>]
  /\ UNCHANGED <<now, implVars, doomed, pushVars, built, owned, state, bus, input, entered,
                 reached>>

Fail(p) ==
  /\ state[p] = "playing"
  /\ state' = [state EXCEPT ![p] = "failed"]
  /\ bus' = [bus EXCEPT ![p] = TRUE]
  /\ UNCHANGED <<now, implVars, doomed, pushVars, built, owned, input, raw, history>>

Tick ==
  /\ now < MaxTime
  /\ now' = now + 1
  /\ UNCHANGED <<implVars, doomed, pushVars, built, owned, gstVars, history>>

-------------------------------------------------------------------------------
Main == Start \/ StartFails \/ StopDetaches \/ StopTearsDown \/ PollBusError
Pusher == PushBegin \/ PushGivesUp \/ Stamp \/ PushOk \/ PushRefused
GStreamer == \E p \in Pipelines : Stream(p) \/ Encode(p) \/ Fail(p)

Next == Main \/ Pusher \/ GStreamer \/ Tick

SafeSpec == Init /\ [][Next]_vars

\* The renderer runs and a stop that has begun is finished.  The streaming threads
\* owe nothing: the encoder may hang.
Spec ==
  /\ SafeSpec
  /\ WF_vars(PushGivesUp \/ Stamp) /\ WF_vars(PushOk \/ PushRefused) /\ WF_vars(StopTearsDown)

-------------------------------------------------------------------------------
Frames == [frame : 0 .. MaxFrame, pts : Nat \cup {-1}, pipeline : Pipelines \cup {None}]

SenderTypeOK ==
  /\ now \in 0 .. MaxTime
  /\ running \in BOOLEAN
  /\ pipeline \in Pipelines \cup {None} /\ appsrc \in Pipelines \cup {None}
  /\ base \in 0 .. MaxBase /\ anchor \in 0 .. now
  /\ lastPts \in Nat \cup {-1} /\ reached \in Nat
  /\ doomed \in Pipelines \cup {None}

PushTypeOK ==
  /\ pushPc \in {"idle", "copying", "stamped"}
  /\ source \in Pipelines \cup {None}
  /\ frame \in 0 .. MaxFrame /\ pts \in Nat /\ acquired \in 0 .. now

GstTypeOK ==
  /\ built \in 0 .. MaxPipeline
  /\ owned \subseteq Pipelines
  /\ state \in [Pipelines -> {"null", "playing", "failed"}]
  /\ bus \in [Pipelines -> BOOLEAN]

FrameTypeOK ==
  /\ input \in [Pipelines -> Seq(Frames)] /\ raw \in [Pipelines -> Seq(Frames)]
  /\ encoded \in Frames /\ entered \in Frames

TypeOK == SenderTypeOK /\ PushTypeOK /\ GstTypeOK /\ FrameTypeOK

\* The sender owns the current pipeline, the one stop is tearing down, and nothing
\* else: neither stop nor a start that fails leaves one behind.  What push may take
\* a reference from is owned, and a pipeline that was let go of has been set to
\* NULL, so a push that still holds a reference to its appsrc meets a dead end and
\* nothing of it runs on.
PipelinesAccountedFor ==
  /\ owned = {pipeline, doomed} \ {None}
  /\ appsrc # None => appsrc \in owned
  /\ \A p \in Pipelines \ owned : state[p] = "null"
  /\ pushPc # "idle" <=> source # None

\* RTP time follows the acquisition on the host clock: a time stamp is never more
\* than one unit per earlier frame ahead of the latest acquisition, so repeated or
\* reordered acquisition times cannot make the stream drift.
PtsFollowsAcquisition == lastPts <= reached + frame

\* The encoder is given frames in the order of their pushes with time stamps that
\* strictly increase, whatever the acquisition times were.
EncoderSeesIncreasingPts ==
  [][encoded' # encoded /\ encoded'.pipeline = encoded.pipeline =>
       encoded'.frame > encoded.frame /\ encoded'.pts > encoded.pts]_vars

\* Time stamps are usable by a receiver: strictly increasing at the encoder and yet
\* never drifting from the acquisition, whatever order the frames were acquired in.
TimeStampsAreSound == []PtsFollowsAcquisition /\ EncoderSeesIncreasingPts

\* Raw frames are bounded and latest-only: when the encoder takes a frame, at most
\* one frame that entered after it is waiting, however long it had been stalled.
EncoderLag ==
  [][encoded' # encoded =>
       \A p \in Pipelines : encoded'.pipeline = p /\ entered.pipeline = p =>
         entered = encoded' \/ input[p] = <<entered>>]_vars

\* stop releases a push that is blocked in an encoder that does not drain.
StopReleasesPush == ~running ~> pushPc = "idle"
===============================================================================
