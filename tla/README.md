# Verification of the KV260 + RealSense D455 live-inference programs

The repository runs YOLOv26 (and DenseBox) on the DPU of a Kria KV260, fed by a
RealSense D455. Three live programs share one inference core:

* `live_yolov26_rpi` sends annotated H.264 video to a Raspberry Pi over RTP/UDP and,
  once per interval, a face-detected report to Redis;
* `live_yolov26_hdmi` shows the frames on a local screen through DRM/KMS or X11;
* `live_yolov26_realsense` serves them to a browser as MJPEG.

All of them have the same shape, a capture/inference thread that hands its newest
frame to a display thread, and the same hard parts: threads that meet in a one-frame
slot, calls into hardware and networks that block or fail, and a shutdown that must
work at any moment. This directory holds TLA+ models of those parts, TLC configurations
for small instances, and TLAPS proofs for every instance.

Paths below are relative to `src/inference/yolov26/` unless they begin with `src/`.

## 1. Inventory

| Part | State | Operations | Meets the rest through |
|---|---|---|---|
| Latest-frame hand-off, `core/yolov26_realsense_core.hpp:75-149` | `pending_`, `stopped_`, mutex, condition variable | `publish`, `wait_pop`, `try_pop`, `stop` | capture thread publishes; renderer waits, HDMI GUI thread polls; main stops |
| Redis publisher, `rpi/yolov26_rpi_transport.cpp:421-851` | `fd_`, `reader_`, `pending_` | `connect_deadline`, `publish`, `close`, `connected` | owned by the report worker; TCP to Redis; stop token |
| Face report worker, `rpi/yolov26_rpi_transport.cpp:945-1111`, schedule and `LatestFaceState` in `rpi/yolov26_rpi_control.*` | deadline on the report grid, `next_attempt`, `failures`; the face state | `run_face_publisher`, `update`, `invalidate`, `snapshot` | capture thread updates, worker reads; worker calls the Redis publisher |
| Sender process, `rpi/live_yolov26_rpi.cpp` | `running`, `g_workers_stop`, `signal_fired`, `capture_error`, `render_error`, exit code | start-up, capture loop, renderer, worker, signal watch, shutdown | all of the above |
| Video sender, `rpi/yolov26_rpi_transport.cpp:1288-1839` | pipeline, appsrc, time base, last PTS, `running` | `start`, `push`, `poll_bus_error`, `stop` | renderer pushes, main polls and stops; GStreamer threads |
| Encoder preflight, `select_encoder`, `smoke_encoder`, `run_bounded` | child pid, pipe, deadlines | try an encoder, spawn, read, reap, SIGTERM, SIGKILL | child process `gst-launch-1.0`; stop token |
| Sender telemetry, `rpi/yolov26_rpi_control.hpp:121-166` | window and total counters | add, take a window | capture thread and renderer |
| Option parsing and host validation, `rpi/yolov26_rpi_control.cpp` | none | strings to options | start-up only |
| Inference core, `core/yolov26_realsense_core.cpp` | tensors, per-frame buffers | profile selection, decoding, letterbox, median depth | called by each capture thread |
| System monitor, `core/yolov26_realsense_core.cpp:1182-1337` | last `/proc` counters | sample | telemetry |
| HDMI program, `hdmi/live_yolov26_hdmi.cpp`, control state in `hdmi/yolov26_hdmi_control.*` | worker flag, `worker_error`, shared view state | capture worker, GUI loop | hand-off, display |
| KMS display, `hdmi/yolov26_kms_display.cpp` | DRM objects, two buffers, the saved CRTC, terminal mode | set-up, `show`, `poll`, teardown | HDMI GUI thread; kernel |
| X11 display, `hdmi/yolov26_hdmi_display.cpp` | a window | `show`, `poll` | HDMI GUI thread |
| MJPEG program, `mjpeg/live_yolov26_realsense.cpp` | one client socket | accept, encode, send | hand-off; browser |
| DenseBox programs, `src/inference/densebox/` | as the MJPEG program | the same, before the common core existed | none of the above |
| Mock sender, `src/scripts/mock_yolov26_sender.py` | as the report worker | fake reports and video | Redis, receiver |
| Launch, build and telemetry scripts; camera bring-up tools | none | start other programs, summarise text | none |

### What is hard here, and what makes each part correct

* **Hand-off.** `notify_one` and `notify_all` run after the unlock, so other threads act
  between a change and its notification. Correct means: no wake-up is lost, every frame
  has exactly one fate, the drop count is exact, delivery is newest-only and in order, and
  nothing is delivered after `stop`, not even by `try_pop`, which does not read `stopped_`.
* **Redis publisher.** The protocol has no request ids. A reply that comes after its
  publish has timed out must not be read by the next publish, a command cut off halfway
  must not be completed by the next one, and each call must return in spite of its peer.
* **Report worker.** Calls take time, threads are scheduled late, the camera falls silent,
  the server comes and goes. Reports are skipped rather than replayed, silence replaces a
  stale state, the back-off 1/2/4/5 s is only cleared by a publish, and service returns
  within a bounded time.
* **Sender process.** Five parties (main, renderer, worker, watcher, GStreamer) can fail or
  be asked to stop at any step. Nothing may outlive the program, what its exit
  code tells and hides must be known, and Redis must never end the video.
* **Video sender.** `stop` tears a pipeline down under a blocked `push`; acquisition times
  repeat and run backwards; an encoder falls behind or hangs.
* **Encoder preflight.** A child may hang, ignore SIGTERM, answer it with status zero, or
  block on a full pipe; the user may stop the program meanwhile.
* **HDMI program.** The worker's error crosses to the GUI thread, which may itself fail, be
  closed or be stopped; the worker refers to locals of main.
* **KMS display.** DRM set-up fails half way and the console has to come back; one buffer is
  scanned out while the other is drawn, and which one depends on the plane.
* **MJPEG.** A browser never speaks, stops reading or leaves. The renderer may wait in a send
  for it while the capture fails; the socket and other locals of main are the renderer's by
  reference; two threads count one window whose entries belong together.
* **Inference core.** Profiles and tensors come in any order and have to be matched by what
  they are. Sizes are rounded one by one and have to add up, boxes lie across the border,
  readings are missing: each time a value at the edge decides.

`PROJECT.json` lists every hazard at its line with the properties that cover it.

## 2. Plan

Done, in order of importance to the system:

1. `LatestFrame` (abstract cell), `LatestFrameHandoff` (mutex and condition variable),
   `LatestFrameHandoff_proofs`.
2. `RedisPublisher`, `RedisPublisher_proofs`.
3. `FacePublisher`, `MCFacePublisher`, `FacePublisher_proofs`.
4. `RpiSender`, which composes the promises of the others, and `RpiSender_proofs`.
5. `GstVideoSender` and `EncoderPreflight`, the way of the video out, with `Video_proofs`.
6. `KmsDisplay`.
7. `HdmiProgram`, over the promises of the hand-off and the display; `Hdmi_proofs` for it
   and the display.
8. `MjpegServer`: the MJPEG program and, as its other program, the live DenseBox program;
   `MjpegServer_proofs`.
9. `CameraProfiles`, `YoloRunner` and `InferenceCore`, which composes them,
   `MCInferenceCore`, `InferenceCore_proofs`.
10. Every safety property that a run checks is a theorem (section 6).

Left:

11. The clamp of `next_report_deadline` at the far end of the clock, and `SenderTelemetry`.

## 3. Modules and the code

A critical section of a mutex is one action; whatever the code does outside the lock is an
action of its own. An exception is modelled where it ends up: a variable of the catch block
that takes it. Names are the code's where TLA+ allows it. Each property is preceded by what
it says about the code. Operators marked `MUTANT of X` are plausible bugs of `X`: no
specification uses them, they show that a property would notice. `EncoderPreflight` and
`HdmiProgram` have `Preflight...` and `Program...` before common names, so that one proof
module can extend them together with `GstVideoSender` and `KmsDisplay`.

**LatestFrame, LatestFrameHandoff.** `Publish`/`PublishRefused` are the locked part of
`publish`, `NotifyOne` the call after the unlock. `Block`, `WaitPop` and `WaitPopStopped`
are the three outcomes of the predicate in `condition_.wait`, at entry and after each
wake-up, spurious ones included. `Stop` and `NotifyAll` likewise. `delivered`,
`overwritten`, `discarded`, `rejected` and `replacements` are history. `LatestFrame` is the
abstract promise: a cell that holds the newest frame offered, with `Take` fair. The
refinement maps every way of losing a frame to `lost`.

**RedisPublisher.** A loop iteration of the code is two steps, the checks at its head and
the `poll` with the system call after it. Bytes are counted in pieces that remember the
call they belong to, which is how a reply of another call is recognised. The peer is
external: it runs complete commands in the order of each connection, answers once, late or
never, sends junk, closes.

**FacePublisher.** One tick is one second since `schedule_origin`. A connect or publish has
a beginning and an end. `Update`, `Invalidate`, `ServerFlips`, `RequestStop` and `Tick`
interleave with each step of the worker. `LatestFaceState` is one `optional` under a mutex,
so a snapshot is part of the step that uses it. The clamp of the deadline at the far end of
the clock is left out; times stay far below it.

**RpiSender.** `mpc`, `rpc` and `wpc` are the places of main, renderer and worker;
`Signal` is the watcher. The parts are used as their own modules promise: the hand-off as
a slot, the worker as a loop of calls that return, the video sender as a `push` that blocks
while the encoder does not drain and fails once the pipeline has failed or is stopped.
`faults` is history: what really went wrong, against which the exit code is judged.

**GstVideoSender.** `push` takes the lock twice: `PushBegin` gets a reference to the
appsrc, `Stamp` computes the time stamp from whatever pipeline is current by then; between
the two, and while the appsrc blocks, `stop` and `start` may run. GStreamer is external and
modelled by the properties that `start` sets: an appsrc that blocks with one frame waiting
and a leaky queue of one frame. A `start` that fails is one step, its net effect: the catch
block of `start` runs under the same lock, and that it releases whatever exists by then is
taken from the code, not checked.

**EncoderPreflight.** Each phase of `run_bounded` is an action, with its deadline passing
at any moment; the child is external.

**KmsDisplay.** One action per call that can fail, in the order of the code; a call that
throws goes to `teardown`. Buffers are what `DumbBuffer` holds of them (`allocated`,
`framed`, `mapped`), pixels are the places that were painted (`painted`) and the number of
the picture (`picture`). The kernel and the controller are external: what each plane scans
out, and that removing a framebuffer switches its plane off. `lost` is history: what the
device refused to save or to restore. One thing the model shows and no document denies: a
picture of another size clears the buffer on screen as well, so the screen is black until
the next flip. `live_yolov26_hdmi` never changes the size after the first picture. The
settings of an overlay plane that was in use before are not restored; only it being
switched off is.

**HdmiProgram.** `gpc` and `wpc` are the places of main and of the capture worker. An
exception on its way is `raised` in the worker and `thrown` in main; the destructors that
run meanwhile (`CameraStopGuard`, `WorkerGuard`, the display) are the steps after it. Both
worker bodies are in it, chosen by `pattern`. The warm-up leaves to the loop, whose head
does the same as the test after the warm-up.

**MjpegServer.** `mpc` is the place of main, which is also the capture thread, `rpc` that of
the renderer. `program` chooses between the two programs: they share everything up to the
header of the stream and after the loop, and `DenseBox` is the one loop of the other. A frame
is one unit of the socket's room; a send waits for room (`SendDone`), goes nowhere once the
browser has left, and fails (`SendFails`) once the kernel has been told so or main has shut
the socket down. A request that is not for the stream is answered and closed. Counters of
`PerformanceMonitor` count in the window between two resets, which may come after any frame
sent.

**CameraProfiles.** The two passes of `select_camera_configuration`. A step takes any profile
not yet seen, so the runs cover every order in which librealsense may list them. A profile
"fits" by its format and rate; width and height are numbers because the order of the sizes
is what the selection is about.

**YoloRunner.** The constructor tensor by tensor, with the groups it makes of them; then
`preprocess` and `decode` as operators. Rounding is modelled on integers: `Round(n, d)` is
`std::round` of a quotient that is not negative, and the paddings are rounded in tenths
because the code moves the halves off the middle by 0.1. The gain is compared as a fraction;
single-precision error, which could matter where a quotient lies within 2^-20 of a half, is
left out. A score is the scaled class output cut off where the logistic function reaches 1
in single precision, so that equal scores of different outputs occur as they do in the code.

**InferenceCore.** The life of an inference process: select, construct, and for each frame
`preprocess`, `execute`, `decode`, and detection by detection the box, its depth region, the
readings and their median. `UseSelection`, `UseDetections` and `PushAnnotation` forget what
no later step refers to, which keeps the stages of the model independent of each other. The
coordinates of a detection are any, also outside the picture. `YoloBox` clamps both corners,
`FaceBox` one corner and the size, as the two programs do. `IsMedian` says what
`std::nth_element` leaves at `value_count / 2`.

## 4. Runs

| Run | Bounds | Shows |
|---|---|---|
| `handoff` | two waiters, a poller, two stoppers, four frames | one fate per frame, exact drop report, no lost wake-up, `stop` releases everybody, refinement of `LatestFrame` with its liveness |
| `redis` | two addresses, two sockets, two commands of two pieces, three junk pieces, a reply that just fits the limit of two | replies and commands are never mixed, an acknowledged publish ran once and in order, neither sockets nor received bytes pile up, every call returns |
| `face_delays` | interval 2, eight seconds, back-off 1/2/3/3, threads delayed at will | no replay, the back-off is kept, `stop` ends the worker |
| `face_prompt` | the real back-off, interval 1, nineteen seconds, threads scheduled at once | reports are recent; after any outage service is back in time |
| `sender` | none needed: the state is finite | nothing is left behind, no spurious failure and none hidden but those section 4 names, only video faults end the capture, the program ends when asked |
| `video` | three frames, one restart, a clock of three values, running time 0 or 1 | references, time stamps, latest-only queue, `stop` releases a blocked `push` |
| `kms` | both planes, two places of the picture, four pictures | the console comes back from every stage of the set-up, pictures are drawn off screen, nothing stale stays beside them, no framebuffer is removed under a running plane |
| `hdmi` | none needed: the state is finite | the worker ends before what it refers to, the exit code is honest, the program ends when asked |
| `preflight` | pipe and tail of two chunks, four chunks of output, option `auto` | no child or pipe is left, a test that had to be told to end never counts as passed, blame is deserved, each test ends |
| `mjpeg` | one frame of room in the socket, counters up to three (five for the two that may run ahead) | the renderer ends before its socket and its scope, a browser that leaves the stream is no error and one that leaves before its header is, drops and frames sent are off the frames counted in a window by one and two at most, a failure or a leaving browser ends the program |
| `inference` | seven profiles in any order, two strides, four tensors of eight kinds, three cells of two classes, pictures of sides 2, 3 and 5 in an input of 3 by 5, six coordinates in and outside the picture, three grid points with readings up to 3 | the lowest profile, the tensors of the right level, a letterbox that fits, the best detections, a depth region that is never empty, a distance that no minority of points can pull |
| `inference_range` | as `inference` | that `ReadingsInRange` does not hold: see below |

Why they are enough. More waiters or stoppers than two add only symmetric copies; four
frames let one be delivered, one overwritten, one thrown away and one refused in a single
behaviour, and the proofs remove the bound. Two Redis commands over two sockets are the
smallest case in which an old reply or half a command could reach a new call, and both
orders of timing out occur. Nineteen seconds hold the four back-off steps, 1 + 2 + 4 + 5,
and a recovery after them. Three junk pieces and a reply are more than the limit and one
`recv` together. One frame of room is the smallest socket in which a send waits. The sides of
`inference` make the picture wider and taller than the input, smaller and larger, with even
and odd padding; its cells are of two scales, one of which saturates. Three frames let a time stamp be pushed ahead by two
predecessors, and one restart puts two pipelines under one `push`. Four chunks exceed pipe
and tail together, so the child really blocks. Four pictures in two places put every
combination of old place, new place and buffer on screen. The theorems hold for
all values.

Deadlock is checked in `sender`, `redis`, `hdmi`, `mjpeg` and `inference`. Elsewhere `CHECK_DEADLOCK FALSE` is there
because the bounded clock, the frames or the test come to an end.

Some properties are conjunctions of named parts, such as `ExitIsHonest` or `NothingPilesUp`.
The theorems treat the parts one by one, and each part has a `MUTANT` in its module that
breaks it alone.

### The range of depth readings

`src/README.md:142` says of the distance: "Drop invalid readings (zero or out of range,
0.1 – 10 m)". `median_depth_in_color_roi` drops a reading only if it is zero
(`core/yolov26_realsense_core.cpp:1007`). The range in the calibration bounds the search of
`rs2_project_color_pixel_to_depth_pixel` along the epipolar line, and nothing compares the
reading found at its result with it: a far wall at 12 m enters the median. The run
`inference_range` shows such a reading kept. `DistanceIsRobust` holds of the readings kept,
whatever their range.

### What the properties say about the sender's exit code

"Exit code 0 means local completion" is `NoHiddenFailure`, a part of `ExitIsHonest`, which states exactly how far it
goes. Without a signal nothing but Redis has failed, or an encoder whose error message came
after the last look at the bus. After a signal, a `rs2::error` is forgiven wherever it is thrown
(`rpi/live_yolov26_rpi.cpp:987`): by listing or selecting profiles, by starting the camera,
in the warm-up, in the capture or by stopping the camera. So a start-up that failed because
of librealsense can give exit code 0, and an error from stopping the camera can hide one of
the threads, the capture or the renderer that would have given exit code 1. A start-up that
failed for any other reason, a model that does not load or an encoder that does not start,
is never hidden. The documentation does not say otherwise, so it is not a finding; the
property records the behaviour. The other direction is `NoSpuriousFailure`: the races
of the shutdown itself, such as a `push` that fails because main has stopped the video,
never give exit code 1. That is why the code clears `running` before it stops the video.

### What it says about the exit code of the MJPEG programs

A browser that leaves the stream ends the program with exit code 0. One that leaves between
its request and the header does not: `send_all` fails and main throws
(`mjpeg/live_yolov26_realsense.cpp:1162`, `live_densebox_realsense.cpp:1744`), so the exit
code is 1 although nothing of the program failed. `ExitIsHonest` names this case as
`LeftBeforeHeader`, the only one in which exit code 1 has nothing but the browser behind it.

## 5. Fairness

* Hand-off: a thread that is not blocked is scheduled. No fairness on publish, poll, stop
  or spurious wake-ups.
* Redis: the thread runs and each call's deadline comes, because the code computes it from
  the steady clock and polls in slices. Nothing is assumed of the peer.
* Report worker: the thread runs and calls end, which is what the `redis` run shows
  (`CallsReturn`). The clock, the server and the camera owe nothing. `face_prompt` needs no
  fairness: it states bounds in seconds, as invariants of the histories `unreported` and
  `carried`, under prompt scheduling.
* Sender: each thread is scheduled. Camera and DPU calls return; the repository documents
  that a hung one blocks the shutdown. The worker reads the stop token between any two
  calls, hence strong fairness of `WorkerStops`. The encoder may stall for ever.
* Video: renderer and a started `stop` make progress; the streaming threads need not.
* HDMI: both threads run; calls of the camera, the DPU and the display return.
* Preflight: main runs and deadlines come; the child may hang for ever.
* MJPEG: both threads run, and the kernel learns of a browser that left. Strong fairness of
  frame-or-failure for camera and encoder: `wait_for_frames` throws after its timeout, and an
  encoder that returned nothing for ever would keep the program busy. The browser owes
  nothing: it need not ask, read or leave.
* The inference core has safety properties only.

## 6. Proofs

For any threads and any number of frames, `LatestFrameHandoff_proofs` proves with the
inductive invariant `Inv` (types, one fate per frame, `SlotHoldsNewest` and exact
replacement reports):

* `TypeCorrect`, `FrameAccounting`, `LatestOnly`, `DropReports`, and from two of them
  `FramesAreAccountedFor`;
* `NoWakeupIsLost`, an invariant of its own: a blocked thread whose predicate holds has a
  publisher, a stopper or a woken thread on the way to it;
* `OrderedDelivery`, the action property `DeliveredInOrder`: each frame delivered is the
  newest published, newer than all before it, and none follows `stop`;
* `Refinement`, that `SafeSpec` implements the safety part of `LatestFrame`.

`SlotHoldsNewest` has to be in the invariant for `OrderedDelivery` and for the accounting:
without it `pending` could be a frame that has already been counted.

`FacePublisher_proofs` proves, for any interval, staleness limit, timeout, back-off table
and scheduling, from `FacePublisherAssumption` alone:

* `NextDeadlineOnGrid`: `next_report_deadline` is a multiple of the interval strictly after
  its argument and at most an interval away;
* `TypeCorrect`, `ReportsOncePerInterval`, `BackoffIsRespected`.

The invariant of these says that the deadline is on the grid and, while no call is under way, later
than the end of the last call (so a publish, which waits for it, has a grid point behind
it), that `failures` is the streak of failures cut off at the last back-off step, and that
`nextAttempt` is the last failure plus the back-off of that streak.

* `ReportsStayRecent` and `ReportsRecover`, the two bounds in seconds of the `face_prompt`
  run, whose hypothesis is `Prompt`: threads are scheduled at once. Without it no bound
  holds, since the code has no say in when it runs; `face_delays` covers what holds anyway.

Their invariant `Promptly` adds where the worker can be in time (`PromptInv`), what the
worker knows of the server (`ConnectionInv`) and, in `RecoverInv`, an account of each stage
of a recovery: at the latest end of the step under way there is still time for those left,
`ConnectLeft` with a connect to come, `BrokenLeft` with a broken connection still to be
noticed. The back-off table must not have its longest entry before the last
(`FacePublisherAssumption`), and the code's 1, 2, 4, 5 has not. The proof corrected the
bound itself: a reconnect waits for the report grid as well as for the back-off, so with an
interval longer than the back-off `RecoveryTime` must count the interval (`ConnectWait`).
With the default interval of one second the two are the same.

`RedisPublisher_proofs` proves, from `RedisAssumption`, for any number of calls, sockets and
addresses, any length of a command and limit of a reply, and any peer: `TypeCorrect`,
`StreamsStayInStep`, `AckedMeansRunOnce` and `NothingLeaksOrGrows`, the safety properties of
the `redis` run. Since Redis has no request ids, everything rests on what a connection is
left with between two calls:

* `StreamInv`: between calls the peer has run all it was sent and nothing but noise without
  a line end is on the way back. In a call the stream ends with what was sent of the command, and
  either the peer has not run it and no reply is on its way (`NotRunYet`), or it has and
  there is one reply, with nothing but noise after it (`RunOnce`). `publish` gives the
  connection up on every failure, which is what re-establishes this;
* `WholeInv`: each stream is whole commands of rising calls, of which only the last may be
  cut; `ApartInv`: no call is on two streams. `RanInv` and `AckInv` carry both over to the
  order in which the peer ran them;
* `OwnInv`, which sockets are open at each place, and `FreshInv`, that a socket not yet
  connected has carried nothing.

`RpiSender_proofs` proves `TypeCorrect`, `ProcessLeavesNothing`, `FailuresAreReal`,
`FailuresAreReported` (together `ExitCodeIsHonest`) and `RedisNeverEndsCapture`, the safety properties of the
`sender` run. The model has no constants, so the theorems say nothing the run does not; the
invariant is the point, because it is the argument a change of the shutdown has to keep:

* `OwnInv`: which of the threads, the camera and the pipeline exist at each place of main;
* `ReasonInv`: whatever ends the capture, a flag, a thread or a closed hand-off, goes back
  to a signal, the duration or a fault other than Redis;
* `PushInv`: a `push` that fails before anybody has asked to stop met a failed pipeline. It
  needs the order of the shutdown, the stop token before `stop`;
* `ErrorInv`, `UnwindInv`, `ExitInv`: the faults so far are those in `captureError` and
  `renderError`, then what main throws accounts for them, then the exit code does.

`Video_proofs` proves of `GstVideoSender`, from `VideoAssumption`, for any number of frames and
restarts, any clock and acquisition times: `TypeCorrect`, `NoPipelineLeaks`,
`TimeStampsDoNotDrift`, `TimeStampsIncrease` (together `TimeStampsAreUsable`) and
`QueueIsLatestOnly`. The properties are not
inductive by far: that the time stamps *an encoder sees* increase needs `ChainInv`, the
order of all frames of a pipeline, encoded before queued before waiting before pushed, in
number and in time stamp. It holds only for pipelines the sender still owns; a push that
spans a `stop` and a `start` is stamped with the new time base and then has to be refused
by the old pipeline, which is `OwnInv` (released means `"null"`). `LatestInv` follows the
newest frame, `EmptyInv` and `Fresh` make a new pipeline start clean.

Of `EncoderPreflight` it proves, for each `--encoder` option, any pipe, tail and output,
`PreflightTypeCorrect`, `TestsLeaveNothing` and `OnlyOwnChildSignalled` (together
`ChildIsOwnedThroughout`), `ChosenEncoderPassed` and `OnlyFaultyEncodersBlamed` (together
`SelectionIsDeserved`). `ChildInv` ties child and pipe to the place of the thread, `EndInv`
says that a child either exited by itself or was told to and never both, `SelectInv` what
is known of the encoders already tried.

`Hdmi_proofs` proves of `KmsDisplay`, from `KmsAssumption`, for any number of pictures in any places,
`TypeCorrect`, `ConsoleIsRestored`, `NothingStaleOnScreen`, `PicturesDrawnOffScreen` and
`NothingRemovedOnScreen` (together `ScanOutIsUndisturbed`), the properties of the `kms` run. `MemoryInv` says which of the
card and the buffers exist at each call, also while `teardown` takes them down one by one.
`CrtcInv`, `OverlayInv` and `AlphaInv` say, of each thing the program changes on the device,
that it is ours only while it is saved, unless the device refused to save or restore it.
The CRTC part needs `FramedInv`: a buffer is a framebuffer by the time a plane shows it.
`FrameInv` says that the next buffer to be drawn is on neither plane. `PaintInv` is stronger than `NoStaleBorder`: also the buffer
that is *not* on screen holds nothing beside the latest place, or its turn would show it.

Of `HdmiProgram` it proves `ProgramTypeCorrect`, `WorkerOutlivesNothing` and `ExitCodeIsHonest`.
As with the sender, there are no constants and the invariant is the point: `ErrorInv`
follows an exception of the worker into `worker_error`, `SlotInv` says that main never joins
before the hand-off is stopped, `ThrownInv` accounts for the faults by what main throws.

`MjpegServer_proofs` proves, from `MjpegAssumption`, for both programs, any room in the
socket and any length of a window, `TypeCorrect`, `RendererOutlivesNothing`,
`ExitCodeIsHonest` and `WindowIsOffByFew`. `FaultInv` follows a fault through
`capture_error`, `render_error` and what main throws to the exit code; a failed header is the
only fault of a program it ends, and only a reset connection makes it fail. `CauseInv` is why exit
code 0 means that the browser left: whatever ends the stream, a flag, the hand-off or the
renderer, has an error or a reset connection behind it. `WindowInv` bounds the counters by
the frames that were counted but are neither sent nor dropped yet (`Pending`): the property
alone is not inductive, since a frame on its way will be counted later.

`InferenceCore_proofs` proves, from the assumptions of the three modules alone, so for any
profiles, models, sizes, outputs, coordinates and readings:

* `LowestProfileSelected`, from `SelectionInv`: while the depth pass runs, the profile found
  is the lowest of the matching ones already seen. A profile passed over keeps that true
  because two matching profiles are the same or one is lower (`ProfilesAreOrdered`), one taken
  because "lower" is transitive.
* `TensorContractIsKept`, in both directions. Until all tensors are read, `GroupsOK` says that the
  group of a shape holds exactly the tensors of that shape read so far. That nothing good is
  rejected is a pigeonhole argument: as many tensors as there are levels and kinds, each
  needed, so none is there twice (`EveryTensorIsNeeded`). `LevelsAssumption`, that the levels
  differ and come from the finest on, is what `STRIDES`, 8, 16 and 32, gives for an input of
  32 by 32 or more; a smaller one has a level without cells.
* `BestAreKept`: `decode` keeps the best and in order. A cell that is kept has the same rank among all as among
  those kept (`RankAmongBest`), and a cell with a larger output in any class is better
  unless both scores are 1 (`LargerOutputIsBetter`).
* Both order a finite set by counting what comes before. The lemmas on `Rank` show that this
  numbers the members without gaps (`RanksAreIndices`): ranks are an injection into as many
  numbers as there are members, hence a surjection. No induction is needed.
* `PictureFillsInput`. The lesser quotient makes the rounded sides at most the input's
  (`RoundedFits`), and the two roundings of a padding add up to it (`PadsFit`).
* `RegionsAreNeverEmpty`. Either clamp leaves a box that lies in the picture
  (`BoxInPicture`); a region of half width one or more around its middle keeps two columns
  when it is clamped, if the picture has two (`SideHasLength`).
* `DistancesAreRobust`. Not more than half of the readings lie below the median and less than
  half above it, so a range with the majority of them has some on both sides or the median
  itself (`MedianIsRobust`, which counts with the theorems on cardinality).

The last three of these and `FrameTypes` are inductive together (`FrameInv`); the code computes each
in one step, and what has to be shown is the arithmetic.

Every invariant and every action property of a passing run is a theorem. Only model-checked
is liveness: `StopReleasesWaiters`, the fair half of `ImplementsFairLatestFrame`,
`CallsReturn`, `StopEndsWorker`, `EndsWhenAsked` of the sender and of `HdmiProgram`,
`StopReleasesPush`, `SelectReturns` and `EndsWhenOver`. It rests on fairness and `ENABLED`,
which the prover does not handle. That `decode` and the constructor compute in their loops what
`Decoded` and `Ordered` define by counting is how the model is written, not a theorem.

## 7. Not modelled

* Not yet: step 11 of the plan. The option parsers, which turn strings into numbers before
  anything runs and have unit tests, and the mock sender, a stand-in in Python.
* The X11 display: one window behind the same interface; `HdmiProgram` has what it promises.
* An encoder that hangs without a message: the sender has no watchdog for it and goes on
  until a signal or the duration ends it, which `EndsWhenAsked` covers.
* The values of box coordinates and of quantized pixels: single-precision arithmetic.
* DenseBox's offline program, which is sequential.
* Drawing, overlay text, logging, telemetry formatting, file parsing of the system monitor.
* The DPU runtime, librealsense, OpenCV, GStreamer, hiredis, the kernel and Redis: external,
  present only as what the code relies on.
* What a Redis server does with a publish that timed out: it may still run it after a newer
  one from a new connection. Nothing in the payload orders reports, so no property of the
  sender could exclude it.
* The scripts that build, launch or summarise, and the interactive camera tools.
