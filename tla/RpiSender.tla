------------------------------- MODULE RpiSender -------------------------------
(***************************************************************************)
(* The life of live_yolov26_rpi: main (capture and inference), the         *)
(* renderer thread, the Redis worker and the signal watcher, from          *)
(* preflight to exit code.                                                 *)
(*                                                                         *)
(* The hand-off is used as LatestFrame promises it, the Redis worker as    *)
(* FacePublisher (a loop that ends on stop, with calls that return), the   *)
(* video sender as GstVideoSender (a push blocks while the encoder does    *)
(* not drain its queue and fails once the pipeline has failed or was       *)
(* stopped).  Faults of the camera, the DPU, the encoder, the drawing code *)
(* and Redis can happen at any time, a signal and a second one too.        *)
(***************************************************************************)
VARIABLES
  durationSet,   \* --duration-seconds was given: never changes
  mpc,           \* main
  rpc,           \* renderer
  wpc,           \* Redis worker
  signalFired,   \* signal_fired
  watching,      \* the watcher thread is still in its loop
  secondSignal,  \* a signal is blocked and pending: the watcher is gone
  running,       \* running
  workersStop,   \* g_workers_stop
  slot,          \* the hand-off: "empty", "full" or "stopped"
  faceState,     \* LatestFaceState holds a result
  camera,        \* the RealSense pipeline is streaming
  video,         \* GStreamer pipeline: "none", "playing", "failed" or "stopped"
  busError,      \* an error message is on its bus
  stalled,       \* the encoder does not drain the appsrc queue
  captureError,  \* capture_error: "none", "rs2" or "std"
  renderError,   \* render_error is set
  unwinding,     \* what main is throwing: "none", "rs2", "std" or "cancelled"
  exit,          \* "none", "ok" (0), "error" (1) or "killed" by the second signal
  faults         \* history: what really went wrong

endVars == <<durationSet, signalFired, watching, secondSignal>>   \* who may end it
videoVars == <<video, busError, stalled>>
errorVars == <<captureError, renderError, unwinding>>
flagVars == <<running, workersStop, slot, faceState>>
vars == <<mpc, rpc, wpc, endVars, flagVars, camera, videoVars, errorVars, exit, faults>>

Stop == signalFired \/ workersStop           \* CompositeStop::requested

Init ==
  /\ durationSet \in BOOLEAN
  /\ mpc = "preflight" /\ rpc = "none" /\ wpc = "none"
  /\ signalFired = FALSE /\ watching = TRUE /\ secondSignal = FALSE
  /\ running = TRUE /\ workersStop = FALSE /\ slot = "empty" /\ faceState = FALSE
  /\ camera = FALSE
  /\ video = "none" /\ busError = FALSE /\ stalled = FALSE
  /\ captureError = "none" /\ renderError = FALSE /\ unwinding = "none"
  /\ exit = "none" /\ faults = {}

Fault(f) == faults' = faults \cup {f}

-------------------------------------------------------------------------------
(* main: startup.  An exception unwinds the scopes that exist so far. *)

\* Wherever main calls librealsense a rs2::error may come out of it.
RealSenseThrows == unwinding' = "rs2" /\ Fault("realsense")

\* Model file, video host, encoder smoke test, camera profile and model loading.
\* Profiles are listed, for --list-profiles too, and selected by librealsense.  The
\* encoder test is cut short by a signal and then throws "cancelled".
Preflight ==
  /\ mpc = "preflight"
  /\ \/ mpc' = "startCamera" /\ UNCHANGED <<unwinding, faults>>
     \/ mpc' = "unwind" /\ UNCHANGED <<unwinding, faults>>         \* --list-profiles
     \/ mpc' = "unwind" /\ RealSenseThrows
     \/ mpc' = "unwind" /\ unwinding' = "std" /\ Fault("preflight")
     \/ mpc' = "unwind" /\ signalFired /\ unwinding' = "cancelled" /\ UNCHANGED faults
  /\ UNCHANGED <<rpc, wpc, endVars, flagVars, camera, videoVars, captureError,
                 renderError, exit>>

\* pipeline.start, then the depth sensor and the calibration of the streaming camera.
StartCamera ==
  /\ mpc = "startCamera"
  /\ \/ mpc' = "warmup" /\ camera' = TRUE /\ UNCHANGED <<unwinding, faults>>
     \/ mpc' = "unwind" /\ camera' \in BOOLEAN /\ RealSenseThrows
     \/ mpc' = "unwind" /\ camera' = TRUE /\ unwinding' = "std" /\ Fault("camera")
  /\ UNCHANGED <<rpc, wpc, endVars, flagVars, videoVars, captureError, renderError, exit>>

\* Ten usable frames within five seconds, or a signal, which is a clean exit.
Warmup ==
  /\ mpc = "warmup"
  /\ \/ mpc' = "startVideo" /\ ~Stop /\ UNCHANGED <<unwinding, faults>>
     \/ mpc' = "unwind" /\ Stop /\ UNCHANGED <<unwinding, faults>>
     \/ mpc' = "unwind" /\ ~Stop /\ RealSenseThrows
     \/ mpc' = "unwind" /\ ~Stop /\ unwinding' = "std" /\ Fault("camera")
  /\ UNCHANGED <<rpc, wpc, endVars, flagVars, camera, videoVars, captureError,
                 renderError, exit>>

StartVideo ==
  /\ mpc = "startVideo"
  /\ \/ mpc' = "spawn" /\ video' = "playing" /\ UNCHANGED <<unwinding, faults>>
     \/ mpc' = "unwind" /\ unwinding' = "std" /\ Fault("startVideo") /\ UNCHANGED video
  /\ UNCHANGED <<rpc, wpc, endVars, flagVars, camera, busError, stalled, captureError,
                 renderError, exit>>

\* Two std::thread constructors; either may throw, which stops the workers.
SpawnThreads ==
  /\ mpc = "spawn"
  /\ \/ /\ rpc' = "top" /\ wpc' = "begin"
        /\ UNCHANGED <<running, workersStop, slot, captureError, faults>>
     \/ /\ rpc' \in {"none", "top"} /\ UNCHANGED wpc
        /\ captureError' = "std" /\ Fault("threads")
        /\ running' = FALSE /\ workersStop' = TRUE /\ slot' = "stopped"
  /\ mpc' = "loop"
  /\ UNCHANGED <<endVars, faceState, camera, videoVars, renderError, unwinding, exit>>

-------------------------------------------------------------------------------
(* main: the capture loop. *)

Looping == running /\ ~Stop

LoopEnds ==
  /\ mpc = "loop"
  /\ ~Looping \/ durationSet
  /\ mpc' = "stopRunning"
  /\ UNCHANGED <<rpc, wpc, endVars, flagVars, camera, videoVars, errorVars, exit, faults>>

\* poll_bus_error takes the message off the bus and main throws it.
BusErrorFound ==
  /\ mpc = "loop"
  /\ Looping
  /\ busError
  /\ busError' = FALSE
  /\ captureError' = "std"
  /\ mpc' = "stopRunning"
  /\ UNCHANGED <<rpc, wpc, endVars, flagVars, camera, video, stalled, renderError,
                 unwinding, exit, faults>>

BusQuiet ==
  /\ mpc = "loop"
  /\ Looping
  /\ ~busError
  /\ mpc' = "wait"
  /\ UNCHANGED <<rpc, wpc, endVars, flagVars, camera, videoVars, errorVars, exit, faults>>

\* try_wait_for_frames and infer_frame: a packet, nothing usable this time, or a
\* failure: the camera silent for five seconds or disconnected, the DPU failing.
WaitAndInfer ==
  /\ mpc = "wait"
  /\ \/ mpc' = "store" /\ UNCHANGED <<captureError, faults>>
     \/ mpc' = "loop" /\ UNCHANGED <<captureError, faults>>
     \/ mpc' = "stopRunning" /\ captureError' = "std" /\ Fault("capture")
     \/ mpc' = "stopRunning" /\ captureError' = "rs2" /\ Fault("realsense")
  /\ UNCHANGED <<rpc, wpc, endVars, flagVars, camera, videoVars, renderError, unwinding,
                 exit>>

\* The last look at the stop token before the frame is used: face_state.update.
StoreFace ==
  /\ mpc = "store"
  /\ IF Stop THEN mpc' = "stopRunning" /\ UNCHANGED faceState
             ELSE mpc' = "publish" /\ faceState' = TRUE
  /\ UNCHANGED <<rpc, wpc, endVars, running, workersStop, slot, camera, videoVars,
                 errorVars, exit, faults>>

PublishFrame ==
  /\ mpc = "publish"
  /\ IF slot = "stopped" THEN mpc' = "stopRunning" /\ UNCHANGED slot
                         ELSE mpc' = "loop" /\ slot' = "full"
  /\ UNCHANGED <<rpc, wpc, endVars, running, workersStop, faceState, camera, videoVars,
                 errorVars, exit, faults>>

-------------------------------------------------------------------------------
(* main: shutdown, in the order of the code. *)

\* MUTANT of StopRunning: the video is stopped first, and running is never cleared.
StopVideoFirst ==
  /\ mpc = "stopRunning"
  /\ video' = "stopped"
  /\ mpc' = "invalidate"
  /\ UNCHANGED <<rpc, wpc, endVars, flagVars, camera, busError, stalled, errorVars,
                 exit, faults>>

StopRunning ==
  /\ mpc = "stopRunning"
  /\ running' = FALSE
  /\ mpc' = "invalidate"
  /\ UNCHANGED <<rpc, wpc, endVars, workersStop, slot, faceState, camera, videoVars,
                 errorVars, exit, faults>>

InvalidateFace ==
  /\ mpc = "invalidate"
  /\ faceState' = FALSE
  /\ mpc' = "stopHandoff"
  /\ UNCHANGED <<rpc, wpc, endVars, running, workersStop, slot, camera, videoVars,
                 errorVars, exit, faults>>

StopHandoff ==
  /\ mpc = "stopHandoff"
  /\ slot' = "stopped"
  /\ mpc' = "stopWorkers"
  /\ UNCHANGED <<rpc, wpc, endVars, running, workersStop, faceState, camera, videoVars,
                 errorVars, exit, faults>>

\* MUTANT of StopWorkers: only the signal stops the Redis worker.
SkipStopWorkers ==
  /\ mpc = "stopWorkers"
  /\ mpc' = "stopVideo"
  /\ UNCHANGED <<rpc, wpc, endVars, flagVars, camera, videoVars, errorVars, exit, faults>>

StopWorkers ==
  /\ mpc = "stopWorkers"
  /\ workersStop' = TRUE
  /\ mpc' = "stopVideo"
  /\ UNCHANGED <<rpc, wpc, endVars, running, slot, faceState, camera, videoVars,
                 errorVars, exit, faults>>

\* The pipeline goes to NULL: a push blocked in it returns, its bus is gone.
StopVideo ==
  /\ mpc = "stopVideo"
  /\ video' = "stopped" /\ busError' = FALSE
  /\ mpc' = "joinRenderer"
  /\ UNCHANGED <<rpc, wpc, endVars, flagVars, camera, stalled, errorVars, exit, faults>>

\* MUTANT of JoinRenderer: the renderer is not waited for.
SkipJoin ==
  /\ mpc = "joinRenderer"
  /\ mpc' = "joinWorker"
  /\ UNCHANGED <<rpc, wpc, endVars, flagVars, camera, videoVars, errorVars, exit, faults>>

JoinRenderer ==
  /\ mpc = "joinRenderer"
  /\ rpc \in {"none", "done"}
  /\ mpc' = "joinWorker"
  /\ UNCHANGED <<rpc, wpc, endVars, flagVars, camera, videoVars, errorVars, exit, faults>>

JoinWorker ==
  /\ mpc = "joinWorker"
  /\ wpc \in {"none", "done"}
  /\ mpc' = "stopCamera"
  /\ UNCHANGED <<rpc, wpc, endVars, flagVars, camera, videoVars, errorVars, exit, faults>>

\* pipeline.stop, then the errors in the order capture, render.  When stopping
\* throws, that error is the one main ends with and the guard stops again.
StopCamera ==
  /\ mpc = "stopCamera"
  /\ \/ /\ camera' = FALSE
        /\ unwinding' = IF captureError # "none" THEN captureError
                        ELSE IF renderError THEN "std" ELSE "none"
        /\ UNCHANGED faults
     \/ RealSenseThrows /\ UNCHANGED camera
  /\ mpc' = "unwind"
  /\ UNCHANGED <<rpc, wpc, endVars, flagVars, videoVars, captureError, renderError, exit>>

\* Scopes end: ~GstVideoSender stops the video, CameraStopGuard the camera.
Unwind ==
  /\ mpc = "unwind"
  /\ camera' = FALSE
  /\ video' = IF video = "none" THEN "none" ELSE "stopped"
  /\ busError' = FALSE
  /\ mpc' = "unwatch"
  /\ UNCHANGED <<rpc, wpc, endVars, flagVars, stalled, errorVars, exit, faults>>

\* MUTANT of Unwatch: any exception after a signal counts as a clean exit.
UnwatchForgives ==
  /\ mpc = "unwatch"
  /\ mpc' = "done"
  /\ watching' = FALSE
  /\ exit' = IF secondSignal THEN "killed"
             ELSE IF unwinding = "none" \/ signalFired THEN "ok" ELSE "error"
  /\ UNCHANGED <<rpc, wpc, durationSet, signalFired, secondSignal, flagVars, camera, videoVars,
                 errorVars, faults>>

\* ~SignalWatch joins the watcher and restores the mask, which lets a pending
\* signal kill the process; then the catch blocks choose the exit code.
Unwatch ==
  /\ mpc = "unwatch"
  /\ mpc' = "done"
  /\ watching' = FALSE
  /\ exit' = IF secondSignal THEN "killed"
             ELSE IF \/ unwinding = "none"
                     \/ signalFired /\ unwinding \in {"rs2", "cancelled"}
                  THEN "ok" ELSE "error"
  /\ UNCHANGED <<rpc, wpc, durationSet, signalFired, secondSignal, flagVars, camera, videoVars,
                 errorVars, faults>>

-------------------------------------------------------------------------------
(* The renderer. *)

RenderTop ==
  /\ rpc = "top"
  /\ rpc' = IF running THEN "pop" ELSE "end"
  /\ UNCHANGED <<mpc, wpc, endVars, flagVars, camera, videoVars, errorVars, exit, faults>>

\* wait_pop blocks while the slot is empty.
RenderPop ==
  /\ rpc = "pop"
  /\ \/ slot = "stopped" /\ rpc' = "end" /\ UNCHANGED slot
     \/ slot = "full" /\ rpc' = "draw" /\ slot' = "empty"
  /\ UNCHANGED <<mpc, wpc, endVars, running, workersStop, faceState, camera, videoVars,
                 errorVars, exit, faults>>

RenderDraw ==
  /\ rpc = "draw"
  /\ \/ rpc' = "push" /\ UNCHANGED <<renderError, faults>>
     \/ rpc' = "end" /\ renderError' = TRUE /\ Fault("render")
  /\ UNCHANGED <<mpc, wpc, endVars, flagVars, camera, videoVars, captureError, unwinding,
                 exit>>

\* push: refused when the sender is not running (a failed pipeline still is), or
\* on its way into the queue, where it may block.
PushBegin ==
  /\ rpc = "push"
  /\ rpc' = IF video = "stopped" THEN "failed" ELSE "pushing"
  /\ UNCHANGED <<mpc, wpc, endVars, flagVars, camera, videoVars, errorVars, exit, faults>>

PushOk ==
  /\ rpc = "pushing"
  /\ video = "playing" /\ ~stalled
  /\ rpc' = "top"
  /\ UNCHANGED <<mpc, wpc, endVars, flagVars, camera, videoVars, errorVars, exit, faults>>

PushFails ==
  /\ rpc = "pushing"
  /\ video \in {"failed", "stopped"}
  /\ rpc' = "failed"
  /\ UNCHANGED <<mpc, wpc, endVars, flagVars, camera, videoVars, errorVars, exit, faults>>

\* A failed push is an error only while nobody has asked to stop: running is read
\* first, the stop token after it.
ReadRunning ==
  /\ rpc = "failed"
  /\ rpc' = IF running THEN "failedRunning" ELSE "end"
  /\ UNCHANGED <<mpc, wpc, endVars, flagVars, camera, videoVars, errorVars, exit, faults>>

ReadStop ==
  /\ rpc = "failedRunning"
  /\ rpc' = "end"
  /\ renderError' = ~Stop
  /\ UNCHANGED <<mpc, wpc, endVars, flagVars, camera, videoVars, captureError, unwinding,
                 exit, faults>>

RenderEnds ==
  /\ rpc = "end"
  /\ running' = FALSE
  /\ rpc' = "done"
  /\ UNCHANGED <<mpc, wpc, endVars, workersStop, slot, faceState, camera, videoVars,
                 errorVars, exit, faults>>

-------------------------------------------------------------------------------
(* The Redis worker. *)

\* Without a resolved Redis host the worker returns at once.
WorkerBegins ==
  /\ wpc = "begin"
  /\ wpc' \in {"idle", "done"}
  /\ UNCHANGED <<mpc, rpc, endVars, flagVars, camera, videoVars, errorVars, exit, faults>>

WorkerStops ==
  /\ wpc = "idle"
  /\ Stop
  /\ wpc' = "done"
  /\ UNCHANGED <<mpc, rpc, endVars, flagVars, camera, videoVars, errorVars, exit, faults>>

WorkerCalls ==
  /\ wpc = "idle"
  /\ faceState
  /\ wpc' = "calling"
  /\ UNCHANGED <<mpc, rpc, endVars, flagVars, camera, videoVars, errorVars, exit, faults>>

\* MUTANT of WorkerReturns: a Redis failure ends the program as a renderer's does.
WorkerFailureStopsAll ==
  /\ wpc = "calling"
  /\ \/ wpc' = "idle" /\ UNCHANGED <<faults, running>>
     \/ wpc' \in {"idle", "done"} /\ Fault("redis") /\ running' = FALSE
  /\ UNCHANGED <<mpc, rpc, endVars, workersStop, slot, faceState, camera, videoVars,
                 errorVars, exit>>

\* A connect or publish returns, succeeds or fails; an exception ends the worker
\* and only the worker.
WorkerReturns ==
  /\ wpc = "calling"
  /\ \/ wpc' = "idle" /\ UNCHANGED faults
     \/ wpc' \in {"idle", "done"} /\ Fault("redis")
  /\ UNCHANGED <<mpc, rpc, endVars, flagVars, camera, videoVars, errorVars, exit>>

-------------------------------------------------------------------------------
(* Signals and the encoder. *)

\* The watcher takes the first signal and ends; a later one stays pending.
Signal ==
  /\ exit = "none"
  /\ \/ watching /\ signalFired' = TRUE /\ watching' = FALSE /\ UNCHANGED secondSignal
     \/ ~watching /\ secondSignal' = TRUE /\ UNCHANGED <<signalFired, watching>>
  /\ UNCHANGED <<mpc, rpc, wpc, durationSet, flagVars, camera, videoVars, errorVars, exit,
                 faults>>

VideoFails ==
  /\ video = "playing"
  /\ video' = "failed"
  /\ busError' = TRUE
  /\ Fault("pipeline")
  /\ UNCHANGED <<mpc, rpc, wpc, endVars, flagVars, camera, stalled, errorVars, exit>>

EncoderStalls ==
  /\ video = "playing"
  /\ stalled' = ~stalled
  /\ UNCHANGED <<mpc, rpc, wpc, endVars, flagVars, camera, video, busError, errorVars,
                 exit, faults>>

-------------------------------------------------------------------------------
Startup == Preflight \/ StartCamera \/ Warmup \/ StartVideo \/ SpawnThreads
Capture ==
  LoopEnds \/ BusErrorFound \/ BusQuiet \/ WaitAndInfer \/ StoreFace \/ PublishFrame
Shutdown ==
  \/ StopRunning \/ InvalidateFace \/ StopHandoff \/ StopWorkers \/ StopVideo
  \/ JoinRenderer \/ JoinWorker \/ StopCamera \/ Unwind \/ Unwatch
Main == Startup \/ Capture \/ Shutdown
Renderer ==
  \/ RenderTop \/ RenderPop \/ RenderDraw \/ PushBegin \/ PushOk \/ PushFails
  \/ ReadRunning \/ ReadStop \/ RenderEnds
Worker == WorkerBegins \/ WorkerStops \/ WorkerCalls \/ WorkerReturns
Outside == Signal \/ VideoFails \/ EncoderStalls
Finished == mpc = "done" /\ UNCHANGED vars

Next == Main \/ Renderer \/ Worker \/ Outside \/ Finished

SafeSpec == Init /\ [][Next]_vars

\* Every thread is scheduled.  Camera and DPU calls return (a hung one blocks the
\* program, as its README says); the worker's calls are bounded, and it looks at
\* the stop token between any two of them.  The encoder owes nothing: a stall may
\* last for ever.
Spec ==
  /\ SafeSpec
  /\ WF_vars(Main) /\ WF_vars(Renderer) /\ WF_vars(Worker) /\ SF_vars(WorkerStops)

-------------------------------------------------------------------------------
FlagsOK ==
  /\ durationSet \in BOOLEAN
  /\ signalFired \in BOOLEAN /\ watching \in BOOLEAN /\ secondSignal \in BOOLEAN
  /\ running \in BOOLEAN /\ workersStop \in BOOLEAN /\ faceState \in BOOLEAN
  /\ camera \in BOOLEAN /\ busError \in BOOLEAN /\ stalled \in BOOLEAN
  /\ renderError \in BOOLEAN

PlacesOK ==
  /\ mpc \in {"preflight", "startCamera", "warmup", "startVideo", "spawn", "loop", "wait",
              "store", "publish", "stopRunning", "invalidate", "stopHandoff",
              "stopWorkers", "stopVideo", "joinRenderer", "joinWorker", "stopCamera",
              "unwind", "unwatch", "done"}
  /\ rpc \in {"none", "top", "pop", "draw", "push", "pushing", "failed", "failedRunning",
              "end", "done"}
  /\ wpc \in {"none", "begin", "idle", "calling", "done"}
  /\ slot \in {"empty", "full", "stopped"}
  /\ video \in {"none", "playing", "failed", "stopped"}
  /\ captureError \in {"none", "rs2", "std"}
  /\ unwinding \in {"none", "rs2", "std", "cancelled"}
  /\ exit \in {"none", "ok", "error", "killed"}

FaultsOK ==
  faults \subseteq {"preflight", "camera", "startVideo", "threads", "capture", "render",
                    "realsense", "pipeline", "redis"}

TypeOK == FlagsOK /\ PlacesOK /\ FaultsOK

\* However the program ends, killed by a second signal included, no thread of it
\* is left and the camera and the encoder have been stopped.
NothingLeftBehind ==
  exit # "none" =>
    /\ rpc \in {"none", "done"} /\ wpc \in {"none", "done"}
    /\ ~camera
    /\ video \in {"none", "stopped"}

\* The program never reports a failure that is only a race of its own shutdown: an
\* exit code 1 has a fault of the camera, the DPU, the encoder, the drawing code or
\* the startup behind it, and a failure of Redis is not one.
NoSpuriousFailure == exit = "error" => faults \ {"redis"} # {}

\* Exit code 0 hides no failure but an encoder whose message came after the last look
\* at the bus, Redis, and one thing more: after a signal, even one that comes during the
\* start-up or the shutdown, an error thrown by librealsense is forgiven wherever it is
\* thrown, and that alone can hide an error of the threads, the capture or the drawing
\* code.  A start-up that failed for any other reason is never hidden.
NoHiddenFailure ==
  exit = "ok" =>
    /\ faults \subseteq {"pipeline", "redis"} \/ (signalFired /\ "realsense" \in faults)
    /\ faults \cap {"preflight", "camera", "startVideo"} = {}

\* What the exit code tells: a failure is real, and none is hidden but those that the
\* program forgives.
ExitIsHonest == NoSpuriousFailure /\ NoHiddenFailure

\* Redis failures never stop the video: the capture loop ends only on a signal,
\* the duration, or a fault of the video side.
OnlyVideoFaultsEndCapture ==
  mpc = "stopRunning" => signalFired \/ durationSet \/ faults \ {"redis"} # {}

\* A signal, a failed pipeline or a failed renderer always ends the program, and a
\* shutdown begun for any reason completes, even when the renderer is blocked in a
\* push into an encoder that never drains.
EndsWhenAsked ==
  (\/ signalFired \/ renderError
   \/ video = "failed" /\ mpc = "loop"
   \/ mpc = "stopRunning") ~> exit # "none"
===============================================================================
