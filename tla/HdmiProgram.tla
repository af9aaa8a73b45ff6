------------------------------ MODULE HdmiProgram ------------------------------
(***************************************************************************)
(* live_yolov26_hdmi.cpp: main, which is also the GUI thread, the capture  *)
(* worker, SIGINT and SIGTERM.  The worker publishes frames into a         *)
(* LatestFrameHandoff, main takes them without waiting and shows them.     *)
(*                                                                         *)
(* The parts are used as their own modules promise: the hand-off as a slot *)
(* of one frame, the display as an object that can fail to be made, whose  *)
(* show may throw, and which tells when the user closes it.                *)
(*                                                                         *)
(* Init, Next and the like carry a prefix because Hdmi_proofs extends this *)
(* module together with KmsDisplay.                                        *)
(***************************************************************************)
EXTENDS Integers

VARIABLES
  pattern,      \* --test-pattern: no camera and no model
  limited,      \* a duration is set
  timeIsUp,     \* the duration has passed
  signal,       \* g_signal_fired
  gpc,          \* main: "display", "spawn", "loop", "pop", "show", "poll", "guard",
                \* "join", "check", "close", "done"
  wpc,          \* worker: "none", "start", "device", "warm", "loop", "frame", "publish",
                \* "leave", "end", "done"
  running,      \* running
  slot,         \* handoff: "empty", "full" or "stopped"
  workerError,  \* worker_error is set
  raised,       \* worker: an exception is on its way out of the body
  thrown,       \* main: an exception is on its way out of the try block
  camera,       \* the camera streams
  display,      \* "none", "open" or "closed"
  closing,      \* history: the user closed the display
  faults,       \* history: what went wrong
  exit          \* "none", "ok" or "error"

mainVars == <<gpc, thrown, display, closing, exit>>
workerVars == <<wpc, workerError, raised, camera>>
options == <<pattern, limited>>
programVars == <<options, timeIsUp, signal, running, slot, faults, mainVars, workerVars>>

ProgramInit ==
  /\ pattern \in BOOLEAN /\ limited \in BOOLEAN
  /\ pattern => limited               \* it has a duration of its own
  /\ timeIsUp = FALSE /\ signal = FALSE
  /\ gpc = "display" /\ wpc = "none"
  /\ running = TRUE /\ slot = "empty"
  /\ workerError = FALSE /\ raised = FALSE /\ thrown = FALSE
  /\ camera = FALSE /\ display = "none" /\ closing = FALSE
  /\ faults = {} /\ exit = "none"

-------------------------------------------------------------------------------
(* The worker: the body, around it the catch block, and running.store(false). *)

\* The camera is stopped on the way out, by CameraStopGuard, whose own errors are lost.
Leave == wpc' = "leave"
Raise(fault) == raised' = TRUE /\ faults' = faults \cup {fault} /\ Leave

\* The test pattern needs nothing; else the model, the profile and the DPU.
WorkerStarts ==
  /\ wpc = "start"
  /\ wpc' = IF pattern THEN "loop" ELSE "device"
  /\ UNCHANGED <<options, timeIsUp, signal, running, slot, faults, mainVars, workerError, raised,
                 camera>>

\* No model, no profile, no DPU, or a camera that does not start.
NoDevice ==
  /\ wpc = "device"
  /\ Raise("start")
  /\ UNCHANGED <<options, timeIsUp, signal, running, slot, mainVars, workerError, camera>>

CameraStarts ==
  /\ wpc = "device"
  /\ camera' = TRUE
  /\ wpc' = "warm"
  /\ UNCHANGED <<options, timeIsUp, signal, running, slot, faults, mainVars, workerError, raised>>

\* The device has no depth sensor or calibration, or sends no frames.
CameraFails ==
  /\ wpc \in {"warm", "frame"} /\ ~pattern
  /\ Raise("camera")
  /\ UNCHANGED <<options, timeIsUp, signal, running, slot, mainVars, workerError, camera>>

\* Enough frames, or somebody asks to stop: what the loop does about it is the same.
WarmedUp ==
  /\ wpc = "warm"
  /\ wpc' = "loop"
  /\ UNCHANGED <<options, timeIsUp, signal, running, slot, faults, mainVars, workerError, raised,
                 camera>>

WorkerGoesOn ==
  /\ wpc = "loop"
  /\ running /\ ~signal
  /\ wpc' = "frame"
  /\ UNCHANGED <<options, timeIsUp, signal, running, slot, faults, mainVars, workerError, raised,
                 camera>>

WorkerStops ==
  /\ wpc = "loop"
  /\ ~running \/ signal
  /\ Leave
  /\ UNCHANGED <<options, timeIsUp, signal, running, slot, faults, mainVars, workerError, raised,
                 camera>>

\* No frame within 100 ms, or one without colour or depth, but not for long.
NoFrameYet ==
  /\ wpc = "frame" /\ ~pattern
  /\ wpc' = "loop"
  /\ UNCHANGED <<options, timeIsUp, signal, running, slot, faults, mainVars, workerError, raised,
                 camera>>

FrameReady ==
  /\ wpc = "frame"
  /\ wpc' = "publish"
  /\ UNCHANGED <<options, timeIsUp, signal, running, slot, faults, mainVars, workerError, raised,
                 camera>>

InferenceFails ==
  /\ wpc = "frame" /\ ~pattern
  /\ Raise("inference")
  /\ UNCHANGED <<options, timeIsUp, signal, running, slot, mainVars, workerError, camera>>

\* MUTANT of WorkerPublishes: a hand-off that was stopped is taken for a failure.
WorkerPublishesOrRaises ==
  /\ wpc = "publish"
  /\ IF slot = "stopped" THEN /\ raised' = TRUE /\ Leave /\ UNCHANGED slot
                         ELSE slot' = "full" /\ wpc' = "loop" /\ UNCHANGED raised
  /\ UNCHANGED <<options, timeIsUp, signal, running, faults, mainVars, workerError, camera>>

WorkerPublishes ==
  /\ wpc = "publish"
  /\ IF slot = "stopped" THEN Leave /\ UNCHANGED slot
                         ELSE slot' = "full" /\ wpc' = "loop"
  /\ UNCHANGED <<options, timeIsUp, signal, running, faults, mainVars, workerError, raised, camera>>

WorkerLeaves ==
  /\ wpc = "leave"
  /\ camera' = FALSE
  /\ workerError' = raised
  /\ wpc' = "end"
  /\ UNCHANGED <<options, timeIsUp, signal, running, slot, faults, mainVars, raised>>

\* MUTANT of WorkerEnds: running is left set.
WorkerEndsSilently ==
  /\ wpc = "end"
  /\ wpc' = "done"
  /\ UNCHANGED <<options, timeIsUp, signal, running, slot, faults, mainVars, workerError, raised,
                 camera>>

WorkerEnds ==
  /\ wpc = "end"
  /\ running' = FALSE
  /\ wpc' = "done"
  /\ UNCHANGED <<options, timeIsUp, signal, slot, faults, mainVars, workerError, raised, camera>>

Worker ==
  \/ WorkerStarts \/ NoDevice \/ CameraStarts \/ CameraFails \/ WarmedUp
  \/ WorkerGoesOn \/ WorkerStops \/ NoFrameYet \/ FrameReady \/ InferenceFails
  \/ WorkerPublishes \/ WorkerLeaves \/ WorkerEnds

-------------------------------------------------------------------------------
(* main *)

OpenDisplay ==
  /\ gpc = "display"
  /\ display' = "open"
  /\ gpc' = "spawn"
  /\ UNCHANGED <<options, timeIsUp, signal, running, slot, faults, thrown, closing, exit,
                 workerVars>>

\* The constructor has undone what it did; no worker and no guard exist yet.
NoDisplay ==
  /\ gpc = "display"
  /\ thrown' = TRUE /\ faults' = faults \cup {"display"}
  /\ gpc' = "close"
  /\ UNCHANGED <<options, timeIsUp, signal, running, slot, display, closing, exit, workerVars>>

Spawn ==
  /\ gpc = "spawn"
  /\ wpc' = "start"
  /\ gpc' = "loop"
  /\ UNCHANGED <<options, timeIsUp, signal, running, slot, faults, thrown, display, closing, exit,
                 workerError, raised, camera>>

NoThread ==
  /\ gpc = "spawn"
  /\ thrown' = TRUE /\ faults' = faults \cup {"thread"}
  /\ gpc' = "guard"
  /\ UNCHANGED <<options, timeIsUp, signal, running, slot, display, closing, exit, workerVars>>

GuiStops ==
  /\ gpc = "loop"
  /\ ~running \/ signal \/ (limited /\ timeIsUp)
  /\ gpc' = "guard"
  /\ UNCHANGED <<options, timeIsUp, signal, running, slot, faults, thrown, display, closing, exit,
                 workerVars>>

GuiGoesOn ==
  /\ gpc = "loop"
  /\ running /\ ~signal /\ ~(limited /\ timeIsUp)
  /\ gpc' = "pop"
  /\ UNCHANGED <<options, timeIsUp, signal, running, slot, faults, thrown, display, closing, exit,
                 workerVars>>

\* try_pop: a frame to show, or nothing and poll.
TryPop ==
  /\ gpc = "pop"
  /\ IF slot = "full" THEN slot' = "empty" /\ gpc' = "show"
                      ELSE gpc' = "poll" /\ UNCHANGED slot
  /\ UNCHANGED <<options, timeIsUp, signal, running, faults, thrown, display, closing, exit,
                 workerVars>>

\* show and poll return, and the display is still wanted.
Shown ==
  /\ gpc \in {"show", "poll"}
  /\ gpc' = "loop"
  /\ UNCHANGED <<options, timeIsUp, signal, running, slot, faults, thrown, display, closing, exit,
                 workerVars>>

UserCloses ==
  /\ gpc \in {"show", "poll"}
  /\ closing' = TRUE
  /\ gpc' = "guard"
  /\ UNCHANGED <<options, timeIsUp, signal, running, slot, faults, thrown, display, exit,
                 workerVars>>

\* Drawing or show throws; WorkerGuard runs on the way out.
ShowFails ==
  /\ gpc = "show"
  /\ thrown' = TRUE /\ faults' = faults \cup {"display"}
  /\ gpc' = "guard"
  /\ UNCHANGED <<options, timeIsUp, signal, running, slot, display, closing, exit, workerVars>>

\* stop_and_join, called in the end or by the destructor of the guard.
StopWorker ==
  /\ gpc = "guard"
  /\ running' = FALSE
  /\ slot' = "stopped"
  /\ gpc' = "join"
  /\ UNCHANGED <<options, timeIsUp, signal, faults, thrown, display, closing, exit, workerVars>>

\* MUTANT of Join: main does not wait.
JoinNobody ==
  /\ gpc = "join"
  /\ gpc' = IF thrown THEN "close" ELSE "check"
  /\ UNCHANGED <<options, timeIsUp, signal, running, slot, faults, thrown, display, closing, exit,
                 workerVars>>

\* A worker that was never created is not joinable.
Join ==
  /\ gpc = "join"
  /\ wpc \in {"none", "done"}
  /\ gpc' = IF thrown THEN "close" ELSE "check"
  /\ UNCHANGED <<options, timeIsUp, signal, running, slot, faults, thrown, display, closing, exit,
                 workerVars>>

\* The worker's error is rethrown unless a signal asked the program to end.
Check ==
  /\ gpc = "check"
  /\ thrown' = (workerError /\ ~signal)
  /\ gpc' = "close"
  /\ UNCHANGED <<options, timeIsUp, signal, running, slot, faults, display, closing, exit,
                 workerVars>>

\* The end of the try block: the display goes, then the exit code is known.
CloseDisplay ==
  /\ gpc = "close"
  /\ display' = IF display = "open" THEN "closed" ELSE display
  /\ exit' = IF thrown THEN "error" ELSE "ok"
  /\ gpc' = "done"
  /\ UNCHANGED <<options, timeIsUp, signal, running, slot, faults, thrown, closing, workerVars>>

Main ==
  \/ OpenDisplay \/ NoDisplay \/ Spawn \/ NoThread
  \/ GuiStops \/ GuiGoesOn \/ TryPop \/ Shown \/ UserCloses \/ ShowFails
  \/ StopWorker \/ Join \/ Check \/ CloseDisplay

-------------------------------------------------------------------------------
Signal ==
  /\ ~signal /\ gpc # "done"
  /\ signal' = TRUE
  /\ UNCHANGED <<options, timeIsUp, running, slot, faults, mainVars, workerVars>>

TimePasses ==
  /\ limited /\ ~timeIsUp /\ gpc # "done"
  /\ timeIsUp' = TRUE
  /\ UNCHANGED <<options, signal, running, slot, faults, mainVars, workerVars>>

Outside == Signal \/ TimePasses

Done == gpc = "done" /\ UNCHANGED programVars

ProgramNext == Main \/ Worker \/ Outside \/ Done

ProgramSafeSpec == ProgramInit /\ [][ProgramNext]_programVars

\* Each thread runs: calls of the camera, the DPU and the display return.
ProgramSpec == ProgramSafeSpec /\ WF_programVars(Main) /\ WF_programVars(Worker)

-------------------------------------------------------------------------------
WorkerFaults == {"start", "camera", "inference"}
MainFaults == {"display", "thread"}

ProgramTypeOK ==
  /\ pattern \in BOOLEAN /\ limited \in BOOLEAN /\ timeIsUp \in BOOLEAN /\ signal \in BOOLEAN
  /\ gpc \in {"display", "spawn", "loop", "pop", "show", "poll", "guard", "join", "check",
              "close", "done"}
  /\ wpc \in {"none", "start", "device", "warm", "loop", "frame", "publish", "leave", "end",
              "done"}
  /\ running \in BOOLEAN /\ slot \in {"empty", "full", "stopped"}
  /\ workerError \in BOOLEAN /\ raised \in BOOLEAN /\ thrown \in BOOLEAN /\ camera \in BOOLEAN
  /\ display \in {"none", "open", "closed"} /\ closing \in BOOLEAN
  /\ faults \subseteq WorkerFaults \cup MainFaults
  /\ exit \in {"none", "ok", "error"}

\* The worker refers to locals of main and to the hand-off: when those go, at the end
\* of the try block, it has ended, with its error, its camera stopped, and no frame
\* of its own is left in the hand-off.
WorkerEndsFirst ==
  gpc \in {"check", "close", "done"} =>
    /\ wpc \in {"none", "done"} /\ ~camera
    /\ workerError = raised
    /\ slot # "full"

\* The exit code is honest both ways: an error is behind each failure, and what went
\* wrong shows, but for errors of the worker when a signal came.
ExitIsHonest ==
  /\ exit = "error" => faults # {}
  /\ exit = "ok" => faults = {} \/ (signal /\ faults \subseteq WorkerFaults)

\* The program ends when a signal, the duration, the user or a fault says so.
EndsWhenAsked ==
  signal \/ (limited /\ timeIsUp) \/ closing \/ faults # {} ~> gpc = "done"
===============================================================================
