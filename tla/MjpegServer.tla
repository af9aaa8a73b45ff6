------------------------------ MODULE MjpegServer ------------------------------
(***************************************************************************)
(* live_yolov26_realsense.cpp: main, which is also the capture thread, the *)
(* renderer, which encodes and sends, the one browser that is served, and  *)
(* the PerformanceMonitor the two threads count in.                        *)
(*                                                                         *)
(* live_densebox_realsense.cpp is the same program before it had a second  *)
(* thread: up to the header of the stream and after the loop the two are   *)
(* alike, so it is the other program of this module.                       *)
(*                                                                         *)
(* The hand-off is used as LatestFrameHandoff promises it.  The browser    *)
(* and the kernel are external: a browser may say nothing, stop reading or *)
(* leave; a send waits for room in the socket.                             *)
(***************************************************************************)
EXTENDS Integers

CONSTANTS
  Room,     \* frames the socket takes before send waits
  MaxCount  \* bound: a counter stops here, except that others go two further

ASSUME MjpegAssumption == Room \in Nat \ {0} /\ MaxCount \in Nat

VARIABLES
  program,        \* "yolov26" or "densebox"
  telemetry,      \* --telemetry; the DenseBox program always has it
  mpc,            \* main: the next step
  rpc,            \* renderer: "none", "start", "head", "wait", "encode", "send", "record",
                  \* "leave", "stop", "done"
  running,        \* running
  slot,           \* handoff: "empty", "full" or "stopped"
  captureError,   \* capture_error is set
  renderError,    \* render_error is set
  camera,         \* pipeline streams
  serverFd,       \* server_fd: "none", "open" or "closed"
  clientFd,       \* client_fd: also "shutdown"
  client,         \* external: "none", "here", "gone", or "reset" once a send has told us
  room,           \* external: frames the socket still takes
  pipelineFrames, \* pipeline_frames_ of the window
  streamFrames,   \* stream_frames_
  windowDrops,    \* window_drops_
  faults,         \* history: what went wrong
  exit            \* "none", "ok" or "error"

options == <<program, telemetry>>
main == <<mpc, captureError, camera, serverFd, exit>>
renderer == <<rpc, renderError>>
shared == <<running, slot>>
socket == <<clientFd, client, room>>
window == <<pipelineFrames, streamFrames, windowDrops>>
vars == <<options, main, renderer, shared, socket, window, faults>>

Init ==
  /\ program \in {"yolov26", "densebox"} /\ telemetry \in BOOLEAN
  /\ program = "densebox" => telemetry
  /\ mpc = "model" /\ rpc = "none" /\ running = TRUE /\ slot = "empty"
  /\ captureError = FALSE /\ renderError = FALSE /\ camera = FALSE
  /\ serverFd = "none" /\ clientFd = "none" /\ client = "none" /\ room = 0
  /\ pipelineFrames = 0 /\ streamFrames = 0 /\ windowDrops = 0
  /\ faults = {} /\ exit = "none"

-------------------------------------------------------------------------------
(* send_all: a send waits for room; it fails once the connection is known to be gone
   or was shut down.  Until then data for a browser that has left goes nowhere. *)

SendDone ==
  /\ clientFd = "open"
  /\ \/ client = "here" /\ room > 0 /\ room' = room - 1
     \/ client = "gone" /\ UNCHANGED room
  /\ UNCHANGED <<clientFd, client>>

SendFails == (clientFd = "shutdown" \/ client = "reset") /\ UNCHANGED socket

(* PerformanceMonitor.  The counters stop at their bounds. *)

Count(n, max) == IF n < max THEN n + 1 ELSE n

CountFrame ==
  /\ pipelineFrames' = IF telemetry THEN Count(pipelineFrames, MaxCount) ELSE pipelineFrames
  /\ UNCHANGED <<streamFrames, windowDrops>>

\* record_stream: the frame counts, then, once a second, the window starts anew.
\* MUTANT of CountStream: window_drops_ is not reset.
CountStreamKeepsDrops ==
  IF telemetry
  THEN \/ streamFrames' = Count(streamFrames, MaxCount + 2)
          /\ UNCHANGED <<pipelineFrames, windowDrops>>
       \/ pipelineFrames' = 0 /\ streamFrames' = 0 /\ UNCHANGED windowDrops
  ELSE UNCHANGED window

CountStream ==
  IF telemetry
  THEN \/ streamFrames' = Count(streamFrames, MaxCount + 2)
          /\ UNCHANGED <<pipelineFrames, windowDrops>>
       \/ pipelineFrames' = 0 /\ streamFrames' = 0 /\ windowDrops' = 0
  ELSE UNCHANGED window

-------------------------------------------------------------------------------
(* main, up to the stream.  An exception ends the program. *)

Throw(fault) == faults' = faults \cup {fault} /\ mpc' = "unwind"

NoModel ==
  /\ mpc = "model"
  /\ Throw("setup")
  /\ UNCHANGED <<options, captureError, camera, serverFd, exit, renderer, shared, socket, window>>

\* The profile, the model, then pipeline.start.
StartCamera ==
  /\ mpc = "model"
  /\ camera' = TRUE
  /\ mpc' = "warm"
  /\ UNCHANGED <<options, captureError, serverFd, exit, renderer, shared, socket, window, faults>>

\* No calibration, no frames, or no server socket; create_server closes its own.
NoServer ==
  /\ mpc = "warm"
  /\ Throw("setup")
  /\ UNCHANGED <<options, captureError, camera, serverFd, exit, renderer, shared, socket, window>>

CreateServer ==
  /\ mpc = "warm"
  /\ serverFd' = "open"
  /\ mpc' = "accept"
  /\ UNCHANGED <<options, captureError, camera, exit, renderer, shared, socket, window, faults>>

\* wait_for_stream_client serves one connection after the other.
Accept ==
  /\ mpc = "accept"
  /\ clientFd' = "open" /\ client' = "here" /\ room' = Room
  /\ mpc' = "recv"
  /\ UNCHANGED <<options, captureError, camera, serverFd, exit, renderer, shared, window, faults>>

AcceptFails ==
  /\ mpc = "accept"
  /\ Throw("accept")
  /\ UNCHANGED <<options, captureError, camera, serverFd, exit, renderer, shared, socket, window>>

\* Nothing, the page or another path: answered into the empty socket, and closed.
OtherRequest ==
  /\ mpc = "recv"
  /\ clientFd' = "none" /\ client' = "none" /\ room' = 0
  /\ mpc' = "accept"
  /\ UNCHANGED <<options, captureError, camera, serverFd, exit, renderer, shared, window, faults>>

StreamRequest ==
  /\ mpc = "recv"
  /\ mpc' = "header"
  /\ UNCHANGED <<options, captureError, camera, serverFd, exit, renderer, shared, socket, window,
                 faults>>

SendHeader ==
  /\ mpc = "header"
  /\ SendDone
  /\ mpc' = IF program = "yolov26" THEN "spawn" ELSE "head"
  /\ UNCHANGED <<options, captureError, camera, serverFd, exit, renderer, shared, window, faults>>

HeaderFails ==
  /\ mpc = "header"
  /\ SendFails
  /\ Throw("header")
  /\ UNCHANGED <<options, captureError, camera, serverFd, exit, renderer, shared, window>>

\* Out of the try block by an exception: pipeline goes, the sockets are left to the kernel.
Unwind ==
  /\ mpc = "unwind"
  /\ camera' = FALSE
  /\ exit' = "error"
  /\ mpc' = "done"
  /\ UNCHANGED <<options, captureError, serverFd, renderer, shared, socket, window, faults>>

Serve ==
  NoModel \/ StartCamera \/ NoServer \/ CreateServer \/ SendHeader \/ HeaderFails \/ Unwind

\* These wait for a browser.
WaitForStreamClient == Accept \/ AcceptFails \/ OtherRequest \/ StreamRequest

-------------------------------------------------------------------------------
(* yolov26: main as the capture thread *)

Spawn ==
  /\ mpc = "spawn"
  /\ rpc' = "start"
  /\ mpc' = "head"
  /\ UNCHANGED <<options, captureError, camera, serverFd, exit, renderError, shared, socket, window,
                 faults>>

CaptureEnds(fault) ==
  /\ captureError' = TRUE
  /\ faults' = faults \cup {fault}
  /\ mpc' = "ending"
  /\ UNCHANGED <<options, camera, serverFd, exit, renderer, shared, socket, window>>

NoThread == mpc = "spawn" /\ CaptureEnds("thread")

Head ==
  /\ mpc = "head" /\ program = "yolov26"
  /\ mpc' = IF running THEN "frames" ELSE "ending"
  /\ UNCHANGED <<options, captureError, camera, serverFd, exit, renderer, shared, socket, window,
                 faults>>

\* wait_for_frames and infer_frame, which may find an image missing.
NoImages ==
  /\ mpc = "frames"
  /\ mpc' = "head"
  /\ UNCHANGED <<options, captureError, camera, serverFd, exit, renderer, shared, socket, window,
                 faults>>

FrameInferred ==
  /\ mpc = "frames"
  /\ CountFrame
  /\ mpc' = "publish"
  /\ UNCHANGED <<options, captureError, camera, serverFd, exit, renderer, shared, socket, faults>>

CaptureFails == mpc = "frames" /\ CaptureEnds("capture")

Publish ==
  /\ mpc = "publish"
  /\ slot' = IF slot = "empty" THEN "full" ELSE slot
  /\ mpc' = CASE slot = "empty" -> "head" [] slot = "full" -> "drop" [] slot = "stopped" -> "ending"
  /\ UNCHANGED <<options, captureError, camera, serverFd, exit, renderer, running, socket, window,
                 faults>>

CountDrop ==
  /\ mpc = "drop"
  /\ windowDrops' = IF telemetry THEN Count(windowDrops, MaxCount + 2) ELSE windowDrops
  /\ mpc' = "head"
  /\ UNCHANGED <<options, captureError, camera, serverFd, exit, renderer, shared, socket,
                 pipelineFrames, streamFrames, faults>>

Capture ==
  \/ Spawn \/ NoThread \/ Head \/ NoImages \/ FrameInferred \/ CaptureFails \/ Publish \/ CountDrop

-------------------------------------------------------------------------------
(* yolov26: the renderer *)

RendererStarts ==
  /\ rpc = "start"
  /\ rpc' = "head"
  /\ UNCHANGED <<options, main, renderError, shared, socket, window, faults>>

\* SystemMonitor, drawing, encoding or the header of a frame throws.
RenderFails ==
  /\ rpc \in {"start", "encode"}
  /\ renderError' = TRUE
  /\ faults' = faults \cup {"render"}
  /\ rpc' = "leave"
  /\ UNCHANGED <<options, main, shared, socket, window>>

RendererHead ==
  /\ rpc = "head"
  /\ rpc' = IF running THEN "wait" ELSE "leave"
  /\ UNCHANGED <<options, main, renderError, shared, socket, window, faults>>

WaitPop ==
  /\ rpc = "wait" /\ slot # "empty"
  /\ IF slot = "full" THEN slot' = "empty" /\ rpc' = "encode"
     ELSE UNCHANGED slot /\ rpc' = "leave"
  /\ UNCHANGED <<options, main, renderError, running, socket, window, faults>>

Encoded ==
  /\ rpc = "encode"
  /\ rpc' = "send"
  /\ UNCHANGED <<options, main, renderError, shared, socket, window, faults>>

NotEncoded ==
  /\ rpc = "encode"
  /\ rpc' = "head"
  /\ UNCHANGED <<options, main, renderError, shared, socket, window, faults>>

Sent ==
  /\ rpc = "send"
  /\ SendDone
  /\ rpc' = "record"
  /\ UNCHANGED <<options, main, renderError, shared, window, faults>>

\* MUTANT of SendBroken: a browser that left is an error.
SendBrokenRaises ==
  /\ rpc = "send"
  /\ SendFails
  /\ renderError' = TRUE
  /\ rpc' = "leave"
  /\ UNCHANGED <<options, main, shared, window, faults>>

SendBroken ==
  /\ rpc = "send"
  /\ SendFails
  /\ rpc' = "leave"
  /\ UNCHANGED <<options, main, renderError, shared, window, faults>>

Record ==
  /\ rpc = "record"
  /\ CountStream
  /\ rpc' = "head"
  /\ UNCHANGED <<options, main, renderError, shared, socket, faults>>

RendererLeaves ==
  /\ rpc = "leave"
  /\ running' = FALSE
  /\ rpc' = "stop"
  /\ UNCHANGED <<options, main, renderError, slot, socket, window, faults>>

RendererStops ==
  /\ rpc = "stop"
  /\ slot' = "stopped"
  /\ rpc' = "done"
  /\ UNCHANGED <<options, main, renderError, running, socket, window, faults>>

Renderer ==
  \/ RendererStarts \/ RenderFails \/ RendererHead \/ WaitPop \/ Encoded \/ NotEncoded
  \/ Sent \/ SendBroken \/ Record \/ RendererLeaves \/ RendererStops

-------------------------------------------------------------------------------
(* densebox: one loop, in which a missing image or an image not encoded starts it anew *)

DenseCapture ==
  /\ mpc = "head" /\ program = "densebox"
  /\ CountFrame
  /\ mpc' = "encode"
  /\ UNCHANGED <<options, captureError, camera, serverFd, exit, renderer, shared, socket, faults>>

DenseEncoded ==
  /\ mpc = "encode"
  /\ mpc' \in {"head", "send"}
  /\ UNCHANGED <<options, captureError, camera, serverFd, exit, renderer, shared, socket, window,
                 faults>>

DenseFails ==
  /\ program = "densebox" /\ mpc \in {"head", "encode"}
  /\ Throw("capture")
  /\ UNCHANGED <<options, captureError, camera, serverFd, exit, renderer, shared, socket, window>>

DenseSent ==
  /\ mpc = "send"
  /\ SendDone
  /\ mpc' = "record"
  /\ UNCHANGED <<options, captureError, camera, serverFd, exit, renderer, shared, window, faults>>

DenseBroken ==
  /\ mpc = "send"
  /\ SendFails
  /\ mpc' = "close"
  /\ UNCHANGED <<options, captureError, camera, serverFd, exit, renderer, shared, window, faults>>

DenseRecord ==
  /\ mpc = "record"
  /\ CountStream
  /\ mpc' = "head"
  /\ UNCHANGED <<options, captureError, camera, serverFd, exit, renderer, shared, socket, faults>>

DenseBox ==
  DenseCapture \/ DenseEncoded \/ DenseFails \/ DenseSent \/ DenseBroken \/ DenseRecord

-------------------------------------------------------------------------------
(* main, after the loop *)

StopRunning ==
  /\ mpc = "ending"
  /\ running' = FALSE
  /\ mpc' = "stopping"
  /\ UNCHANGED <<options, captureError, camera, serverFd, exit, renderer, slot, socket, window,
                 faults>>

StopHandoff ==
  /\ mpc = "stopping"
  /\ slot' = "stopped"
  /\ mpc' = "shutdown"
  /\ UNCHANGED <<options, captureError, camera, serverFd, exit, renderer, running, socket, window,
                 faults>>

\* MUTANT of Shutdown: the socket stays as it is.
ShutdownNothing ==
  /\ mpc = "shutdown"
  /\ mpc' = "join"
  /\ UNCHANGED <<options, captureError, camera, serverFd, exit, renderer, shared, socket, window,
                 faults>>

\* A send that waits for a browser to read ends only with the connection.
Shutdown ==
  /\ mpc = "shutdown"
  /\ clientFd' = IF captureError THEN "shutdown" ELSE clientFd
  /\ mpc' = "join"
  /\ UNCHANGED <<options, captureError, camera, serverFd, exit, renderer, shared, client, room,
                 window, faults>>

\* MUTANT of Join: the renderer is not waited for.
JoinNobody ==
  /\ mpc = "join"
  /\ mpc' = "close"
  /\ UNCHANGED <<options, captureError, camera, serverFd, exit, renderer, shared, socket, window,
                 faults>>

Join ==
  /\ mpc = "join" /\ rpc \in {"none", "done"}
  /\ mpc' = "close"
  /\ UNCHANGED <<options, captureError, camera, serverFd, exit, renderer, shared, socket, window,
                 faults>>

CloseSockets ==
  /\ mpc = "close"
  /\ clientFd' = "closed" /\ serverFd' = "closed"
  /\ mpc' = "camera"
  /\ UNCHANGED <<options, captureError, camera, exit, renderer, shared, client, room, window, faults>>

\* pipeline.stop, then the errors in their order; stop may throw one of its own.
StopCamera ==
  /\ mpc = "camera"
  /\ camera' = FALSE
  /\ \/ exit' = (IF captureError \/ renderError THEN "error" ELSE "ok") /\ UNCHANGED faults
     \/ exit' = "error" /\ faults' = faults \cup {"stop"}
  /\ mpc' = "done"
  /\ UNCHANGED <<options, captureError, serverFd, renderer, shared, socket, window>>

End == StopRunning \/ StopHandoff \/ Shutdown \/ Join \/ CloseSockets \/ StopCamera

Main == Serve \/ Capture \/ DenseBox \/ End

-------------------------------------------------------------------------------
(* The browser, and the kernel of a browser that left. *)

Reads ==
  /\ client = "here" /\ room < Room
  /\ room' = room + 1
  /\ UNCHANGED <<options, main, renderer, shared, clientFd, client, window, faults>>

Leaves ==
  /\ client = "here"
  /\ client' = "gone"
  /\ UNCHANGED <<options, main, renderer, shared, clientFd, room, window, faults>>

Reset ==
  /\ client = "gone"
  /\ client' = "reset"
  /\ UNCHANGED <<options, main, renderer, shared, clientFd, room, window, faults>>

Browser == Reads \/ Leaves \/ Reset

Done == mpc = "done" /\ UNCHANGED vars

Next == Main \/ WaitForStreamClient \/ Renderer \/ Browser \/ Done

SafeSpec == Init /\ [][Next]_vars

\* Threads run; a browser need neither ask, read nor leave.  The camera and the encoder
\* eventually deliver or fail: wait_for_frames throws after its timeout.
Spec ==
  /\ SafeSpec
  /\ WF_vars(Main) /\ WF_vars(Renderer) /\ WF_vars(Reset)
  /\ SF_vars(FrameInferred \/ CaptureFails)
  /\ SF_vars(Encoded \/ RenderFails)
  /\ SF_vars((mpc' = "send" /\ DenseEncoded) \/ DenseFails)

-------------------------------------------------------------------------------
Before == {"model", "warm", "accept", "recv", "header"}
Streaming == mpc \in {"spawn", "head", "frames", "publish", "drop", "encode", "send", "record"}
AfterJoin == {"close", "camera", "done"}

FlagsOK ==
  /\ telemetry \in BOOLEAN /\ running \in BOOLEAN /\ camera \in BOOLEAN
  /\ captureError \in BOOLEAN /\ renderError \in BOOLEAN

PlacesOK ==
  /\ program \in {"yolov26", "densebox"}
  /\ mpc \in Before \cup {"spawn", "head", "frames", "publish", "drop", "encode", "send", "record",
                          "ending", "stopping", "shutdown", "join", "unwind"} \cup AfterJoin
  /\ rpc \in {"none", "start", "head", "wait", "encode", "send", "record", "leave", "stop", "done"}
  /\ slot \in {"empty", "full", "stopped"}
  /\ serverFd \in {"none", "open", "closed"}
  /\ clientFd \in {"none", "open", "shutdown", "closed"}
  /\ client \in {"none", "here", "gone", "reset"}
  /\ faults \subseteq {"setup", "accept", "header", "thread", "capture", "render", "stop"}
  /\ exit \in {"none", "ok", "error"}

CountersOK ==
  /\ room \in 0..Room
  /\ pipelineFrames \in 0..MaxCount
  /\ streamFrames \in 0..(MaxCount + 2) /\ windowDrops \in 0..(MaxCount + 2)

\* Types of every variable.
TypeOK == FlagsOK /\ PlacesOK /\ CountersOK

(* The renderer refers to client_fd, running, handoff and other locals of main, and main
   reads render_error without a lock.  So the socket is closed, and main's scope left, on
   every path only once the renderer has ended. *)
RendererEndsFirst == mpc \in AfterJoin \cup {"unwind"} => rpc \in {"none", "done"}

\* The browser that asked for the stream was gone before it had the header.
LeftBeforeHeader == faults = {"header"} /\ client = "reset" /\ rpc = "none"

(* The exit code is 1 only if something of the program failed, or if the browser left between
   its request and the header, which the program counts as an error.  A browser that leaves
   once the stream has begun is none, whichever thread meets the broken connection, nor is
   the socket shut down under a send.  The exit code is 0 only if nothing failed and the
   browser left. *)
ExitIsHonest ==
  /\ exit = "error" => faults \ {"header"} # {} \/ LeftBeforeHeader
  /\ exit = "ok" => faults = {} /\ client \in {"gone", "reset"}

(* The two threads count one window under the mutex, but a frame, its drop and its sending
   are three entries: a new window may begin between them.  It inherits at most the drop
   being reported and, of frames sent or dropped together, that one and the one in the
   slot, so drop_rate_percent is off by one frame at most. *)
WindowAccounts ==
  pipelineFrames < MaxCount =>
    /\ windowDrops <= pipelineFrames + 1
    /\ streamFrames + windowDrops <= pipelineFrames + 2

(* A failure ends the program even while a send waits for a browser that neither reads nor
   leaves, and so does a browser that leaves: the next frame meets the broken connection. *)
EndsWhenOver ==
  /\ faults # {} ~> mpc = "done"
  /\ (Streaming /\ client \in {"gone", "reset"}) ~> mpc = "done"

===============================================================================
