-------------------------- MODULE MjpegServer_proofs --------------------------
(***************************************************************************)
(* Proofs about MjpegServer: what its exit code means, that the renderer   *)
(* ends before what it refers to, and what the window of the counters      *)
(* means, for any room in the socket and any length of a window.           *)
(***************************************************************************)
EXTENDS MjpegServer, TLAPS

YoloOnly == {"spawn", "frames", "publish", "drop", "ending", "stopping", "shutdown", "join"}
DenseOnly == {"encode", "send", "record"}
Over == {"ending", "stopping", "shutdown", "join", "close", "camera"}

\* Where the renderer can be, by the place of main and by the program.
OwnInv ==
  /\ mpc \in YoloOnly => program = "yolov26"
  /\ mpc \in DenseOnly => program = "densebox"
  /\ mpc \in Before \cup {"spawn", "unwind"} \cup DenseOnly => rpc = "none"
  /\ program = "densebox" => rpc = "none"
  /\ mpc \in AfterJoin => rpc \in {"none", "done"}

\* What went wrong is in one of the two errors, or on its way out of main.
FaultInv ==
  /\ mpc \in Before => faults = {}
  /\ mpc \notin {"unwind", "done"} => (faults # {} <=> captureError \/ renderError)
  /\ mpc = "unwind" => faults # {}
  /\ exit # "none" <=> mpc = "done"
  /\ "header" \in faults => LeftBeforeHeader /\ mpc \in {"unwind", "done"}
  /\ exit = "error" => faults # {}
  /\ exit = "ok" => faults = {} /\ client = "reset"

\* Nobody ends the stream without a cause: an error, or a connection known to be gone.
Cause == captureError \/ renderError \/ client = "reset"

CauseInv ==
  /\ mpc \in Before => running /\ slot = "empty" /\ clientFd \in {"none", "open"}
  /\ clientFd = "shutdown" => captureError
  /\ rpc \in {"leave", "stop", "done"} => Cause
  /\ ~running \/ slot = "stopped" => Cause
  /\ mpc \in Over => Cause

\* Frames that were counted and are neither sent nor dropped yet.
Offered == IF mpc \in {"publish", "drop"} THEN 1 ELSE 0
Pending == Offered + (IF slot = "full" THEN 1 ELSE 0)
                   + (IF mpc \in DenseOnly \/ rpc \in DenseOnly THEN 1 ELSE 0)

\* A window inherits at most two of them, one of them on its way to be a drop.
WindowInv ==
  IF telemetry
  THEN pipelineFrames < MaxCount =>
         /\ windowDrops + Offered <= pipelineFrames + 1
         /\ streamFrames + windowDrops + Pending <= pipelineFrames + 2
  ELSE pipelineFrames = 0 /\ streamFrames = 0 /\ windowDrops = 0

Inv == TypeOK /\ OwnInv /\ FaultInv /\ CauseInv /\ WindowInv

\* The invariant holds at first.
LEMMA InitInv == Init => Inv
<1> SUFFICES ASSUME Init PROVE Inv
  OBVIOUS
<1>1. TypeOK
  <2>1. FlagsOK
    BY Zenon DEF Init, FlagsOK
  <2>2. PlacesOK /\ CountersOK
    BY MjpegAssumption DEF Init, PlacesOK, CountersOK, Before, AfterJoin
  <2> QED BY <2>1, <2>2 DEF TypeOK
<1>2. OwnInv /\ FaultInv /\ CauseInv
  BY DEF Init, OwnInv, FaultInv, LeftBeforeHeader, CauseInv, Cause, YoloOnly, DenseOnly, Over, Before, AfterJoin
<1>3. WindowInv
  BY MjpegAssumption DEF Init, WindowInv, Pending, Offered, DenseOnly
<1> QED BY <1>1, <1>2, <1>3 DEF Inv

\* Steps of main up to the stream.
LEMMA ServeStep == ASSUME Inv, Serve PROVE Inv'
<1> USE MjpegAssumption
    DEF Inv, TypeOK, FlagsOK, PlacesOK, CountersOK, OwnInv, FaultInv, LeftBeforeHeader, CauseInv,
        WindowInv, Cause, Pending, Offered, YoloOnly, DenseOnly, Over, Before, AfterJoin,
        options, main, renderer, shared, socket, window
<1>1. CASE NoModel
  BY <1>1 DEF NoModel, Throw
<1>2. CASE StartCamera
  BY <1>2 DEF StartCamera
<1>3. CASE NoServer
  BY <1>3 DEF NoServer, Throw
<1>4. CASE CreateServer
  BY <1>4 DEF CreateServer
<1>5. CASE SendHeader
  BY <1>5 DEF SendHeader, SendDone
<1>6. CASE HeaderFails
  BY <1>6 DEF HeaderFails, SendFails, Throw
<1>7. CASE Unwind
  <2>1. FlagsOK'
    BY <1>7, Zenon DEF Unwind
  <2>2. PlacesOK' /\ CountersOK' /\ OwnInv' /\ FaultInv' /\ CauseInv' /\ WindowInv'
    BY <1>7 DEF Unwind
  <2> QED BY <2>1, <2>2
<1> QED BY <1>1, <1>2, <1>3, <1>4, <1>5, <1>6, <1>7 DEF Serve

\* Steps of main waiting for a browser.
LEMMA WaitStep == ASSUME Inv, WaitForStreamClient PROVE Inv'
<1> USE MjpegAssumption
    DEF Inv, TypeOK, FlagsOK, PlacesOK, CountersOK, OwnInv, FaultInv, LeftBeforeHeader, CauseInv,
        WindowInv, Cause, Pending, Offered, YoloOnly, DenseOnly, Over, Before, AfterJoin,
        options, main, renderer, shared, socket, window
<1>1. CASE Accept
  BY <1>1 DEF Accept
<1>2. CASE AcceptFails
  BY <1>2 DEF AcceptFails, Throw
<1>3. CASE OtherRequest
  BY <1>3 DEF OtherRequest
<1>4. CASE StreamRequest
  BY <1>4 DEF StreamRequest
<1> QED BY <1>1, <1>2, <1>3, <1>4 DEF WaitForStreamClient

\* Steps of the capture thread.
LEMMA CaptureStep == ASSUME Inv, Capture PROVE Inv'
<1> USE MjpegAssumption
    DEF Inv, TypeOK, FlagsOK, PlacesOK, CountersOK, OwnInv, FaultInv, LeftBeforeHeader, CauseInv,
        WindowInv, Cause, Pending, Offered, YoloOnly, DenseOnly, Over, Before, AfterJoin,
        options, main, renderer, shared, socket, window
<1>1. CASE Spawn
  BY <1>1 DEF Spawn
<1>2. CASE NoThread
  BY <1>2 DEF NoThread, CaptureEnds
<1>3. CASE Head
  BY <1>3 DEF Head
<1>4. CASE NoImages
  BY <1>4 DEF NoImages
<1>5. CASE FrameInferred
  BY <1>5 DEF FrameInferred, CountFrame, Count
<1>6. CASE CaptureFails
  BY <1>6 DEF CaptureFails, CaptureEnds
<1>7. CASE Publish
  BY <1>7 DEF Publish
<1>8. CASE CountDrop
  BY <1>8 DEF CountDrop, Count
<1> QED BY <1>1, <1>2, <1>3, <1>4, <1>5, <1>6, <1>7, <1>8 DEF Capture

\* Steps of the renderer.
LEMMA RendererStep == ASSUME Inv, Renderer PROVE Inv'
<1> USE MjpegAssumption
    DEF Inv, TypeOK, FlagsOK, PlacesOK, CountersOK, OwnInv, FaultInv, LeftBeforeHeader, CauseInv,
        WindowInv, Cause, Pending, Offered, YoloOnly, DenseOnly, Over, Before, AfterJoin,
        options, main, renderer, shared, socket, window
<1>1. CASE RendererStarts
  BY <1>1 DEF RendererStarts
<1>2. CASE RenderFails
  BY <1>2 DEF RenderFails
<1>3. CASE RendererHead
  BY <1>3 DEF RendererHead
<1>4. CASE WaitPop
  BY <1>4 DEF WaitPop
<1>5. CASE Encoded
  BY <1>5 DEF Encoded
<1>6. CASE NotEncoded
  BY <1>6 DEF NotEncoded
<1>7. CASE Sent
  BY <1>7 DEF Sent, SendDone
<1>8. CASE SendBroken
  BY <1>8 DEF SendBroken, SendFails
<1>9. CASE Record
  BY <1>9 DEF Record, CountStream, Count
<1>10. CASE RendererLeaves
  <2>1. FlagsOK'
    BY <1>10, Zenon DEF RendererLeaves
  <2>2. PlacesOK' /\ CountersOK' /\ OwnInv' /\ FaultInv' /\ CauseInv' /\ WindowInv'
    BY <1>10 DEF RendererLeaves
  <2> QED BY <2>1, <2>2
<1>11. CASE RendererStops
  BY <1>11 DEF RendererStops
<1> QED BY <1>1, <1>2, <1>3, <1>4, <1>5, <1>6, <1>7, <1>8, <1>9, <1>10, <1>11 DEF Renderer

\* Steps of the DenseBox loop.
LEMMA DenseBoxStep == ASSUME Inv, DenseBox PROVE Inv'
<1> USE MjpegAssumption
    DEF Inv, TypeOK, FlagsOK, PlacesOK, CountersOK, OwnInv, FaultInv, LeftBeforeHeader, CauseInv,
        WindowInv, Cause, Pending, Offered, YoloOnly, DenseOnly, Over, Before, AfterJoin,
        options, main, renderer, shared, socket, window
<1>1. CASE DenseCapture
  BY <1>1 DEF DenseCapture, CountFrame, Count
<1>2. CASE DenseEncoded
  BY <1>2 DEF DenseEncoded
<1>3. CASE DenseFails
  BY <1>3 DEF DenseFails, Throw
<1>4. CASE DenseSent
  BY <1>4 DEF DenseSent, SendDone
<1>5. CASE DenseBroken
  BY <1>5 DEF DenseBroken, SendFails
<1>6. CASE DenseRecord
  BY <1>6 DEF DenseRecord, CountStream, Count
<1> QED BY <1>1, <1>2, <1>3, <1>4, <1>5, <1>6 DEF DenseBox

\* Steps of main after the loop.
LEMMA EndStep == ASSUME Inv, End PROVE Inv'
<1> USE MjpegAssumption
    DEF Inv, TypeOK, FlagsOK, PlacesOK, CountersOK, OwnInv, FaultInv, LeftBeforeHeader, CauseInv,
        WindowInv, Cause, Pending, Offered, YoloOnly, DenseOnly, Over, Before, AfterJoin,
        options, main, renderer, shared, socket, window
<1>1. CASE StopRunning
  <2>1. FlagsOK'
    BY <1>1, Zenon DEF StopRunning
  <2>2. PlacesOK' /\ CountersOK' /\ OwnInv' /\ FaultInv' /\ CauseInv' /\ WindowInv'
    BY <1>1 DEF StopRunning
  <2> QED BY <2>1, <2>2
<1>2. CASE StopHandoff
  BY <1>2 DEF StopHandoff
<1>3. CASE Shutdown
  BY <1>3 DEF Shutdown
<1>4. CASE Join
  BY <1>4 DEF Join
<1>5. CASE CloseSockets
  BY <1>5 DEF CloseSockets
<1>6. CASE StopCamera
  <2>1. FlagsOK'
    BY <1>6, Zenon DEF StopCamera
  <2>2. PlacesOK' /\ CountersOK'
    BY <1>6 DEF StopCamera
  <2>3. OwnInv' /\ CauseInv' /\ WindowInv'
    BY <1>6 DEF StopCamera
  <2>4. FaultInv'
    BY <1>6 DEF StopCamera
  <2> QED BY <2>1, <2>2, <2>3, <2>4
<1> QED BY <1>1, <1>2, <1>3, <1>4, <1>5, <1>6 DEF End

\* Steps of the browser and its kernel.
LEMMA BrowserStep == ASSUME Inv, Browser PROVE Inv'
<1> USE MjpegAssumption
    DEF Inv, TypeOK, FlagsOK, PlacesOK, CountersOK, OwnInv, FaultInv, LeftBeforeHeader, CauseInv,
        WindowInv, Cause, Pending, Offered, YoloOnly, DenseOnly, Over, Before, AfterJoin,
        options, main, renderer, shared, socket, window
<1>1. CASE Reads
  BY <1>1 DEF Reads
<1>2. CASE Leaves
  BY <1>2 DEF Leaves
<1>3. CASE Reset
  BY <1>3 DEF Reset
<1> QED BY <1>1, <1>2, <1>3 DEF Browser

\* Each step keeps the invariant.
LEMMA StepInv == Inv /\ [Next]_vars => Inv'
<1> SUFFICES ASSUME Inv, [Next]_vars PROVE Inv'
  OBVIOUS
<1>1. CASE UNCHANGED vars
  BY <1>1 DEF vars, options, main, renderer, shared, socket, window, Inv, TypeOK, FlagsOK,
       PlacesOK, CountersOK, OwnInv, FaultInv, LeftBeforeHeader, CauseInv, Cause, WindowInv, Pending, Offered
<1> QED BY ONLY Inv, [Next]_vars, <1>1, ServeStep, WaitStep, CaptureStep, RendererStep,
                 DenseBoxStep, EndStep, BrowserStep DEF Next, Main, Done

\* The invariant always holds.
LEMMA InvAlways == SafeSpec => []Inv
BY InitInv, StepInv, PTL DEF SafeSpec

\* The variables of the two programs keep their types; the counters and the room in the
\* socket keep their bounds.
THEOREM TypeCorrect == SafeSpec => []TypeOK
<1>1. Inv => TypeOK
  BY DEF Inv
<1> QED BY <1>1, InvAlways, PTL

\* main closes the socket and leaves the scope the renderer refers to, on any way out,
\* only after the renderer has ended.
THEOREM RendererOutlivesNothing == SafeSpec => []RendererEndsFirst
<1>1. Inv => RendererEndsFirst
  BY DEF Inv, OwnInv, RendererEndsFirst
<1> QED BY <1>1, InvAlways, PTL

\* Exit code 1 means that something of the program failed or that the browser left between
\* its request and the header; exit code 0 that nothing failed and the browser left.
THEOREM ExitCodeIsHonest == SafeSpec => []ExitIsHonest
<1>1. Inv => ExitIsHonest
  BY DEF Inv, FaultInv, ExitIsHonest
<1> QED BY <1>1, InvAlways, PTL

\* For a window of any length the drops and the frames sent exceed the frames counted by
\* one and by two at most.
THEOREM WindowIsOffByFew == SafeSpec => []WindowAccounts
<1>1. Inv => WindowAccounts
  BY MjpegAssumption DEF Inv, TypeOK, CountersOK, WindowInv, Pending, Offered, WindowAccounts
<1> QED BY <1>1, InvAlways, PTL
===============================================================================
