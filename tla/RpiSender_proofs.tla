--------------------------- MODULE RpiSender_proofs ---------------------------
(***************************************************************************)
(* Proofs about RpiSender: what its exit code means and what is left when  *)
(* it ends, whatever fails and whenever a signal comes.                    *)
(***************************************************************************)
EXTENDS RpiSender, TLAPS

Starting == {"preflight", "startCamera", "warmup", "startVideo", "spawn"}
Capturing == {"loop", "wait", "store", "publish"}
Ending == {"stopRunning", "invalidate", "stopHandoff", "stopWorkers", "stopVideo",
           "joinRenderer", "joinWorker", "stopCamera"}
Unwinding == {"unwind", "unwatch", "done"}

\* Which threads, devices and pipelines exist, by the place of main.
OwnInv ==
  /\ mpc \in Starting => rpc = "none" /\ wpc = "none" /\ ~workersStop
  /\ mpc \in {"joinWorker", "stopCamera"} \cup Unwinding => rpc \in {"none", "done"}
  /\ mpc \in {"stopCamera"} \cup Unwinding => wpc \in {"none", "done"}
  /\ mpc \in Starting \ {"spawn"} => video = "none"
  /\ mpc = "spawn" => video # "stopped"
  /\ mpc \in {"joinRenderer", "joinWorker", "stopCamera"} => video = "stopped"
  /\ mpc = "unwind" => video \in {"none", "stopped"}
  /\ mpc \in {"unwatch", "done"} => ~camera /\ video \in {"none", "stopped"}
  /\ exit # "none" <=> mpc = "done"

\* Whatever ends the capture has a reason that is not Redis.
Reason == signalFired \/ durationSet \/ faults \ {"redis"} # {}
Ended ==
  \/ ~running \/ workersStop \/ slot = "stopped"
  \/ rpc \in {"failed", "failedRunning", "end", "done"}
  \/ video \in {"failed", "stopped"} \/ busError
  \/ mpc \in Ending
ReasonInv == Ended => Reason

\* A push that fails although nobody has asked to stop met a failed pipeline: the
\* stop token is set before main stops the video.
PushInv ==
  /\ rpc \in {"failed", "failedRunning"} => video \in {"failed", "stopped"}
  /\ mpc \in {"stopVideo", "joinRenderer", "joinWorker", "stopCamera"} => workersStop
  /\ video = "stopped" /\ rpc # "none" => workersStop
  /\ video = "failed" \/ busError => "pipeline" \in faults

\* The errors main and the renderer have recorded are the faults that happened.
ErrorInv ==
  /\ rpc \notin {"end", "done"} => ~renderError /\ "render" \notin faults
  /\ renderError => faults \cap {"render", "pipeline"} # {}
  /\ captureError # "none" => faults \cap {"threads", "capture", "realsense", "pipeline"} # {}
  /\ "threads" \in faults => workersStop
  /\ mpc \in {"wait", "store", "publish"} => "threads" \notin faults
  /\ mpc \in Capturing => faults \cap {"realsense", "capture"} = {}
  /\ mpc \in Starting => captureError = "none" /\ faults \cap {"threads", "capture"} = {}
  /\ mpc \notin Unwinding =>
       /\ unwinding = "none"
       /\ faults \cap {"preflight", "startVideo", "camera"} = {}
       /\ "realsense" \in faults <=> captureError = "rs2"
       /\ faults \cap {"threads", "capture"} # {} => captureError = "std"
       /\ "render" \in faults => renderError

\* What main throws in the end accounts for the faults.
UnwindInv ==
  mpc \in Unwinding =>
    /\ faults \cap {"preflight", "startVideo", "camera"} # {} => unwinding = "std"
    /\ faults \cap {"threads", "capture", "render"} # {} => unwinding \in {"rs2", "std"}
    /\ "realsense" \in faults <=> unwinding = "rs2"
    /\ unwinding = "cancelled" => signalFired
    /\ unwinding \in {"rs2", "std"} => faults \ {"redis"} # {}

Forgiven == unwinding = "none" \/ (signalFired /\ unwinding \in {"rs2", "cancelled"})
ExitInv ==
  /\ exit = "ok" => Forgiven
  /\ exit = "error" => ~Forgiven

Inv == TypeOK /\ OwnInv /\ ReasonInv /\ PushInv /\ ErrorInv /\ UnwindInv /\ ExitInv

\* The invariant holds at first.
LEMMA InitInv == Init => Inv
BY DEF Init, Inv, TypeOK, FlagsOK, PlacesOK, FaultsOK, OwnInv, ReasonInv, Reason, Ended, PushInv, ErrorInv, UnwindInv, ExitInv,
       Forgiven, Starting, Capturing, Ending, Unwinding

\* Steps of start-up.
LEMMA StartupStep == ASSUME Inv, Startup PROVE Inv'
<1> USE DEF Inv, TypeOK, Starting, Capturing, Ending, Unwinding, Fault, RealSenseThrows, Stop, Looping, endVars, videoVars,
            errorVars, flagVars
<1>1. CASE Preflight
  <2>1. FlagsOK'
    BY <1>1 DEF Preflight, FlagsOK
  <2>2. PlacesOK'
    BY <1>1 DEF Preflight, PlacesOK
  <2>3. FaultsOK'
    BY <1>1 DEF Preflight, FaultsOK
  <2>4. OwnInv'
    BY <1>1 DEF Preflight, FlagsOK, PlacesOK, FaultsOK, OwnInv, PushInv
  <2>5. ReasonInv'
    BY <1>1 DEF Preflight, FlagsOK, PlacesOK, FaultsOK, OwnInv, ReasonInv, Reason, Ended, PushInv
  <2>6. PushInv'
    BY <1>1 DEF Preflight, FlagsOK, PlacesOK, FaultsOK, OwnInv, PushInv
  <2>7. ErrorInv'
    BY <1>1 DEF Preflight, FlagsOK, PlacesOK, FaultsOK, OwnInv, PushInv, ErrorInv
  <2>8. UnwindInv' /\ ExitInv'
    BY <1>1 DEF Preflight, FlagsOK, PlacesOK, FaultsOK, OwnInv, ReasonInv, Reason, Ended, ErrorInv, UnwindInv, ExitInv,
           Forgiven
  <2> QED BY <2>1, <2>2, <2>3, <2>4, <2>5, <2>6, <2>7, <2>8
<1>2. CASE StartCamera
  <2>1. FlagsOK'
    BY <1>2 DEF StartCamera, FlagsOK
  <2>2. PlacesOK'
    BY <1>2 DEF StartCamera, PlacesOK
  <2>3. FaultsOK'
    BY <1>2 DEF StartCamera, FaultsOK
  <2>4. OwnInv'
    BY <1>2 DEF StartCamera, FlagsOK, PlacesOK, FaultsOK, OwnInv, PushInv
  <2>5. ReasonInv'
    BY <1>2 DEF StartCamera, FlagsOK, PlacesOK, FaultsOK, OwnInv, ReasonInv, Reason, Ended, PushInv
  <2>6. PushInv'
    BY <1>2 DEF StartCamera, FlagsOK, PlacesOK, FaultsOK, OwnInv, PushInv
  <2>7. ErrorInv'
    BY <1>2 DEF StartCamera, FlagsOK, PlacesOK, FaultsOK, OwnInv, PushInv, ErrorInv
  <2>8. UnwindInv' /\ ExitInv'
    BY <1>2 DEF StartCamera, FlagsOK, PlacesOK, FaultsOK, OwnInv, ReasonInv, Reason, Ended, ErrorInv, UnwindInv, ExitInv,
           Forgiven
  <2> QED BY <2>1, <2>2, <2>3, <2>4, <2>5, <2>6, <2>7, <2>8
<1>3. CASE Warmup
  <2>1. FlagsOK'
    BY <1>3 DEF Warmup, FlagsOK
  <2>2. PlacesOK'
    BY <1>3 DEF Warmup, PlacesOK
  <2>3. FaultsOK'
    BY <1>3 DEF Warmup, FaultsOK
  <2>4. OwnInv'
    BY <1>3 DEF Warmup, FlagsOK, PlacesOK, FaultsOK, OwnInv, PushInv
  <2>5. ReasonInv'
    BY <1>3 DEF Warmup, FlagsOK, PlacesOK, FaultsOK, OwnInv, ReasonInv, Reason, Ended, PushInv
  <2>6. PushInv'
    BY <1>3 DEF Warmup, FlagsOK, PlacesOK, FaultsOK, OwnInv, PushInv
  <2>7. ErrorInv'
    BY <1>3 DEF Warmup, FlagsOK, PlacesOK, FaultsOK, OwnInv, PushInv, ErrorInv
  <2>8. UnwindInv' /\ ExitInv'
    BY <1>3 DEF Warmup, FlagsOK, PlacesOK, FaultsOK, OwnInv, ReasonInv, Reason, Ended, ErrorInv, UnwindInv, ExitInv,
           Forgiven
  <2> QED BY <2>1, <2>2, <2>3, <2>4, <2>5, <2>6, <2>7, <2>8
<1>4. CASE StartVideo
  <2>1. FlagsOK'
    BY <1>4 DEF StartVideo, FlagsOK
  <2>2. PlacesOK'
    BY <1>4 DEF StartVideo, PlacesOK
  <2>3. FaultsOK'
    BY <1>4 DEF StartVideo, FaultsOK
  <2>4. OwnInv'
    BY <1>4 DEF StartVideo, FlagsOK, PlacesOK, FaultsOK, OwnInv, PushInv
  <2>5. ReasonInv'
    BY <1>4 DEF StartVideo, FlagsOK, PlacesOK, FaultsOK, OwnInv, ReasonInv, Reason, Ended, PushInv
  <2>6. PushInv'
    BY <1>4 DEF StartVideo, FlagsOK, PlacesOK, FaultsOK, OwnInv, PushInv
  <2>7. ErrorInv'
    BY <1>4 DEF StartVideo, FlagsOK, PlacesOK, FaultsOK, OwnInv, PushInv, ErrorInv
  <2>8. UnwindInv' /\ ExitInv'
    BY <1>4 DEF StartVideo, FlagsOK, PlacesOK, FaultsOK, OwnInv, ReasonInv, Reason, Ended, ErrorInv, UnwindInv, ExitInv,
           Forgiven
  <2> QED BY <2>1, <2>2, <2>3, <2>4, <2>5, <2>6, <2>7, <2>8
<1>5. CASE SpawnThreads
  <2>1. FlagsOK'
    BY <1>5 DEF SpawnThreads, FlagsOK
  <2>2. PlacesOK'
    BY <1>5 DEF SpawnThreads, PlacesOK
  <2>3. FaultsOK'
    BY <1>5 DEF SpawnThreads, FaultsOK
  <2>4. OwnInv'
    BY <1>5 DEF SpawnThreads, FlagsOK, PlacesOK, FaultsOK, OwnInv, PushInv
  <2>5. ReasonInv'
    BY <1>5 DEF SpawnThreads, FlagsOK, PlacesOK, FaultsOK, OwnInv, ReasonInv, Reason, Ended, PushInv
  <2>6. PushInv'
    BY <1>5 DEF SpawnThreads, FlagsOK, PlacesOK, FaultsOK, OwnInv, PushInv
  <2>7. ErrorInv'
    BY <1>5 DEF SpawnThreads, FlagsOK, PlacesOK, FaultsOK, OwnInv, PushInv, ErrorInv
  <2>8. UnwindInv' /\ ExitInv'
    BY <1>5 DEF SpawnThreads, FlagsOK, PlacesOK, FaultsOK, OwnInv, ReasonInv, Reason, Ended, ErrorInv, UnwindInv, ExitInv,
           Forgiven
  <2> QED BY <2>1, <2>2, <2>3, <2>4, <2>5, <2>6, <2>7, <2>8
<1> QED BY <1>1, <1>2, <1>3, <1>4, <1>5 DEF Startup

\* Steps of the capture loop.
LEMMA CaptureStep == ASSUME Inv, Capture PROVE Inv'
<1> USE DEF Inv, TypeOK, Starting, Capturing, Ending, Unwinding, Fault, RealSenseThrows, Stop, Looping, endVars, videoVars,
            errorVars, flagVars
<1>1. CASE LoopEnds
  BY <1>1 DEF LoopEnds, FlagsOK, PlacesOK, FaultsOK, FaultsOK, OwnInv, ReasonInv, Reason, Ended, PushInv, ErrorInv, UnwindInv,
         ExitInv, Forgiven
<1>2. CASE BusErrorFound
  <2>1. FlagsOK'
    BY <1>2 DEF BusErrorFound, FlagsOK
  <2>2. PlacesOK'
    BY <1>2 DEF BusErrorFound, PlacesOK
  <2>3. FaultsOK'
    BY <1>2 DEF BusErrorFound, FaultsOK
  <2>4. OwnInv'
    BY <1>2 DEF BusErrorFound, FlagsOK, PlacesOK, FaultsOK, OwnInv, PushInv
  <2>5. ReasonInv'
    BY <1>2 DEF BusErrorFound, FlagsOK, PlacesOK, FaultsOK, OwnInv, ReasonInv, Reason, Ended, PushInv
  <2>6. PushInv'
    BY <1>2 DEF BusErrorFound, FlagsOK, PlacesOK, FaultsOK, OwnInv, PushInv
  <2>7. ErrorInv'
    BY <1>2 DEF BusErrorFound, FlagsOK, PlacesOK, FaultsOK, OwnInv, PushInv, ErrorInv
  <2>8. UnwindInv' /\ ExitInv'
    BY <1>2 DEF BusErrorFound, FlagsOK, PlacesOK, FaultsOK, OwnInv, ReasonInv, Reason, Ended, ErrorInv, UnwindInv, ExitInv,
           Forgiven
  <2> QED BY <2>1, <2>2, <2>3, <2>4, <2>5, <2>6, <2>7, <2>8
<1>3. CASE BusQuiet
  BY <1>3 DEF BusQuiet, FlagsOK, PlacesOK, FaultsOK, FaultsOK, OwnInv, ReasonInv, Reason, Ended, PushInv, ErrorInv, UnwindInv,
         ExitInv, Forgiven
<1>4. CASE WaitAndInfer
  <2>1. FlagsOK'
    BY <1>4 DEF WaitAndInfer, FlagsOK
  <2>2. PlacesOK'
    BY <1>4 DEF WaitAndInfer, PlacesOK
  <2>3. FaultsOK'
    BY <1>4 DEF WaitAndInfer, FaultsOK
  <2>4. OwnInv'
    BY <1>4 DEF WaitAndInfer, FlagsOK, PlacesOK, FaultsOK, OwnInv, PushInv
  <2>5. ReasonInv'
    BY <1>4 DEF WaitAndInfer, FlagsOK, PlacesOK, FaultsOK, OwnInv, ReasonInv, Reason, Ended, PushInv
  <2>6. PushInv'
    BY <1>4 DEF WaitAndInfer, FlagsOK, PlacesOK, FaultsOK, OwnInv, PushInv
  <2>7. ErrorInv'
    BY <1>4 DEF WaitAndInfer, FlagsOK, PlacesOK, FaultsOK, OwnInv, PushInv, ErrorInv
  <2>8. UnwindInv' /\ ExitInv'
    BY <1>4 DEF WaitAndInfer, FlagsOK, PlacesOK, FaultsOK, OwnInv, ReasonInv, Reason, Ended, ErrorInv, UnwindInv, ExitInv,
           Forgiven
  <2> QED BY <2>1, <2>2, <2>3, <2>4, <2>5, <2>6, <2>7, <2>8
<1>5. CASE StoreFace
  <2>1. FlagsOK'
    BY <1>5 DEF StoreFace, FlagsOK
  <2>2. PlacesOK'
    BY <1>5 DEF StoreFace, PlacesOK
  <2>3. FaultsOK'
    BY <1>5 DEF StoreFace, FaultsOK
  <2>4. OwnInv'
    BY <1>5 DEF StoreFace, FlagsOK, PlacesOK, FaultsOK, OwnInv, PushInv
  <2>5. ReasonInv'
    BY <1>5 DEF StoreFace, FlagsOK, PlacesOK, FaultsOK, OwnInv, ReasonInv, Reason, Ended, PushInv
  <2>6. PushInv'
    BY <1>5 DEF StoreFace, FlagsOK, PlacesOK, FaultsOK, OwnInv, PushInv
  <2>7. ErrorInv'
    BY <1>5 DEF StoreFace, FlagsOK, PlacesOK, FaultsOK, OwnInv, PushInv, ErrorInv
  <2>8. UnwindInv' /\ ExitInv'
    BY <1>5 DEF StoreFace, FlagsOK, PlacesOK, FaultsOK, OwnInv, ReasonInv, Reason, Ended, ErrorInv, UnwindInv, ExitInv,
           Forgiven
  <2> QED BY <2>1, <2>2, <2>3, <2>4, <2>5, <2>6, <2>7, <2>8
<1>6. CASE PublishFrame
  BY <1>6 DEF PublishFrame, FlagsOK, PlacesOK, FaultsOK, FaultsOK, OwnInv, ReasonInv, Reason, Ended, PushInv, ErrorInv, UnwindInv,
         ExitInv, Forgiven
<1> QED BY <1>1, <1>2, <1>3, <1>4, <1>5, <1>6 DEF Capture

\* Steps of the shutdown.
LEMMA ShutdownStep == ASSUME Inv, Shutdown PROVE Inv'
<1> USE DEF Inv, TypeOK, Starting, Capturing, Ending, Unwinding, Fault, RealSenseThrows, Stop, Looping, endVars, videoVars,
            errorVars, flagVars
<1>1. CASE StopRunning
  <2>1. FlagsOK'
    BY <1>1 DEF StopRunning, FlagsOK
  <2>2. PlacesOK'
    BY <1>1 DEF StopRunning, PlacesOK
  <2>3. FaultsOK'
    BY <1>1 DEF StopRunning, FaultsOK
  <2>4. OwnInv'
    BY <1>1 DEF StopRunning, FlagsOK, PlacesOK, FaultsOK, OwnInv, PushInv
  <2>5. ReasonInv'
    BY <1>1 DEF StopRunning, FlagsOK, PlacesOK, FaultsOK, OwnInv, ReasonInv, Reason, Ended, PushInv
  <2>6. PushInv'
    BY <1>1 DEF StopRunning, FlagsOK, PlacesOK, FaultsOK, OwnInv, PushInv
  <2>7. ErrorInv'
    BY <1>1 DEF StopRunning, FlagsOK, PlacesOK, FaultsOK, OwnInv, PushInv, ErrorInv
  <2>8. UnwindInv' /\ ExitInv'
    BY <1>1 DEF StopRunning, FlagsOK, PlacesOK, FaultsOK, OwnInv, ReasonInv, Reason, Ended, ErrorInv, UnwindInv, ExitInv,
           Forgiven
  <2> QED BY <2>1, <2>2, <2>3, <2>4, <2>5, <2>6, <2>7, <2>8
<1>2. CASE InvalidateFace
  <2>1. FlagsOK'
    BY <1>2 DEF InvalidateFace, FlagsOK
  <2>2. PlacesOK'
    BY <1>2 DEF InvalidateFace, PlacesOK
  <2>3. FaultsOK'
    BY <1>2 DEF InvalidateFace, FaultsOK
  <2>4. OwnInv'
    BY <1>2 DEF InvalidateFace, FlagsOK, PlacesOK, FaultsOK, OwnInv, PushInv
  <2>5. ReasonInv'
    BY <1>2 DEF InvalidateFace, FlagsOK, PlacesOK, FaultsOK, OwnInv, ReasonInv, Reason, Ended, PushInv
  <2>6. PushInv'
    BY <1>2 DEF InvalidateFace, FlagsOK, PlacesOK, FaultsOK, OwnInv, PushInv
  <2>7. ErrorInv'
    BY <1>2 DEF InvalidateFace, FlagsOK, PlacesOK, FaultsOK, OwnInv, PushInv, ErrorInv
  <2>8. UnwindInv' /\ ExitInv'
    BY <1>2 DEF InvalidateFace, FlagsOK, PlacesOK, FaultsOK, OwnInv, ReasonInv, Reason, Ended, ErrorInv, UnwindInv, ExitInv,
           Forgiven
  <2> QED BY <2>1, <2>2, <2>3, <2>4, <2>5, <2>6, <2>7, <2>8
<1>3. CASE StopHandoff
  BY <1>3 DEF StopHandoff, FlagsOK, PlacesOK, FaultsOK, FaultsOK, OwnInv, ReasonInv, Reason, Ended, PushInv, ErrorInv, UnwindInv,
         ExitInv, Forgiven
<1>4. CASE StopWorkers
  BY <1>4 DEF StopWorkers, FlagsOK, PlacesOK, FaultsOK, FaultsOK, OwnInv, ReasonInv, Reason, Ended, PushInv, ErrorInv, UnwindInv,
         ExitInv, Forgiven
<1>5. CASE StopVideo
  <2>1. FlagsOK'
    BY <1>5 DEF StopVideo, FlagsOK
  <2>2. PlacesOK'
    BY <1>5 DEF StopVideo, PlacesOK
  <2>3. FaultsOK'
    BY <1>5 DEF StopVideo, FaultsOK
  <2>4. OwnInv'
    BY <1>5 DEF StopVideo, FlagsOK, PlacesOK, FaultsOK, OwnInv, PushInv
  <2>5. ReasonInv'
    BY <1>5 DEF StopVideo, FlagsOK, PlacesOK, FaultsOK, OwnInv, ReasonInv, Reason, Ended, PushInv
  <2>6. PushInv'
    BY <1>5 DEF StopVideo, FlagsOK, PlacesOK, FaultsOK, OwnInv, PushInv
  <2>7. ErrorInv'
    BY <1>5 DEF StopVideo, FlagsOK, PlacesOK, FaultsOK, OwnInv, PushInv, ErrorInv
  <2>8. UnwindInv' /\ ExitInv'
    BY <1>5 DEF StopVideo, FlagsOK, PlacesOK, FaultsOK, OwnInv, ReasonInv, Reason, Ended, ErrorInv, UnwindInv, ExitInv,
           Forgiven
  <2> QED BY <2>1, <2>2, <2>3, <2>4, <2>5, <2>6, <2>7, <2>8
<1>6. CASE JoinRenderer
  BY <1>6 DEF JoinRenderer, FlagsOK, PlacesOK, FaultsOK, FaultsOK, OwnInv, ReasonInv, Reason, Ended, PushInv, ErrorInv, UnwindInv,
         ExitInv, Forgiven
<1>7. CASE JoinWorker
  BY <1>7 DEF JoinWorker, FlagsOK, PlacesOK, FaultsOK, FaultsOK, OwnInv, ReasonInv, Reason, Ended, PushInv, ErrorInv, UnwindInv,
         ExitInv, Forgiven
<1>8. CASE StopCamera
  <2>1. FlagsOK'
    BY <1>8 DEF StopCamera, FlagsOK
  <2>2. PlacesOK'
    BY <1>8 DEF StopCamera, PlacesOK
  <2>3. FaultsOK'
    BY <1>8 DEF StopCamera, FaultsOK
  <2>4. OwnInv'
    BY <1>8 DEF StopCamera, FlagsOK, PlacesOK, FaultsOK, OwnInv, PushInv
  <2>5. ReasonInv'
    BY <1>8 DEF StopCamera, FlagsOK, PlacesOK, FaultsOK, OwnInv, ReasonInv, Reason, Ended, PushInv
  <2>6. PushInv'
    BY <1>8 DEF StopCamera, FlagsOK, PlacesOK, FaultsOK, OwnInv, PushInv
  <2>7. ErrorInv'
    BY <1>8 DEF StopCamera, FlagsOK, PlacesOK, FaultsOK, OwnInv, PushInv, ErrorInv
  <2>8. UnwindInv' /\ ExitInv'
    BY <1>8 DEF StopCamera, FlagsOK, PlacesOK, FaultsOK, OwnInv, ReasonInv, Reason, Ended, ErrorInv, UnwindInv, ExitInv,
           Forgiven
  <2> QED BY <2>1, <2>2, <2>3, <2>4, <2>5, <2>6, <2>7, <2>8
<1>9. CASE Unwind
  <2>1. FlagsOK'
    BY <1>9 DEF Unwind, FlagsOK
  <2>2. PlacesOK'
    BY <1>9 DEF Unwind, PlacesOK
  <2>3. FaultsOK'
    BY <1>9 DEF Unwind, FaultsOK
  <2>4. OwnInv'
    BY <1>9 DEF Unwind, FlagsOK, PlacesOK, FaultsOK, OwnInv, PushInv
  <2>5. ReasonInv'
    BY <1>9 DEF Unwind, FlagsOK, PlacesOK, FaultsOK, OwnInv, ReasonInv, Reason, Ended, PushInv
  <2>6. PushInv'
    BY <1>9 DEF Unwind, FlagsOK, PlacesOK, FaultsOK, OwnInv, PushInv
  <2>7. ErrorInv'
    BY <1>9 DEF Unwind, FlagsOK, PlacesOK, FaultsOK, OwnInv, PushInv, ErrorInv
  <2>8. UnwindInv' /\ ExitInv'
    BY <1>9 DEF Unwind, FlagsOK, PlacesOK, FaultsOK, OwnInv, ReasonInv, Reason, Ended, ErrorInv, UnwindInv, ExitInv,
           Forgiven
  <2> QED BY <2>1, <2>2, <2>3, <2>4, <2>5, <2>6, <2>7, <2>8
<1>10. CASE Unwatch
  <2>1. FlagsOK'
    BY <1>10 DEF Unwatch, FlagsOK
  <2>2. PlacesOK'
    BY <1>10 DEF Unwatch, PlacesOK
  <2>3. FaultsOK'
    BY <1>10 DEF Unwatch, FaultsOK
  <2>4. OwnInv'
    BY <1>10 DEF Unwatch, FlagsOK, PlacesOK, FaultsOK, OwnInv, PushInv
  <2>5. ReasonInv'
    BY <1>10 DEF Unwatch, FlagsOK, PlacesOK, FaultsOK, OwnInv, ReasonInv, Reason, Ended, PushInv
  <2>6. PushInv'
    BY <1>10 DEF Unwatch, FlagsOK, PlacesOK, FaultsOK, OwnInv, PushInv
  <2>7. ErrorInv'
    BY <1>10 DEF Unwatch, FlagsOK, PlacesOK, FaultsOK, OwnInv, PushInv, ErrorInv
  <2>8. UnwindInv' /\ ExitInv'
    BY <1>10 DEF Unwatch, FlagsOK, PlacesOK, FaultsOK, OwnInv, ReasonInv, Reason, Ended, ErrorInv, UnwindInv, ExitInv,
           Forgiven
  <2> QED BY <2>1, <2>2, <2>3, <2>4, <2>5, <2>6, <2>7, <2>8
<1> QED BY <1>1, <1>2, <1>3, <1>4, <1>5, <1>6, <1>7, <1>8, <1>9, <1>10 DEF Shutdown

\* Steps of the renderer.
LEMMA RendererStep == ASSUME Inv, Renderer PROVE Inv'
<1> USE DEF Inv, TypeOK, Starting, Capturing, Ending, Unwinding, Fault, RealSenseThrows, Stop, Looping, endVars, videoVars,
            errorVars, flagVars
<1>1. CASE RenderTop
  BY <1>1 DEF RenderTop, FlagsOK, PlacesOK, FaultsOK, FaultsOK, OwnInv, ReasonInv, Reason, Ended, PushInv, ErrorInv, UnwindInv,
         ExitInv, Forgiven
<1>2. CASE RenderPop
  BY <1>2 DEF RenderPop, FlagsOK, PlacesOK, FaultsOK, FaultsOK, OwnInv, ReasonInv, Reason, Ended, PushInv, ErrorInv, UnwindInv,
         ExitInv, Forgiven
<1>3. CASE RenderDraw
  <2>1. FlagsOK'
    BY <1>3 DEF RenderDraw, FlagsOK
  <2>2. PlacesOK'
    BY <1>3 DEF RenderDraw, PlacesOK
  <2>3. FaultsOK'
    BY <1>3 DEF RenderDraw, FaultsOK
  <2>4. OwnInv'
    BY <1>3 DEF RenderDraw, FlagsOK, PlacesOK, FaultsOK, OwnInv, PushInv
  <2>5. ReasonInv'
    BY <1>3 DEF RenderDraw, FlagsOK, PlacesOK, FaultsOK, OwnInv, ReasonInv, Reason, Ended, PushInv
  <2>6. PushInv'
    BY <1>3 DEF RenderDraw, FlagsOK, PlacesOK, FaultsOK, OwnInv, PushInv
  <2>7. ErrorInv'
    BY <1>3 DEF RenderDraw, FlagsOK, PlacesOK, FaultsOK, OwnInv, PushInv, ErrorInv
  <2>8. UnwindInv' /\ ExitInv'
    BY <1>3 DEF RenderDraw, FlagsOK, PlacesOK, FaultsOK, OwnInv, ReasonInv, Reason, Ended, ErrorInv, UnwindInv, ExitInv,
           Forgiven
  <2> QED BY <2>1, <2>2, <2>3, <2>4, <2>5, <2>6, <2>7, <2>8
<1>4. CASE PushBegin
  BY <1>4 DEF PushBegin, FlagsOK, PlacesOK, FaultsOK, FaultsOK, OwnInv, ReasonInv, Reason, Ended, PushInv, ErrorInv, UnwindInv,
         ExitInv, Forgiven
<1>5. CASE PushOk
  BY <1>5 DEF PushOk, FlagsOK, PlacesOK, FaultsOK, FaultsOK, OwnInv, ReasonInv, Reason, Ended, PushInv, ErrorInv, UnwindInv,
         ExitInv, Forgiven
<1>6. CASE PushFails
  BY <1>6 DEF PushFails, FlagsOK, PlacesOK, FaultsOK, FaultsOK, OwnInv, ReasonInv, Reason, Ended, PushInv, ErrorInv, UnwindInv,
         ExitInv, Forgiven
<1>7. CASE ReadRunning
  BY <1>7 DEF ReadRunning, FlagsOK, PlacesOK, FaultsOK, FaultsOK, OwnInv, ReasonInv, Reason, Ended, PushInv, ErrorInv, UnwindInv,
         ExitInv, Forgiven
<1>8. CASE ReadStop
  BY <1>8 DEF ReadStop, FlagsOK, PlacesOK, FaultsOK, FaultsOK, OwnInv, ReasonInv, Reason, Ended, PushInv, ErrorInv, UnwindInv,
         ExitInv, Forgiven
<1>9. CASE RenderEnds
  <2>1. FlagsOK'
    BY <1>9 DEF RenderEnds, FlagsOK
  <2>2. PlacesOK'
    BY <1>9 DEF RenderEnds, PlacesOK
  <2>3. FaultsOK'
    BY <1>9 DEF RenderEnds, FaultsOK
  <2>4. OwnInv'
    BY <1>9 DEF RenderEnds, FlagsOK, PlacesOK, FaultsOK, OwnInv, PushInv
  <2>5. ReasonInv'
    BY <1>9 DEF RenderEnds, FlagsOK, PlacesOK, FaultsOK, OwnInv, ReasonInv, Reason, Ended, PushInv
  <2>6. PushInv'
    BY <1>9 DEF RenderEnds, FlagsOK, PlacesOK, FaultsOK, OwnInv, PushInv
  <2>7. ErrorInv'
    BY <1>9 DEF RenderEnds, FlagsOK, PlacesOK, FaultsOK, OwnInv, PushInv, ErrorInv
  <2>8. UnwindInv' /\ ExitInv'
    BY <1>9 DEF RenderEnds, FlagsOK, PlacesOK, FaultsOK, OwnInv, ReasonInv, Reason, Ended, ErrorInv, UnwindInv, ExitInv,
           Forgiven
  <2> QED BY <2>1, <2>2, <2>3, <2>4, <2>5, <2>6, <2>7, <2>8
<1> QED BY <1>1, <1>2, <1>3, <1>4, <1>5, <1>6, <1>7, <1>8, <1>9 DEF Renderer

\* Steps of the Redis worker.
LEMMA WorkerStep == ASSUME Inv, Worker PROVE Inv'
<1> USE DEF Inv, TypeOK, Starting, Capturing, Ending, Unwinding, Fault, RealSenseThrows, Stop, Looping, endVars, videoVars,
            errorVars, flagVars
<1>1. CASE WorkerBegins
  BY <1>1 DEF WorkerBegins, FlagsOK, PlacesOK, FaultsOK, FaultsOK, OwnInv, ReasonInv, Reason, Ended, PushInv, ErrorInv, UnwindInv,
         ExitInv, Forgiven
<1>2. CASE WorkerStops
  BY <1>2 DEF WorkerStops, FlagsOK, PlacesOK, FaultsOK, FaultsOK, OwnInv, ReasonInv, Reason, Ended, PushInv, ErrorInv, UnwindInv,
         ExitInv, Forgiven
<1>3. CASE WorkerCalls
  BY <1>3 DEF WorkerCalls, FlagsOK, PlacesOK, FaultsOK, FaultsOK, OwnInv, ReasonInv, Reason, Ended, PushInv, ErrorInv, UnwindInv,
         ExitInv, Forgiven
<1>4. CASE WorkerReturns
  <2>1. FlagsOK'
    BY <1>4 DEF WorkerReturns, FlagsOK
  <2>2. PlacesOK'
    BY <1>4 DEF WorkerReturns, PlacesOK
  <2>3. FaultsOK'
    BY <1>4 DEF WorkerReturns, FaultsOK
  <2>4. OwnInv'
    BY <1>4 DEF WorkerReturns, FlagsOK, PlacesOK, FaultsOK, OwnInv, PushInv
  <2>5. ReasonInv'
    BY <1>4 DEF WorkerReturns, FlagsOK, PlacesOK, FaultsOK, OwnInv, ReasonInv, Reason, Ended, PushInv
  <2>6. PushInv'
    BY <1>4 DEF WorkerReturns, FlagsOK, PlacesOK, FaultsOK, OwnInv, PushInv
  <2>7. ErrorInv'
    BY <1>4 DEF WorkerReturns, FlagsOK, PlacesOK, FaultsOK, OwnInv, PushInv, ErrorInv
  <2>8. UnwindInv' /\ ExitInv'
    BY <1>4 DEF WorkerReturns, FlagsOK, PlacesOK, FaultsOK, OwnInv, ReasonInv, Reason, Ended, ErrorInv, UnwindInv, ExitInv,
           Forgiven
  <2> QED BY <2>1, <2>2, <2>3, <2>4, <2>5, <2>6, <2>7, <2>8
<1> QED BY <1>1, <1>2, <1>3, <1>4 DEF Worker

\* Steps of signals and the encoder.
LEMMA OutsideStep == ASSUME Inv, Outside PROVE Inv'
<1> USE DEF Inv, TypeOK, Starting, Capturing, Ending, Unwinding, Fault, RealSenseThrows, Stop, Looping, endVars, videoVars,
            errorVars, flagVars
<1>1. CASE Signal
  <2>1. FlagsOK'
    BY <1>1 DEF Signal, FlagsOK
  <2>2. PlacesOK'
    BY <1>1 DEF Signal, PlacesOK
  <2>3. FaultsOK'
    BY <1>1 DEF Signal, FaultsOK
  <2>4. OwnInv'
    BY <1>1 DEF Signal, FlagsOK, PlacesOK, FaultsOK, OwnInv, PushInv
  <2>5. ReasonInv'
    BY <1>1 DEF Signal, FlagsOK, PlacesOK, FaultsOK, OwnInv, ReasonInv, Reason, Ended, PushInv
  <2>6. PushInv'
    BY <1>1 DEF Signal, FlagsOK, PlacesOK, FaultsOK, OwnInv, PushInv
  <2>7. ErrorInv'
    BY <1>1 DEF Signal, FlagsOK, PlacesOK, FaultsOK, OwnInv, PushInv, ErrorInv
  <2>8. UnwindInv' /\ ExitInv'
    BY <1>1 DEF Signal, FlagsOK, PlacesOK, FaultsOK, OwnInv, ReasonInv, Reason, Ended, ErrorInv, UnwindInv, ExitInv,
           Forgiven
  <2> QED BY <2>1, <2>2, <2>3, <2>4, <2>5, <2>6, <2>7, <2>8
<1>2. CASE VideoFails
  BY <1>2 DEF VideoFails, FlagsOK, PlacesOK, FaultsOK, FaultsOK, OwnInv, ReasonInv, Reason, Ended, PushInv, ErrorInv, UnwindInv,
         ExitInv, Forgiven
<1>3. CASE EncoderStalls
  BY <1>3 DEF EncoderStalls, FlagsOK, PlacesOK, FaultsOK, FaultsOK, OwnInv, ReasonInv, Reason, Ended, PushInv, ErrorInv, UnwindInv,
         ExitInv, Forgiven
<1> QED BY <1>1, <1>2, <1>3 DEF Outside

\* Each step keeps the invariant.
LEMMA StepInv == Inv /\ [Next]_vars => Inv'
<1> SUFFICES ASSUME Inv, [Next]_vars PROVE Inv'
  OBVIOUS
<1>1. CASE Main
  BY <1>1, StartupStep, CaptureStep, ShutdownStep DEF Main
<1>2. CASE Renderer \/ Worker \/ Outside
  BY <1>2, RendererStep, WorkerStep, OutsideStep
<1>3. CASE UNCHANGED vars
  BY <1>3 DEF vars, endVars, flagVars, videoVars, errorVars, Inv, TypeOK, FlagsOK, PlacesOK,
       FaultsOK, OwnInv, ReasonInv, Reason, Ended, PushInv, ErrorInv, UnwindInv, ExitInv, Forgiven
<1> QED BY <1>1, <1>2, <1>3 DEF Next, Finished

\* The invariant always holds.
LEMMA InvAlways == SafeSpec => []Inv
BY InitInv, StepInv, PTL DEF SafeSpec

\* The variables of the process keep their types.
THEOREM TypeCorrect == SafeSpec => []TypeOK
<1>1. Inv => TypeOK
  BY DEF Inv
<1> QED BY <1>1, InvAlways, PTL

\* However live_yolov26_rpi ends, its threads are gone and the camera and the
\* encoder have been stopped.
THEOREM ProcessLeavesNothing == SafeSpec => []NothingLeftBehind
<1>1. Inv => NothingLeftBehind
  BY DEF Inv, OwnInv, NothingLeftBehind, Unwinding
<1> QED BY <1>1, InvAlways, PTL

\* Exit code 1 is never the result of a race of the shutdown or of Redis.
THEOREM FailuresAreReal == SafeSpec => []NoSpuriousFailure
<1>1. Inv => NoSpuriousFailure
  <2> SUFFICES ASSUME Inv, exit = "error" PROVE faults \ {"redis"} # {}
    BY DEF NoSpuriousFailure
  <2>1. mpc = "done" /\ ~Forgiven
    BY DEF Inv, OwnInv, ExitInv
  <2>2. unwinding \in {"rs2", "std"}
    BY <2>1 DEF Inv, TypeOK, PlacesOK, UnwindInv, Unwinding, Forgiven
  <2> QED BY <2>1, <2>2 DEF Inv, UnwindInv, Unwinding
<1> QED BY <1>1, InvAlways, PTL

\* Exit code 0 hides no failure but an unseen one of the encoder, Redis, and what an error
\* of librealsense after a signal hides; a start-up that failed otherwise is never hidden.
THEOREM FailuresAreReported == SafeSpec => []NoHiddenFailure
<1>1. Inv => NoHiddenFailure
  <2> SUFFICES ASSUME Inv, exit = "ok"
               PROVE  /\ \/ faults \subseteq {"pipeline", "redis"}
                         \/ signalFired /\ "realsense" \in faults
                      /\ faults \cap {"preflight", "camera", "startVideo"} = {}
    BY DEF NoHiddenFailure
  <2>1. mpc = "done" /\ Forgiven
    BY DEF Inv, OwnInv, ExitInv
  <2>2. unwinding # "std"
    BY <2>1 DEF Forgiven
  <2>3. faults \cap {"preflight", "camera", "startVideo"} = {}
    BY <2>1, <2>2 DEF Inv, UnwindInv, Unwinding
  <2>4. CASE unwinding = "rs2"
    BY <2>1, <2>3, <2>4 DEF Inv, UnwindInv, Unwinding, Forgiven
  <2>5. CASE unwinding # "rs2"
    <3>1. faults \cap {"threads", "capture", "render"} = {} /\ "realsense" \notin faults
      BY <2>1, <2>2, <2>5 DEF Inv, UnwindInv, Unwinding
    <3> QED BY <2>3, <3>1 DEF Inv, TypeOK, FaultsOK
  <2> QED BY <2>4, <2>5
<1> QED BY <1>1, InvAlways, PTL

\* Redis never ends the video.
THEOREM RedisNeverEndsCapture == SafeSpec => []OnlyVideoFaultsEndCapture
<1>1. Inv => OnlyVideoFaultsEndCapture
  BY DEF Inv, ReasonInv, Ended, Ending, Reason, OnlyVideoFaultsEndCapture
<1> QED BY <1>1, InvAlways, PTL

\* Both together: exit code 1 is never spurious, and exit code 0 hides nothing but what the
\* program forgives.
THEOREM ExitCodeIsHonest == SafeSpec => []ExitIsHonest
<1>1. NoSpuriousFailure /\ NoHiddenFailure => ExitIsHonest
  BY DEF ExitIsHonest
<1> QED BY <1>1, FailuresAreReal, FailuresAreReported, PTL
===============================================================================
