--------------------------- MODULE EncoderPreflight ---------------------------
(***************************************************************************)
(* Which H.264 encoder the sender uses: select_encoder of                  *)
(* live_yolov26_rpi.cpp tries each candidate with smoke_encoder, which     *)
(* runs a one-frame gst-launch pipeline as a child process under           *)
(* run_bounded of yolov26_rpi_transport.cpp.                               *)
(*                                                                         *)
(* The child is external.  It may exit with any status, hang, ignore       *)
(* SIGTERM, or answer SIGTERM with a clean exit, as gst-launch -e does; it *)
(* can fill its output pipe and then waits for the reader.  Deadlines pass *)
(* at any moment of the phase they bound.                                  *)
(*                                                                         *)
(* Init, Next and the like carry a prefix because Video_proofs extends     *)
(* this module together with GstVideoSender.                               *)
(***************************************************************************)
EXTENDS Naturals

CONSTANTS
  Option,       \* --encoder: "auto", "omx" or "x264"
  PipeRoom,     \* bound: chunks the output pipe holds
  TailRoom,     \* PROCESS_OUTPUT_TAIL, in chunks
  MaxOutput     \* bound: chunks a child writes

ASSUME PreflightAssumption ==
  /\ Option \in {"auto", "omx", "x264"}
  /\ PipeRoom \in Nat \ {0} /\ TailRoom \in Nat \ {0} /\ MaxOutput \in Nat

Encoders == {"omx", "x264"}

VARIABLES
  pc,         \* main: "try", "factories", "read", "wait", "check", "terminate", "kill",
              \* "drain", "return" and "done"
  kind,       \* the encoder being tried
  outcome,    \* select_encoder: "none", an encoder, "cancelled" or "failed"
  stop,       \* stop.requested()
  late,       \* the deadline of the current phase has passed
  exited,     \* run_bounded: the child exited before it was told to
  killed,     \* run_bounded: it was sent SIGTERM
  tail,       \* chunks kept of the output
  child,      \* external: "none", "running", "zombie" or "reaped"
  status,     \* external: how it exited: "zero", "nonzero" or "signal"
  pipe,       \* chunks in the pipe
  written,    \* chunks the child has written
  pipeOpen,   \* the reading end is open
  told,       \* SIGTERM or SIGKILL has reached the child
  blamed      \* history: encoders reported as unavailable, with the reason

runVars == <<exited, killed, tail, pipeOpen>>
childVars == <<child, status, pipe, written, told>>
preflightVars == <<pc, kind, outcome, stop, late, runVars, childVars, blamed>>

PreflightInit ==
  /\ pc = "try"
  /\ kind = IF Option = "x264" THEN "x264" ELSE "omx"
  /\ outcome = "none" /\ stop = FALSE /\ late = FALSE
  /\ exited = FALSE /\ killed = FALSE /\ tail = 0 /\ pipeOpen = FALSE
  /\ child = "none" /\ status = "zero" /\ pipe = 0 /\ written = 0 /\ told = FALSE
  /\ blamed = {}

-------------------------------------------------------------------------------
(* select_encoder and smoke_encoder *)

EndWith(o) == outcome' = o /\ pc' = "done" /\ UNCHANGED <<kind, blamed>>

\* With --encoder auto the software encoder is tried after the hardware one.
Blame(reason) ==
  /\ blamed' = blamed \cup {<<kind, reason>>}
  /\ IF Option = "auto" /\ kind = "omx"
     THEN kind' = "x264" /\ pc' = "try" /\ UNCHANGED outcome
     ELSE outcome' = "failed" /\ pc' = "done" /\ UNCHANGED kind

Try ==
  /\ pc = "try"
  /\ IF stop THEN EndWith("cancelled")
             ELSE pc' = "factories" /\ UNCHANGED <<kind, outcome, blamed>>
  /\ UNCHANGED <<stop, late, runVars, childVars>>

FactoryMissing ==
  /\ pc = "factories"
  /\ Blame("missing")
  /\ UNCHANGED <<stop, late, runVars, childVars>>

\* run_bounded reads stop before it starts anything: the test counts as failed and
\* smoke_encoder turns that into a cancellation.
RunRefused ==
  /\ pc = "factories"
  /\ stop
  /\ EndWith("cancelled")
  /\ UNCHANGED <<stop, late, runVars, childVars>>

\* pipe or posix_spawnp fails, or the pipe cannot be made non-blocking, in which
\* case the child is killed and reaped first: an exception that no encoder gets
\* the blame for.
SpawnFails ==
  /\ pc = "factories"
  /\ ~stop
  /\ EndWith("failed")
  /\ UNCHANGED <<stop, late, runVars, childVars>>

Spawn ==
  /\ pc = "factories"
  /\ ~stop
  /\ child' = "running" /\ pipe' = 0 /\ written' = 0 /\ told' = FALSE
  /\ exited' = FALSE /\ killed' = FALSE /\ tail' = 0 /\ pipeOpen' = TRUE
  /\ late' = FALSE
  /\ pc' = "read"
  /\ UNCHANGED <<kind, outcome, stop, status, blamed>>

-------------------------------------------------------------------------------
(* run_bounded *)

Min2(a, b) == IF a < b THEN a ELSE b

\* One read of the pipe; only the tail of the output is kept.
TakeChunk ==
  IF pipe > 0 THEN pipe' = pipe - 1 /\ tail' = Min2(TailRoom, tail + 1)
              ELSE UNCHANGED <<pipe, tail>>

Read ==
  /\ pc = "read"
  /\ TakeChunk
  /\ pc' = "wait"
  /\ UNCHANGED <<kind, outcome, stop, late, exited, killed, pipeOpen, child, status, written,
                 told, blamed>>

\* MUTANT of Wait: a reaped child does not end the loop.
WaitGoesOn ==
  /\ pc = "wait"
  /\ child' = IF child = "zombie" THEN "reaped" ELSE child
  /\ exited' = (exited \/ child = "zombie")
  /\ pc' = "check"
  /\ UNCHANGED <<kind, outcome, stop, late, killed, tail, pipeOpen, status, pipe, written, told,
                 blamed>>

\* waitpid(WNOHANG)
Wait ==
  /\ pc = "wait"
  /\ IF child = "zombie"
     THEN child' = "reaped" /\ exited' = TRUE /\ pc' = "drain" /\ late' = FALSE
     ELSE pc' = "check" /\ UNCHANGED <<child, exited, late>>
  /\ UNCHANGED <<kind, outcome, stop, killed, tail, pipeOpen, status, pipe, written, told,
                 blamed>>

\* MUTANT of Check: the deadline is only looked at, not acted on, while stop is unset.
CheckStopOnly ==
  /\ pc = "check"
  /\ IF stop
     THEN /\ killed' = TRUE
          /\ told' = TRUE
          /\ late' = FALSE
          /\ pc' = "terminate"
     ELSE pc' = "read" /\ UNCHANGED <<killed, told, late>>
  /\ UNCHANGED <<kind, outcome, stop, exited, tail, pipeOpen, child, status, pipe, written,
                 blamed>>

\* Stop or the deadline: SIGTERM; otherwise a slice of sleep and around again.
Check ==
  /\ pc = "check"
  /\ IF stop \/ late
     THEN /\ killed' = TRUE
          /\ told' = TRUE
          /\ late' = FALSE
          /\ pc' = "terminate"
     ELSE pc' = "read" /\ UNCHANGED <<killed, told, late>>
  /\ UNCHANGED <<kind, outcome, stop, exited, tail, pipeOpen, child, status, pipe, written,
                 blamed>>

\* Two seconds of waitpid(WNOHANG); the output is not read meanwhile.
Terminate ==
  /\ pc = "terminate"
  /\ IF late THEN pc' = "kill" /\ UNCHANGED <<child, late>>
     ELSE IF child = "zombie" THEN child' = "reaped" /\ pc' = "drain" /\ late' = FALSE
     ELSE UNCHANGED <<child, late, pc>>
  /\ UNCHANGED <<kind, outcome, stop, exited, killed, tail, pipeOpen, status, pipe, written,
                 told, blamed>>

\* MUTANT of Kill: the killed child is not waited for.
KillUnreaped ==
  /\ pc = "kill"
  /\ child' = IF child = "running" THEN "zombie" ELSE child
  /\ status' = IF child = "running" THEN "signal" ELSE status
  /\ late' = FALSE
  /\ pc' = "drain"
  /\ UNCHANGED <<kind, outcome, stop, runVars, pipe, written, told, blamed>>

\* SIGKILL cannot be ignored; waitpid blocks until the child is gone.
Kill ==
  /\ pc = "kill"
  /\ child' = "reaped"
  /\ status' = IF child = "running" THEN "signal" ELSE status
  /\ late' = FALSE
  /\ pc' = "drain"
  /\ UNCHANGED <<kind, outcome, stop, runVars, pipe, written, told, blamed>>

\* The rest of the output, until it ends, fails, or half a second is over; a
\* descendant may keep the pipe open.
DrainSome ==
  /\ pc = "drain"
  /\ ~late
  /\ TakeChunk
  /\ UNCHANGED <<pc, kind, outcome, stop, late, exited, killed, pipeOpen, child, status,
                 written, told, blamed>>

DrainEnds ==
  /\ pc = "drain"
  /\ late \/ pipe = 0
  /\ pipeOpen' = FALSE
  /\ pc' = "return"
  /\ UNCHANGED <<kind, outcome, stop, late, exited, killed, tail, childVars, blamed>>

\* MUTANT of Passed: the status of a child that was told to end counts.
PassedWhenTold == status = "zero"

\* run_bounded returns 0.
Passed == exited /\ ~killed /\ status = "zero"

\* MUTANT of Return: a test that the stop token cut short is the encoder's failure.
ReturnBlames ==
  /\ pc = "return"
  /\ IF Passed THEN EndWith(kind)
     ELSE Blame(IF ~killed THEN "exit" ELSE IF stop THEN "stop" ELSE "timeout")
  /\ UNCHANGED <<stop, late, runVars, childVars>>

\* smoke_encoder judges the test and select_encoder goes on, ends or throws.
Return ==
  /\ pc = "return"
  /\ IF Passed THEN EndWith(kind)
     ELSE IF stop THEN EndWith("cancelled")
     ELSE Blame(IF killed THEN "timeout" ELSE "exit")
  /\ UNCHANGED <<stop, late, runVars, childVars>>

-------------------------------------------------------------------------------
(* The child, the clock and the stop token. *)

ChildWrites ==
  /\ child = "running"
  /\ written < MaxOutput
  /\ pipe < PipeRoom
  /\ pipe' = pipe + 1
  /\ written' = written + 1
  /\ UNCHANGED <<pc, kind, outcome, stop, late, runVars, child, status, told, blamed>>

\* By itself, or because of SIGTERM, which it may also answer with status zero.
ChildExits ==
  /\ child = "running"
  /\ child' = "zombie"
  /\ \/ status' \in {"zero", "nonzero"}
     \/ told /\ status' = "signal"
  /\ UNCHANGED <<pc, kind, outcome, stop, late, runVars, pipe, written, told, blamed>>

RequestStop ==
  /\ ~stop
  /\ stop' = TRUE
  /\ UNCHANGED <<pc, kind, outcome, late, runVars, childVars, blamed>>

DeadlinePasses ==
  /\ pc \in {"read", "wait", "check", "terminate", "drain"}
  /\ ~late
  /\ late' = TRUE
  /\ UNCHANGED <<pc, kind, outcome, stop, runVars, childVars, blamed>>

-------------------------------------------------------------------------------
Select == Try \/ FactoryMissing \/ RunRefused \/ SpawnFails \/ Spawn \/ Return
RunBounded == Read \/ Wait \/ Check \/ Terminate \/ Kill \/ DrainSome \/ DrainEnds
Outside == ChildWrites \/ ChildExits \/ RequestStop \/ DeadlinePasses

PreflightNext == Select \/ RunBounded \/ Outside

PreflightSafeSpec == PreflightInit /\ [][PreflightNext]_preflightVars

\* main runs and every deadline comes; the child owes nothing.
PreflightSpec ==
  /\ PreflightSafeSpec
  /\ WF_preflightVars(Select) /\ WF_preflightVars(RunBounded)
  /\ WF_preflightVars(DeadlinePasses)

-------------------------------------------------------------------------------
PreflightTypeOK ==
  /\ pc \in {"try", "factories", "read", "wait", "check", "terminate", "kill", "drain",
             "return", "done"}
  /\ kind \in Encoders
  /\ outcome \in Encoders \cup {"none", "cancelled", "failed"}
  /\ stop \in BOOLEAN /\ late \in BOOLEAN
  /\ exited \in BOOLEAN /\ killed \in BOOLEAN /\ pipeOpen \in BOOLEAN /\ told \in BOOLEAN
  /\ tail \in 0 .. TailRoom
  /\ child \in {"none", "running", "zombie", "reaped"}
  /\ status \in {"zero", "nonzero", "signal"}
  /\ pipe \in 0 .. PipeRoom /\ written \in 0 .. MaxOutput
  /\ blamed \subseteq Encoders \X {"missing", "exit", "timeout"}

\* However a test ends, no child runs on or stays a zombie and the pipe is closed
\* before the next test begins or select_encoder returns.
NothingLeftBehind ==
  pc \in {"try", "factories", "return", "done"} => child \in {"none", "reaped"} /\ ~pipeOpen

\* An encoder is chosen only if its test ran to its own end with status zero: not
\* one that hung and ended politely when it was told to.
ChosenPassed ==
  outcome \in Encoders => outcome = kind /\ status = "zero" /\ ~told

\* An encoder is called unavailable only for its own failure, never because the
\* user asked the program to stop while its test ran; and the software encoder is
\* chosen over the hardware one only after the latter was called unavailable.
BlameIsDeserved ==
  /\ \A b \in blamed : b[2] # "stop"
  /\ Option = "auto" /\ outcome = "x264" => \E b \in blamed : b[1] = "omx"
  /\ outcome = "cancelled" => stop

\* What select_encoder returns, an encoder, the blame or the cancellation, is what
\* the tests really showed.
OutcomeIsDeserved == ChosenPassed /\ BlameIsDeserved

\* A child that exited is never signalled once it has been reaped, when its pid may
\* belong to somebody else.
SignalsOwnChild ==
  [][(killed' /\ ~killed) \/ (pc = "kill" /\ pc' # "kill") =>
       child \in {"running", "zombie"}]_preflightVars

\* run_bounded owns its child from the spawn to the one reaping, and no longer: it
\* leaves none behind and signals no other process.
ChildIsOwned == []NothingLeftBehind /\ SignalsOwnChild

\* Every test ends, also with a child that hangs and ignores SIGTERM.
SelectReturns == <>(pc = "done")
===============================================================================
