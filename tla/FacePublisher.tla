----------------------------- MODULE FacePublisher -----------------------------
(***************************************************************************)
(* run_face_publisher of yolov26_rpi_transport.cpp with LatestFaceState    *)
(* and the schedule of yolov26_rpi_control: the worker thread that reports *)
(* once per interval whether a face was seen, stays silent while the state *)
(* is stale, and reconnects with a growing back-off.                       *)
(*                                                                         *)
(* Time is a counter of seconds since schedule_origin.  The capture        *)
(* thread, the server, the clock and the stop token act between any two    *)
(* steps of the worker.  A connect or publish is a call with a beginning   *)
(* and an end, because the deadline and the back-off that follow are       *)
(* counted from its end; what happens inside is RedisPublisher's.          *)
(***************************************************************************)
EXTENDS Naturals

CONSTANTS
  Interval,   \* redis_interval_seconds
  Stale,      \* face_stale_seconds
  Timeout,    \* redis_timeout_ms: most a connect or publish takes
  Backoff,    \* RECONNECT_BACKOFF_SECONDS, from index 0
  MaxLag,     \* bound: age of a frame's completion when its state is stored
  Prompt,     \* TRUE: threads are scheduled at once and calls end in time
  MaxTime     \* bound: how far the clock runs

LastStep == 3                              \* RECONNECT_BACKOFF_STEPS - 1

ASSUME FacePublisherAssumption ==
  /\ Interval \in Nat \ {0}
  /\ Stale \in Nat /\ Timeout \in Nat /\ MaxLag \in Nat /\ MaxTime \in Nat
  /\ Backoff \in [0 .. LastStep -> Nat]
  /\ \A f \in 0 .. LastStep : Backoff[f] <= Backoff[LastStep]
  /\ Prompt \in BOOLEAN

VARIABLES
  now,          \* the clock
  available,    \* LatestFaceState: available_
  completed,    \* LatestFaceState: completed_
  ended,        \* the capture thread has invalidated the state for good
  stop,         \* stop.requested()
  up,           \* the server answers
  pc,           \* where the worker is
  deadline,     \* the grid point of the next report
  nextAttempt,  \* no connect before this
  failures,     \* index into the back-off
  connected,    \* hooks.connected()
  broken,       \* the server went away under the open connection
  disturbed,    \* the server went away or came back during the current call
  began,        \* when the current connect or publish began
  carried,      \* completion time of the state being published
  endedAt,      \* history: when the last publish or connect ended
  failedAt,     \* history: when the last one failed
  streak,       \* history: failures since the last successful publish
  unreported    \* history: for how long the server has been up and the state fresh
                \* without a report getting through

faceVars == <<available, completed>>
serverVars == <<up, broken, disturbed>>
historyVars == <<endedAt, failedAt, streak, unreported>>
workerVars == <<pc, deadline, nextAttempt, failures, connected, began, carried>>
vars == <<now, faceVars, ended, stop, serverVars, workerVars, historyVars>>

-------------------------------------------------------------------------------
(* yolov26_rpi_control: the schedule. *)

\* MUTANT of NextDeadline: the first grid point at or after t.
GridPointAtOrAfter(t) == ((t + Interval - 1) \div Interval) * Interval

\* next_report_deadline: the first grid point strictly after t.
NextDeadline(t) == (t \div Interval + 1) * Interval

\* reconnect_backoff_seconds, with its index clamped.
BackoffSeconds(f) == Backoff[IF f > LastStep THEN LastStep ELSE f]

\* MUTANT of StateFresh: a state that has just reached the limit counts as fresh.
StateFreshAtLimit(c) == now >= c /\ now - c <= Stale

\* state_fresh of a completion time.
StateFresh(c) == now >= c /\ now - c < Stale

Fresh == available /\ StateFresh(completed)

Init ==
  /\ now = 0
  /\ available = FALSE /\ completed = 0 /\ ended = FALSE
  /\ stop = FALSE
  /\ up \in BOOLEAN /\ broken = FALSE /\ disturbed = FALSE
  /\ pc = "wait"
  /\ deadline = NextDeadline(0)
  /\ nextAttempt = 0 /\ failures = 0 /\ connected = FALSE
  /\ began = 0 /\ carried = 0
  /\ endedAt = 0 /\ failedAt = 0 /\ streak = 0 /\ unreported = 0

-------------------------------------------------------------------------------
(* The worker. *)

\* MUTANT of Interrupted: the wait for the next attempt does not watch stop.
InterruptedOnGridOnly ==
  /\ pc = "wait"
  /\ stop
  /\ connected' = FALSE
  /\ pc' = "done"
  /\ UNCHANGED <<deadline, nextAttempt, failures, began, carried>>

\* wait_poll_slice sees the stop token: the loop ends and the connection is closed.
Interrupted ==
  /\ pc \in {"wait", "attemptWait"}
  /\ stop
  /\ connected' = FALSE
  /\ pc' = "done"
  /\ UNCHANGED <<deadline, nextAttempt, failures, began, carried>>

\* The snapshot is missing or stale: this report is skipped.
Skip ==
  /\ \/ pc = "wait" /\ now >= deadline
     \/ pc = "attemptWait" /\ now >= nextAttempt
     \/ pc = "resnapshot"
  /\ ~Fresh
  /\ deadline' = NextDeadline(now)
  /\ pc' = "wait"
  /\ UNCHANGED <<nextAttempt, failures, connected, began, carried>>

ReportDue ==
  /\ pc = "wait"
  /\ now >= deadline
  /\ Fresh
  /\ pc' = IF connected THEN "resnapshot" ELSE "attemptWait"
  /\ UNCHANGED <<deadline, nextAttempt, failures, connected, began, carried>>

ConnectBegin ==
  /\ pc = "attemptWait"
  /\ now >= nextAttempt
  /\ Fresh
  /\ began' = now
  /\ pc' = "connecting"
  /\ UNCHANGED <<deadline, nextAttempt, failures, connected, carried>>

PublishBegin ==
  /\ pc = "resnapshot"
  /\ Fresh
  /\ carried' = completed
  /\ began' = now
  /\ pc' = "publishing"
  /\ UNCHANGED <<deadline, nextAttempt, failures, connected>>

\* The back-off is left as it is: only a publish clears it.
ConnectSucceeds ==
  /\ pc = "connecting"
  /\ up
  /\ connected' = TRUE
  /\ deadline' = NextDeadline(now)
  /\ pc' = "wait"
  /\ began' = 0 /\ carried' = 0
  /\ UNCHANGED <<nextAttempt, failures>>

PublishSucceeds ==
  /\ pc = "publishing"
  /\ up /\ ~broken
  /\ failures' = 0
  /\ deadline' = NextDeadline(now)
  /\ pc' = "wait"
  /\ began' = 0 /\ carried' = 0
  /\ UNCHANGED <<nextAttempt, connected>>

\* The server is, or has been during the call, unable to answer.
Unanswered == ~up \/ broken \/ disturbed

\* MUTANT of CallFails: after a failed publish the worker reconnects at once.
FailsWithoutBackoff ==
  /\ pc \in {"connecting", "publishing"}
  /\ Unanswered
  /\ ~stop
  /\ connected' = FALSE
  /\ failures' = IF failures < LastStep THEN failures + 1 ELSE failures
  /\ nextAttempt' = IF pc = "connecting" THEN now + BackoffSeconds(failures)
                                         ELSE nextAttempt
  /\ deadline' = NextDeadline(now)
  /\ pc' = "wait"
  /\ began' = 0 /\ carried' = 0

\* MUTANT of CallFails: a failed publish does not close the connection.
FailedPublishKeepsConnection ==
  /\ pc \in {"connecting", "publishing"}
  /\ Unanswered
  /\ ~stop
  /\ failures' = IF failures < LastStep THEN failures + 1 ELSE failures
  /\ nextAttempt' = now + BackoffSeconds(failures)
  /\ deadline' = NextDeadline(now)
  /\ pc' = "wait"
  /\ began' = 0 /\ carried' = 0
  /\ UNCHANGED connected

\* A failed connect leaves no connection, a failed publish is followed by close.
CallFails ==
  /\ pc \in {"connecting", "publishing"}
  /\ Unanswered
  /\ ~stop
  /\ connected' = FALSE
  /\ failures' = IF failures < LastStep THEN failures + 1 ELSE failures
  /\ nextAttempt' = now + BackoffSeconds(failures)
  /\ deadline' = NextDeadline(now)
  /\ pc' = "wait"
  /\ began' = 0 /\ carried' = 0

\* A call that fails while stop is requested ends the loop: it was cancelled.
CallCancelled ==
  /\ pc \in {"connecting", "publishing"}
  /\ stop
  /\ connected' = FALSE
  /\ pc' = "done"
  /\ began' = 0 /\ carried' = 0
  /\ UNCHANGED <<deadline, nextAttempt, failures>>

Outside == <<now, faceVars, ended, stop, up>>

Decide ==
  /\ Interrupted \/ Skip \/ ReportDue \/ ConnectBegin \/ PublishBegin
  /\ UNCHANGED <<Outside, broken, disturbed, historyVars>>

CallEnds ==
  /\ endedAt' = now
  /\ disturbed' = FALSE
  /\ \/ ConnectSucceeds /\ UNCHANGED <<failedAt, streak, unreported>>
     \/ PublishSucceeds /\ streak' = 0 /\ unreported' = 0 /\ UNCHANGED failedAt
     \/ CallFails /\ failedAt' = now /\ streak' = streak + 1 /\ UNCHANGED unreported
     \/ CallCancelled /\ UNCHANGED <<failedAt, streak, unreported>>
  /\ broken' = (broken /\ connected')
  /\ UNCHANGED Outside

Worker == Decide \/ CallEnds

-------------------------------------------------------------------------------
(* The rest of the process and of the world. *)

\* The capture thread stores the result of a frame: LatestFaceState::update.
Update ==
  /\ ~ended
  /\ available' = TRUE
  /\ \E c \in completed .. now : now - c <= MaxLag /\ completed' = c
  /\ UNCHANGED <<now, ended, stop, serverVars, workerVars, historyVars>>

\* Shutdown: LatestFaceState::invalidate, after the last update.
Invalidate ==
  /\ ~ended
  /\ ended' = TRUE
  /\ available' = FALSE
  /\ UNCHANGED <<now, completed, stop, serverVars, workerVars, historyVars>>

RequestStop ==
  /\ ~stop
  /\ stop' = TRUE
  /\ UNCHANGED <<now, faceVars, ended, serverVars, workerVars, historyVars>>

\* The server goes away, and the connection with it, or comes back.
ServerFlips ==
  /\ up' = ~up
  /\ broken' = connected
  /\ disturbed' = (pc \in {"connecting", "publishing"})
  /\ unreported' = 0
  /\ UNCHANGED <<now, faceVars, ended, stop, workerVars, endedAt, failedAt, streak>>

\* Steps a promptly scheduled worker takes before the clock moves on.
Urgent ==
  \/ pc = "wait" /\ now >= deadline
  \/ pc = "attemptWait" /\ now >= nextAttempt
  \/ pc = "resnapshot"
  \/ pc \in {"connecting", "publishing"} /\ now >= began + Timeout
  \/ stop /\ pc # "done"

Tick ==
  /\ now < MaxTime
  /\ Prompt => ~Urgent
  /\ now' = now + 1
  /\ unreported' = IF up /\ available /\ now + 1 - completed < Stale
                   THEN unreported + 1 ELSE 0
  /\ UNCHANGED <<faceVars, ended, stop, serverVars, workerVars, endedAt, failedAt, streak>>

Next == Worker \/ Update \/ Invalidate \/ RequestStop \/ ServerFlips \/ Tick

SafeSpec == Init /\ [][Next]_vars

\* The worker thread is scheduled; a call that is cancelled ends.  The clock, the
\* server and the camera owe nothing.
Spec == SafeSpec /\ WF_vars(Worker)

-------------------------------------------------------------------------------
FlagsOK ==
  /\ available \in BOOLEAN /\ ended \in BOOLEAN /\ stop \in BOOLEAN
  /\ up \in BOOLEAN /\ broken \in BOOLEAN /\ disturbed \in BOOLEAN /\ connected \in BOOLEAN

TimesOK ==
  /\ now \in 0 .. MaxTime
  /\ completed \in 0 .. now
  /\ deadline \in Nat /\ nextAttempt \in Nat
  /\ failures \in 0 .. LastStep
  /\ began \in 0 .. now /\ carried \in 0 .. now
  /\ endedAt \in 0 .. now /\ failedAt \in 0 .. now
  /\ streak \in Nat /\ unreported \in Nat

TypeOK ==
  /\ FlagsOK
  /\ TimesOK
  /\ pc \in {"wait", "attemptWait", "resnapshot", "connecting", "publishing", "done"}

\* Steps that start a call.
Begins(p) == pc # p /\ pc' = p

\* At most one call per interval, and missed reports are skipped, not replayed:
\* between the end of a call and the beginning of the next publish lies a point
\* of the report grid, however late the worker was scheduled and however long the
\* calls took.
GridPointPassed == \E g \in endedAt + 1 .. now : g % Interval = 0
OncePerInterval == [][Begins("publishing") => GridPointPassed]_vars

\* After the k-th failure since a report last got through, nothing is tried for the
\* k-th back-off (the last one from the fourth on); a server that accepts
\* connections and then fails does not reset it.
BackoffElapsed == streak > 0 => now >= failedAt + BackoffSeconds(streak - 1)
BackoffRespected == [][Begins("connecting") => BackoffElapsed]_vars

\* No report is on the wire that is older than the staleness limit and one call:
\* a report is decided on a fresh state, with prompt scheduling.
ReportsAreRecent ==
  pc = "publishing" => now - carried < Stale + Timeout

\* With prompt scheduling, while the server is reachable and the camera delivers,
\* reports get through, never further apart than a publish on a broken connection, a
\* connect and a publish, each of which waits for the grid, the connect also for the
\* longest back-off.
ConnectWait == IF Interval > BackoffSeconds(LastStep) THEN Interval
                                                      ELSE BackoffSeconds(LastStep)
RecoveryTime == (Interval + Timeout) + (ConnectWait + Timeout) + (Interval + Timeout)
Recovers == ~stop /\ ~ended => unreported <= RecoveryTime

\* The worker ends after stop, from wherever it is, and leaves no connection.
StopEndsWorker == stop ~> (pc = "done" /\ ~connected)
===============================================================================
