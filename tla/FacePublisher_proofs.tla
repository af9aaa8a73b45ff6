-------------------------- MODULE FacePublisher_proofs --------------------------
(***************************************************************************)
(* Proofs about FacePublisher for every interval, staleness limit, call    *)
(* timeout, back-off table and length of run.                              *)
(***************************************************************************)
EXTENDS FacePublisher, TLAPS

\* next_report_deadline returns a grid point that is strictly later.
LEMMA NextDeadlineOnGrid ==
  ASSUME NEW t \in Nat, Interval \in Nat \ {0}
  PROVE  /\ NextDeadline(t) \in Nat
         /\ t < NextDeadline(t)
         /\ NextDeadline(t) % Interval = 0
<1> DEFINE q == t \div Interval
<1>1. q \in Nat /\ t % Interval \in 0 .. Interval - 1
  OBVIOUS
<1>2. t = (Interval * q) + (t % Interval)
  OBVIOUS
<1>3. (q + 1) * Interval = Interval * q + Interval
  BY <1>1
<1>4. NextDeadline(t) = (q + 1) * Interval
  BY DEF NextDeadline
<1>5. NextDeadline(t) \in Nat /\ t < NextDeadline(t)
  <2> HIDE DEF q
  <2>1. Interval * q \in Nat
    BY <1>1
  <2> QED BY <1>1, <1>2, <1>3, <1>4, <2>1
<1>6. ((q + 1) * Interval) % Interval = 0
  BY <1>1
<1> QED BY <1>4, <1>5, <1>6

\* Back-off times are whole seconds.
LEMMA BackoffIsNat ==
  ASSUME NEW f \in Nat
  PROVE  BackoffSeconds(f) \in Nat
BY FacePublisherAssumption DEF BackoffSeconds, LastStep

\* The inductive invariant.  The deadline is a grid point, later than the end of
\* the last call while none is in progress; the back-off index counts the failures
\* since the last report, and the next attempt lies that back-off after the last
\* of them.
Inv ==
  /\ TypeOK
  /\ deadline % Interval = 0
  /\ pc \in {"wait", "attemptWait", "resnapshot"} => endedAt < deadline
  /\ pc = "resnapshot" => now >= deadline
  /\ failures = IF streak > LastStep THEN LastStep ELSE streak
  /\ streak > 0 => nextAttempt = failedAt + BackoffSeconds(streak - 1)

\* The invariant holds at first.
LEMMA InitInv == Init => Inv
<1> SUFFICES ASSUME Init PROVE Inv
  OBVIOUS
<1> USE FacePublisherAssumption
<1>1. /\ NextDeadline(0) \in Nat
      /\ 0 < NextDeadline(0)
      /\ NextDeadline(0) % Interval = 0
  BY NextDeadlineOnGrid
<1>2. TypeOK
  <2>1. FlagsOK
    BY DEF Init, FlagsOK
  <2>2. TimesOK
    BY <1>1 DEF Init, TimesOK, LastStep
  <2> QED BY <2>1, <2>2 DEF Init, TypeOK
<1> QED BY <1>1, <1>2 DEF Init, Inv, LastStep

\* A worker step that skips a report, or ends a call that succeeded, failed or
\* was cancelled.
LEMMA CallEndsInv ==
  ASSUME Inv, CallEnds
  PROVE  Inv'
<1> USE FacePublisherAssumption
<1>1. /\ NextDeadline(now) \in Nat
      /\ now < NextDeadline(now)
      /\ NextDeadline(now) % Interval = 0
  <2>1. now \in Nat
    BY DEF Inv, TypeOK, TimesOK
  <2> QED BY <2>1, NextDeadlineOnGrid
<1>2. now \in Nat /\ now' = now /\ endedAt' = now /\ streak \in Nat /\ failures \in 0 .. LastStep
  BY DEF Inv, TypeOK, TimesOK, CallEnds, Outside
<1>3. CASE ConnectSucceeds /\ UNCHANGED <<failedAt, streak, unreported>>
  <2>1. TypeOK'
    <3>1. FlagsOK'
      BY <1>1, <1>2, <1>3
         DEF Inv, TypeOK, FlagsOK, CallEnds, ConnectSucceeds, Outside, faceVars
    <3>2. TimesOK'
      BY <1>1, <1>2, <1>3
         DEF Inv, TypeOK, TimesOK, CallEnds, ConnectSucceeds, Outside, faceVars
    <3>3. pc' \in {"wait", "attemptWait", "resnapshot", "connecting", "publishing", "done"}
      BY <1>1, <1>2, <1>3
         DEF Inv, TypeOK, CallEnds, ConnectSucceeds, Outside, faceVars
    <3> QED BY <3>1, <3>2, <3>3 DEF TypeOK
  <2> QED BY <1>1, <1>2, <1>3, <2>1 DEF Inv, ConnectSucceeds
<1>4. CASE PublishSucceeds /\ streak' = 0 /\ unreported' = 0 /\ UNCHANGED failedAt
  <2>1. TypeOK'
    <3>1. FlagsOK'
      BY <1>1, <1>2, <1>4
         DEF Inv, TypeOK, FlagsOK, CallEnds, PublishSucceeds, Outside, faceVars, LastStep
    <3>2. TimesOK'
      BY <1>1, <1>2, <1>4
         DEF Inv, TypeOK, TimesOK, CallEnds, PublishSucceeds, Outside, faceVars, LastStep
    <3>3. pc' \in {"wait", "attemptWait", "resnapshot", "connecting", "publishing", "done"}
      BY <1>1, <1>2, <1>4
         DEF Inv, TypeOK, CallEnds, PublishSucceeds, Outside, faceVars, LastStep
    <3> QED BY <3>1, <3>2, <3>3 DEF TypeOK
  <2> QED BY <1>1, <1>2, <1>4, <2>1 DEF Inv, PublishSucceeds, LastStep
<1>5. CASE CallFails /\ failedAt' = now /\ streak' = streak + 1 /\ UNCHANGED unreported
  <2>1. BackoffSeconds(failures) \in Nat
    BY <1>2, BackoffIsNat DEF LastStep
  <2>2. BackoffSeconds(failures) = BackoffSeconds(streak)
    BY <1>2 DEF Inv, BackoffSeconds, LastStep
  <2>3. nextAttempt' = now + BackoffSeconds(streak)
    BY <1>5, <2>2 DEF CallFails
  <2>4. failures' = IF streak' > LastStep THEN LastStep ELSE streak'
    BY <1>2, <1>5 DEF Inv, CallFails, LastStep
  <2>5. TypeOK'
    <3>1. failures' \in 0 .. LastStep
      BY <1>2, <1>5, <2>4 DEF LastStep
    <3>2. nextAttempt' \in Nat
      BY <1>2, <2>1, <2>2, <2>3
    <3>3. FlagsOK'
      BY <1>5 DEF Inv, TypeOK, FlagsOK, CallEnds, CallFails, Outside, faceVars
    <3>4. TimesOK'
      BY <1>1, <1>2, <1>5, <3>1, <3>2
         DEF Inv, TypeOK, TimesOK, CallEnds, CallFails, Outside, faceVars
    <3> QED BY <1>5, <3>3, <3>4 DEF TypeOK, CallFails
  <2>6. streak' - 1 = streak
    BY <1>2, <1>5
  <2> QED BY <1>1, <1>2, <1>5, <2>3, <2>4, <2>5, <2>6 DEF Inv, CallFails
<1>6. CASE CallCancelled /\ UNCHANGED <<failedAt, streak, unreported>>
  <2>1. TypeOK'
    <3>1. FlagsOK'
      BY <1>1, <1>2, <1>6
         DEF Inv, TypeOK, FlagsOK, CallEnds, CallCancelled, Outside, faceVars
    <3>2. TimesOK'
      BY <1>1, <1>2, <1>6
         DEF Inv, TypeOK, TimesOK, CallEnds, CallCancelled, Outside, faceVars
    <3>3. pc' \in {"wait", "attemptWait", "resnapshot", "connecting", "publishing", "done"}
      BY <1>1, <1>2, <1>6
         DEF Inv, TypeOK, CallEnds, CallCancelled, Outside, faceVars
    <3> QED BY <3>1, <3>2, <3>3 DEF TypeOK
  <2> QED BY <1>1, <1>2, <1>6, <2>1 DEF Inv, CallCancelled
<1> QED BY <1>3, <1>4, <1>5, <1>6 DEF CallEnds

\* The step that decides what to do next keeps the invariant.
LEMMA DecideInv ==
  ASSUME Inv, Decide
  PROVE  Inv'
<1> USE FacePublisherAssumption
<1>1. /\ NextDeadline(now) \in Nat
      /\ now < NextDeadline(now)
      /\ NextDeadline(now) % Interval = 0
  <2>1. now \in Nat
    BY DEF Inv, TypeOK, TimesOK
  <2> QED BY <2>1, NextDeadlineOnGrid
<1>2. UNCHANGED <<now, available, completed, ended, stop, up, broken, disturbed,
                  endedAt, failedAt, streak, unreported>>
  BY DEF Decide, Outside, faceVars, historyVars
<1>3. CASE Interrupted
  <2>1. TypeOK'
    <3>1. FlagsOK'
      BY <1>2, <1>3
         DEF Inv, TypeOK, FlagsOK, Interrupted
    <3>2. TimesOK'
      BY <1>2, <1>3
         DEF Inv, TypeOK, TimesOK, Interrupted
    <3>3. pc' \in {"wait", "attemptWait", "resnapshot", "connecting", "publishing", "done"}
      BY <1>2, <1>3
         DEF Inv, TypeOK, Interrupted
    <3> QED BY <3>1, <3>2, <3>3 DEF TypeOK
  <2> QED BY <1>2, <1>3, <2>1 DEF Inv, Interrupted, BackoffSeconds
<1>4. CASE Skip
  <2>1. TypeOK'
    <3>1. FlagsOK'
      BY <1>1, <1>2, <1>4
         DEF Inv, TypeOK, FlagsOK, Skip
    <3>2. TimesOK'
      BY <1>1, <1>2, <1>4
         DEF Inv, TypeOK, TimesOK, Skip
    <3>3. pc' \in {"wait", "attemptWait", "resnapshot", "connecting", "publishing", "done"}
      BY <1>1, <1>2, <1>4
         DEF Inv, TypeOK, Skip
    <3> QED BY <3>1, <3>2, <3>3 DEF TypeOK
  <2>2. endedAt' < deadline'
    BY <1>1, <1>2, <1>4 DEF Inv, TypeOK, TimesOK, Skip
  <2> QED BY <1>1, <1>2, <1>4, <2>1, <2>2 DEF Inv, Skip, BackoffSeconds
<1>5. CASE ReportDue
  <2>1. TypeOK'
    <3>1. FlagsOK'
      BY <1>2, <1>5
         DEF Inv, TypeOK, FlagsOK, ReportDue
    <3>2. TimesOK'
      BY <1>2, <1>5
         DEF Inv, TypeOK, TimesOK, ReportDue
    <3>3. pc' \in {"wait", "attemptWait", "resnapshot", "connecting", "publishing", "done"}
      BY <1>2, <1>5
         DEF Inv, TypeOK, ReportDue
    <3> QED BY <3>1, <3>2, <3>3 DEF TypeOK
  <2> QED BY <1>2, <1>5, <2>1 DEF Inv, ReportDue, BackoffSeconds
<1>6. CASE ConnectBegin
  <2>1. TypeOK'
    <3>1. FlagsOK'
      BY <1>2, <1>6
         DEF Inv, TypeOK, FlagsOK, ConnectBegin
    <3>2. TimesOK'
      BY <1>2, <1>6
         DEF Inv, TypeOK, TimesOK, ConnectBegin
    <3>3. pc' \in {"wait", "attemptWait", "resnapshot", "connecting", "publishing", "done"}
      BY <1>2, <1>6
         DEF Inv, TypeOK, ConnectBegin
    <3> QED BY <3>1, <3>2, <3>3 DEF TypeOK
  <2> QED BY <1>2, <1>6, <2>1 DEF Inv, ConnectBegin, BackoffSeconds
<1>7. CASE PublishBegin
  <2>1. TypeOK'
    <3>1. FlagsOK'
      BY <1>2, <1>7
         DEF Inv, TypeOK, FlagsOK, PublishBegin
    <3>2. TimesOK'
      BY <1>2, <1>7
         DEF Inv, TypeOK, TimesOK, PublishBegin
    <3>3. pc' \in {"wait", "attemptWait", "resnapshot", "connecting", "publishing", "done"}
      BY <1>2, <1>7
         DEF Inv, TypeOK, PublishBegin
    <3> QED BY <3>1, <3>2, <3>3 DEF TypeOK
  <2> QED BY <1>2, <1>7, <2>1 DEF Inv, PublishBegin, BackoffSeconds
<1> QED BY <1>3, <1>4, <1>5, <1>6, <1>7 DEF Decide

\* The clock, the camera, the server and the stop token touch nothing the
\* schedule depends on except the time, which only grows.
LEMMA OutsideInv ==
  ASSUME Inv, TypeOK', now' >= now,
         UNCHANGED <<pc, deadline, nextAttempt, failures, endedAt, failedAt, streak>>
  PROVE  Inv'
BY FacePublisherAssumption DEF Inv, TypeOK, TimesOK, BackoffSeconds

\* Each step keeps the invariant.
LEMMA StepInv == Inv /\ [Next]_vars => Inv'
<1> USE FacePublisherAssumption
<1> SUFFICES ASSUME Inv, [Next]_vars PROVE Inv'
  OBVIOUS
<1>1. CASE Worker
  BY <1>1, DecideInv, CallEndsInv DEF Worker
<1>2. CASE Update
  <2>1. TypeOK' /\ now' >= now
    <3>1. FlagsOK'
      BY <1>2
         DEF Inv, TypeOK, FlagsOK, Update, serverVars, workerVars, historyVars
    <3>2. TimesOK'
      BY <1>2
         DEF Inv, TypeOK, TimesOK, Update, serverVars, workerVars, historyVars
    <3>3. pc' \in {"wait", "attemptWait", "resnapshot", "connecting", "publishing", "done"}
      BY <1>2
         DEF Inv, TypeOK, Update, serverVars, workerVars, historyVars
    <3>4. now' >= now
      BY <1>2
         DEF Inv, TypeOK, TimesOK, Update, serverVars, workerVars, historyVars
    <3> QED BY <3>1, <3>2, <3>3, <3>4 DEF TypeOK
  <2> QED BY <1>2, <2>1, OutsideInv DEF Update, workerVars, historyVars
<1>3. CASE Invalidate
  <2>1. TypeOK' /\ now' >= now
    <3>1. FlagsOK'
      BY <1>3
         DEF Inv, TypeOK, FlagsOK, Invalidate, serverVars, workerVars, historyVars
    <3>2. TimesOK'
      BY <1>3
         DEF Inv, TypeOK, TimesOK, Invalidate, serverVars, workerVars, historyVars
    <3>3. pc' \in {"wait", "attemptWait", "resnapshot", "connecting", "publishing", "done"}
      BY <1>3
         DEF Inv, TypeOK, Invalidate, serverVars, workerVars, historyVars
    <3>4. now' >= now
      BY <1>3
         DEF Inv, TypeOK, TimesOK, Invalidate, serverVars, workerVars, historyVars
    <3> QED BY <3>1, <3>2, <3>3, <3>4 DEF TypeOK
  <2> QED BY <1>3, <2>1, OutsideInv DEF Invalidate, workerVars, historyVars
<1>4. CASE RequestStop
  <2>1. TypeOK' /\ now' >= now
    <3>1. FlagsOK'
      BY <1>4
         DEF Inv, TypeOK, FlagsOK, RequestStop, serverVars, workerVars, historyVars, faceVars
    <3>2. TimesOK'
      BY <1>4
         DEF Inv, TypeOK, TimesOK, RequestStop, serverVars, workerVars, historyVars, faceVars
    <3>3. pc' \in {"wait", "attemptWait", "resnapshot", "connecting", "publishing", "done"}
      BY <1>4
         DEF Inv, TypeOK, RequestStop, serverVars, workerVars, historyVars, faceVars
    <3>4. now' >= now
      BY <1>4
         DEF Inv, TypeOK, TimesOK, RequestStop, serverVars, workerVars, historyVars, faceVars
    <3> QED BY <3>1, <3>2, <3>3, <3>4 DEF TypeOK
  <2> QED BY <1>4, <2>1, OutsideInv DEF RequestStop, workerVars, historyVars
<1>5. CASE ServerFlips
  <2>1. TypeOK' /\ now' >= now
    <3>1. FlagsOK'
      BY <1>5
         DEF Inv, TypeOK, FlagsOK, ServerFlips, workerVars, faceVars
    <3>2. TimesOK'
      BY <1>5
         DEF Inv, TypeOK, TimesOK, ServerFlips, workerVars, faceVars
    <3>3. pc' \in {"wait", "attemptWait", "resnapshot", "connecting", "publishing", "done"}
      BY <1>5
         DEF Inv, TypeOK, ServerFlips, workerVars, faceVars
    <3>4. now' >= now
      BY <1>5
         DEF Inv, TypeOK, TimesOK, ServerFlips, workerVars, faceVars
    <3> QED BY <3>1, <3>2, <3>3, <3>4 DEF TypeOK
  <2> QED BY <1>5, <2>1, OutsideInv DEF ServerFlips, workerVars
<1>6. CASE Tick
  <2>1. TypeOK' /\ now' >= now
    <3>1. FlagsOK'
      BY <1>6
         DEF Inv, TypeOK, FlagsOK, Tick, serverVars, workerVars, faceVars
    <3>2. TimesOK'
      BY <1>6
         DEF Inv, TypeOK, TimesOK, Tick, serverVars, workerVars, faceVars
    <3>3. pc' \in {"wait", "attemptWait", "resnapshot", "connecting", "publishing", "done"}
      BY <1>6
         DEF Inv, TypeOK, Tick, serverVars, workerVars, faceVars
    <3>4. now' >= now
      BY <1>6
         DEF Inv, TypeOK, TimesOK, Tick, serverVars, workerVars, faceVars
    <3> QED BY <3>1, <3>2, <3>3, <3>4 DEF TypeOK
  <2> QED BY <1>6, <2>1, OutsideInv DEF Tick, workerVars
<1>7. CASE UNCHANGED vars
  <2>1. TypeOK' /\ now' >= now
    <3>1. FlagsOK'
      BY <1>7
         DEF Inv, TypeOK, FlagsOK, vars, serverVars, workerVars, historyVars, faceVars
    <3>2. TimesOK'
      BY <1>7
         DEF Inv, TypeOK, TimesOK, vars, serverVars, workerVars, historyVars, faceVars
    <3>3. pc' \in {"wait", "attemptWait", "resnapshot", "connecting", "publishing", "done"}
      BY <1>7
         DEF Inv, TypeOK, vars, serverVars, workerVars, historyVars, faceVars
    <3>4. now' >= now
      BY <1>7
         DEF Inv, TypeOK, TimesOK, vars, serverVars, workerVars, historyVars, faceVars
    <3> QED BY <3>1, <3>2, <3>3, <3>4 DEF TypeOK
  <2> QED BY <1>7, <2>1, OutsideInv DEF vars, workerVars, historyVars
<1> QED BY <1>1, <1>2, <1>3, <1>4, <1>5, <1>6, <1>7 DEF Next

\* The invariant always holds.
LEMMA InvAlways == SafeSpec => []Inv
BY InitInv, StepInv, PTL DEF SafeSpec

\* The worker's and the state's variables keep their types.
THEOREM TypeCorrect == SafeSpec => []TypeOK
<1>1. Inv => TypeOK
  BY DEF Inv
<1> QED BY <1>1, InvAlways, PTL

\* At most one report per interval, and no replay of missed ones, for every
\* interval and every delay of the worker.
THEOREM ReportsOncePerInterval == SafeSpec => OncePerInterval
<1>1. Inv /\ [Next]_vars => [Begins("publishing") => GridPointPassed]_vars
  <2> SUFFICES ASSUME Inv, [Next]_vars, Begins("publishing")
               PROVE  GridPointPassed
    OBVIOUS
  <2>1. PublishBegin
    BY DEF Begins, Next, Worker, Decide, CallEnds, Interrupted, Skip, ReportDue,
           ConnectBegin, ConnectSucceeds, PublishSucceeds, CallFails, CallCancelled,
           Update, Invalidate, RequestStop, ServerFlips, Tick, vars, workerVars
  <2>2. deadline \in endedAt + 1 .. now /\ deadline % Interval = 0
    BY <2>1 DEF PublishBegin, Inv, TypeOK, TimesOK
  <2> QED BY <2>2 DEF GridPointPassed
<1> QED BY <1>1, InvAlways, PTL DEF SafeSpec, OncePerInterval

\* No connect before the back-off of the failures so far has elapsed, for every
\* back-off table.
THEOREM BackoffIsRespected == SafeSpec => BackoffRespected
<1>1. Inv /\ [Next]_vars => [Begins("connecting") => BackoffElapsed]_vars
  <2> SUFFICES ASSUME Inv, [Next]_vars, Begins("connecting")
               PROVE  BackoffElapsed
    OBVIOUS
  <2>1. ConnectBegin
    BY DEF Begins, Next, Worker, Decide, CallEnds, Interrupted, Skip, ReportDue,
           PublishBegin, ConnectSucceeds, PublishSucceeds, CallFails, CallCancelled,
           Update, Invalidate, RequestStop, ServerFlips, Tick, vars, workerVars
  <2> QED BY <2>1 DEF ConnectBegin, Inv, BackoffElapsed
<1> QED BY <1>1, InvAlways, PTL DEF SafeSpec, BackoffRespected

-------------------------------------------------------------------------------
(* Prompt scheduling: no report is old, and reports resume after an outage. *)

InCall == pc \in {"connecting", "publishing"}

\* Where the worker can be in time.  A wait ends at the deadline, which is at most an
\* interval away, a call at its time-out; the back-off is at most the longest; the
\* report on its way was fresh when it left.
PromptInv ==
  /\ deadline <= now + Interval
  /\ nextAttempt <= now + BackoffSeconds(LastStep)
  /\ pc = "wait" => now <= deadline
  /\ InCall => began <= now /\ now <= began + Timeout
  /\ pc = "publishing" => carried <= began /\ began - carried < Stale

\* What the server left behind is known to the worker: nothing outside a call is
\* disturbed, only an open connection is broken; it ends when it is told to.
ConnectionInv ==
  /\ broken => connected \/ pc = "done"
  /\ pc = "done" => stop
  /\ disturbed => InCall
  /\ pc \in {"resnapshot", "publishing"} => connected
  /\ pc \in {"attemptWait", "connecting"} => ~connected

\* unreported counts only while the server is up and the state fresh.
CountInv == unreported > 0 => up /\ (~ended => Fresh)

\* The three steps of a recovery, from the last: how long no report got through, counted
\* at the latest end of the step the worker is in.
PublishLeft == Timeout
ConnectLeft == Timeout + (Interval + PublishLeft)
BrokenLeft == Timeout + (ConnectWait + ConnectLeft)
ByThen(t, left) == unreported + t + left <= now + RecoveryTime

RecoverInv ==
  ~ended =>
    /\ pc = "wait" /\ connected /\ broken => ByThen(deadline, BrokenLeft)
    /\ pc = "wait" /\ connected /\ ~broken => ByThen(deadline, PublishLeft)
    /\ pc = "wait" /\ ~connected => ByThen(deadline, ConnectLeft)
    /\ pc \in {"wait", "attemptWait"} /\ ~connected => ByThen(nextAttempt, ConnectLeft)
    /\ pc = "attemptWait" => ByThen(now, ConnectLeft)
    /\ pc = "resnapshot" => ByThen(now, IF broken THEN BrokenLeft ELSE PublishLeft)
    /\ InCall /\ (broken \/ disturbed) => ByThen(began, BrokenLeft)
    /\ pc = "connecting" /\ ~disturbed => ByThen(began, ConnectLeft)
    /\ pc = "publishing" /\ ~broken /\ ~disturbed => ByThen(began, PublishLeft)

Promptly == Inv /\ PromptInv /\ ConnectionInv /\ CountInv /\ RecoverInv

\* The durations the bounds are made of.
LEMMA Durations ==
  /\ Interval \in Nat \ {0} /\ Timeout \in Nat /\ Stale \in Nat
  /\ BackoffSeconds(LastStep) \in Nat
  /\ ConnectWait \in Nat /\ Interval <= ConnectWait
  /\ BackoffSeconds(LastStep) <= ConnectWait
  /\ \A f \in 0 .. LastStep : BackoffSeconds(f) \in Nat
                             /\ BackoffSeconds(f) <= BackoffSeconds(LastStep)
<1>1. Interval \in Nat \ {0} /\ Timeout \in Nat /\ Stale \in Nat
  BY FacePublisherAssumption
<1>2. BackoffSeconds(LastStep) \in Nat  BY BackoffIsNat DEF LastStep
<1>3. \A f \in 0 .. LastStep : BackoffSeconds(f) \in Nat
                             /\ BackoffSeconds(f) <= BackoffSeconds(LastStep)
  BY FacePublisherAssumption DEF BackoffSeconds, LastStep
<1> QED  BY <1>1, <1>2, <1>3 DEF ConnectWait

LEMMA NextDeadlineNear ==
  ASSUME NEW t \in Nat
  PROVE  NextDeadline(t) \in Nat /\ t < NextDeadline(t) /\ NextDeadline(t) <= t + Interval
<1> DEFINE q == t \div Interval
<1>0. Interval \in Nat \ {0}  BY Durations
<1>1. q \in Nat /\ t % Interval \in 0 .. Interval - 1  BY <1>0
<1>2. t = (Interval * q) + (t % Interval)  BY <1>0
<1>3. NextDeadline(t) = Interval * q + Interval  BY <1>0, <1>1 DEF NextDeadline
<1> HIDE DEF q
<1>4. Interval * q \in Nat  BY <1>0, <1>1
<1>5. NextDeadline(t) <= t + Interval  BY <1>0, <1>1, <1>2, <1>3, <1>4
<1> QED  BY <1>0, <1>5, NextDeadlineOnGrid

LEMMA PromptInit == Init => PromptInv /\ ConnectionInv /\ CountInv /\ RecoverInv
<1> SUFFICES ASSUME Init PROVE PromptInv /\ ConnectionInv /\ CountInv /\ RecoverInv
  OBVIOUS
<1>1. NextDeadline(0) \in Nat /\ NextDeadline(0) <= 0 + Interval  BY NextDeadlineNear
<1>2. PromptInv  BY <1>1, Durations DEF Init, PromptInv, InCall
<1>3. ConnectionInv /\ CountInv  BY DEF Init, ConnectionInv, CountInv
<1>4. RecoverInv
  BY <1>1, Durations DEF Init, RecoverInv, InCall, ByThen, RecoveryTime, PublishLeft,
    ConnectLeft, BrokenLeft
<1> QED  BY <1>2, <1>3, <1>4

LEMMA ConnectionStep == Inv /\ ConnectionInv /\ [Next]_vars => ConnectionInv'
<1> SUFFICES ASSUME Inv, ConnectionInv, [Next]_vars PROVE ConnectionInv'
  OBVIOUS
<1>1. CASE Decide
  BY <1>1 DEF Decide, Interrupted, Skip, ReportDue, ConnectBegin, PublishBegin,
    ConnectionInv, InCall, Outside
<1>2. CASE CallEnds
  <2>1. ~disturbed' /\ pc' \in {"wait", "done"} /\ (broken' => connected')
    BY <1>2 DEF CallEnds, ConnectSucceeds, PublishSucceeds, CallFails, CallCancelled
  <2>2. pc' = "done" => stop'
    BY <1>2 DEF CallEnds, ConnectSucceeds, PublishSucceeds, CallFails, CallCancelled, Outside
  <2> QED  BY <2>1, <2>2 DEF ConnectionInv
<1>3. CASE ServerFlips
  <2>1. UNCHANGED <<pc, connected, stop>> /\ broken' = connected /\ (disturbed' => InCall)
    BY <1>3 DEF ServerFlips, workerVars, InCall
  <2> QED  BY <2>1 DEF ConnectionInv, InCall
<1>4. CASE Update \/ Invalidate \/ RequestStop \/ Tick \/ UNCHANGED vars
  BY <1>4 DEF Update, Invalidate, RequestStop, Tick, vars, serverVars, workerVars,
    ConnectionInv, InCall
<1> QED  BY <1>1, <1>2, <1>3, <1>4 DEF Next, Worker

LEMMA CountStep == Inv /\ CountInv /\ [Next]_vars => CountInv'
<1> SUFFICES ASSUME Inv, CountInv, [Next]_vars PROVE CountInv'
  OBVIOUS
<1>1. CASE Worker
  <2>1. UNCHANGED <<now, available, completed, ended, up>>
        /\ unreported' \in {0, unreported}
    BY <1>1 DEF Worker, Decide, CallEnds, Outside, faceVars, historyVars
  <2>2. unreported \in Nat  BY DEF Inv, TypeOK, TimesOK
  <2> QED  BY <2>1, <2>2 DEF CountInv, Fresh, StateFresh
<1>2. CASE Update
  <2>1. PICK c \in completed .. now : completed' = c  BY <1>2 DEF Update
  <2>2. available' = TRUE /\ UNCHANGED <<now, ended, up, unreported>>
    BY <1>2 DEF Update, serverVars, historyVars
  <2>3. completed \in 0 .. now /\ now \in Nat  BY DEF Inv, TypeOK, TimesOK
  <2>4. Stale \in Nat  BY Durations
  <2>5. Fresh => Fresh'  BY <2>1, <2>2, <2>3, <2>4 DEF Fresh, StateFresh
  <2>6. ~ended  BY <1>2 DEF Update
  <2> QED  BY <2>2, <2>5, <2>6 DEF CountInv
<1>3. CASE Invalidate
  BY <1>3 DEF Invalidate, serverVars, historyVars, CountInv
<1>4. CASE RequestStop \/ UNCHANGED vars
  BY <1>4 DEF RequestStop, vars, faceVars, serverVars, historyVars, CountInv, Fresh,
    StateFresh
<1>5. CASE ServerFlips  BY <1>5 DEF ServerFlips, CountInv
<1>6. CASE Tick
  <2>1. completed \in 0 .. now /\ now \in Nat  BY DEF Inv, TypeOK, TimesOK
  <2>2. UNCHANGED <<available, completed, ended, up>> /\ now' = now + 1
    BY <1>6 DEF Tick, faceVars, serverVars
  <2>3. unreported' > 0 => up /\ available /\ now + 1 - completed < Stale
    BY <1>6 DEF Tick
  <2> QED  BY <2>1, <2>2, <2>3 DEF CountInv, Fresh, StateFresh
<1> QED  BY <1>1, <1>2, <1>3, <1>4, <1>5, <1>6 DEF Next

LEMMA PromptStep ==
  ASSUME Prompt
  PROVE  Inv /\ PromptInv /\ [Next]_vars => PromptInv'
<1> SUFFICES ASSUME Inv, PromptInv, [Next]_vars PROVE PromptInv'
  OBVIOUS
<1>0. /\ now \in Nat /\ deadline \in Nat /\ nextAttempt \in Nat /\ began \in Nat
      /\ carried \in Nat /\ completed \in 0 .. now /\ failures \in 0 .. LastStep
  BY DEF Inv, TypeOK, TimesOK
<1>1. NextDeadline(now) \in Nat /\ now < NextDeadline(now) /\ NextDeadline(now) <= now + Interval
  BY <1>0, NextDeadlineNear
<1>2. CASE Decide
  <2>1. now' = now  BY <1>2 DEF Decide, Outside
  <2>2. CASE Interrupted  BY <2>1, <2>2 DEF Interrupted, PromptInv, InCall
  <2>3. CASE Skip  BY <1>0, <1>1, <2>1, <2>3 DEF Skip, PromptInv, InCall
  <2>4. CASE ReportDue  BY <2>1, <2>4 DEF ReportDue, PromptInv, InCall
  <2>5. CASE ConnectBegin
    BY <1>0, <2>1, <2>5, Durations DEF ConnectBegin, PromptInv, InCall
  <2>6. CASE PublishBegin
    BY <1>0, <2>1, <2>6, Durations DEF PublishBegin, PromptInv, InCall, Fresh, StateFresh
  <2> QED  BY <1>2, <2>2, <2>3, <2>4, <2>5, <2>6 DEF Decide
<1>3. CASE CallEnds
  <2>1. /\ now' = now /\ pc' \in {"wait", "done"}
        /\ deadline' = NextDeadline(now) \/ (pc' = "done" /\ deadline' = deadline)
        /\ nextAttempt' = nextAttempt \/ nextAttempt' = now + BackoffSeconds(failures)
    BY <1>3 DEF CallEnds, Outside, ConnectSucceeds, PublishSucceeds, CallFails, CallCancelled
  <2>2. BackoffSeconds(failures) \in Nat /\ BackoffSeconds(failures) <= BackoffSeconds(LastStep)
    BY <1>0, Durations
  <2>3. BackoffSeconds(LastStep) \in Nat  BY Durations
  <2> QED  BY <1>0, <1>1, <2>1, <2>2, <2>3 DEF PromptInv, InCall
<1>4. CASE Update \/ Invalidate \/ RequestStop \/ ServerFlips \/ UNCHANGED vars
  BY <1>4 DEF Update, Invalidate, RequestStop, ServerFlips, vars, workerVars, PromptInv, InCall
<1>5. CASE Tick
  <2>1. ~Urgent /\ now' = now + 1
        /\ UNCHANGED <<pc, deadline, nextAttempt, began, carried>>
    BY <1>5 DEF Tick, workerVars
  <2> QED  BY <1>0, <2>1, Durations DEF Urgent, PromptInv, InCall
<1> QED  BY <1>2, <1>3, <1>4, <1>5 DEF Next, Worker

\* A report that gets through, a flip of the server and an old state start the count again.
LEMMA Recount ==
  ASSUME TypeOK', PromptInv', ConnectionInv', unreported' = 0
  PROVE  RecoverInv'
<1>1. /\ now' \in Nat /\ deadline' \in Nat /\ nextAttempt' \in Nat /\ began' \in Nat
  BY DEF TypeOK, TimesOK
<1>2. /\ PublishLeft \in Nat /\ ConnectLeft \in Nat /\ BrokenLeft \in Nat
      /\ RecoveryTime \in Nat
      /\ Interval + BrokenLeft <= RecoveryTime /\ Interval + ConnectLeft <= RecoveryTime
      /\ Interval + PublishLeft <= RecoveryTime
      /\ BackoffSeconds(LastStep) + ConnectLeft <= RecoveryTime
  BY Durations DEF RecoveryTime, PublishLeft, ConnectLeft, BrokenLeft
<1>3. Interval \in Nat /\ BackoffSeconds(LastStep) \in Nat  BY Durations
<1>4. \A t, left, d, n, r \in Nat : t <= n + d /\ d + left <= r => 0 + t + left <= n + r
  OBVIOUS
<1>5. ASSUME NEW left \in {PublishLeft, ConnectLeft, BrokenLeft}
      PROVE  /\ unreported' + deadline' + left <= now' + RecoveryTime
             /\ unreported' + now' + left <= now' + RecoveryTime
             /\ InCall' => unreported' + began' + left <= now' + RecoveryTime
  <2>1. left \in Nat /\ Interval + left <= RecoveryTime  BY <1>2
  <2>2. deadline' <= now' + Interval /\ now' <= now' + Interval
        /\ (InCall' => began' <= now' + Interval)
    <3>1. deadline' <= now' + Interval /\ (InCall' => began' <= now')  BY DEF PromptInv
    <3>2. \A t, n \in Nat : t <= n => t <= n + Interval
      BY <1>3
    <3>3. now' <= now'  BY <1>1
    <3>4. now' <= now' + Interval  BY <1>1, <3>2, <3>3, Zenon
    <3>5. InCall' => began' <= now' + Interval  BY <1>1, <3>1, <3>2, Zenon
    <3> QED  BY <3>1, <3>4, <3>5
  <2> QED  BY <1>1, <1>2, <1>3, <1>4, <2>1, <2>2
<1>6. ByThen(nextAttempt, ConnectLeft)'
  <2>1. unreported' + nextAttempt' + ConnectLeft <= now' + RecoveryTime
    BY <1>1, <1>2, <1>3, <1>4 DEF PromptInv
  <2> QED  BY <2>1 DEF ByThen, RecoveryTime, ConnectLeft, PublishLeft, ConnectWait
<1>7. /\ ByThen(deadline, PublishLeft)' /\ ByThen(deadline, ConnectLeft)'
      /\ ByThen(deadline, BrokenLeft)' /\ ByThen(now, PublishLeft)'
      /\ ByThen(now, ConnectLeft)' /\ ByThen(now, BrokenLeft)'
  BY <1>5, Zenon DEF ByThen, RecoveryTime, PublishLeft, ConnectLeft, BrokenLeft, ConnectWait
<1>8. InCall' => /\ ByThen(began, PublishLeft)' /\ ByThen(began, ConnectLeft)'
                 /\ ByThen(began, BrokenLeft)'
  BY <1>5, Zenon DEF ByThen, RecoveryTime, PublishLeft, ConnectLeft, BrokenLeft, ConnectWait
<1> QED
  BY <1>6, <1>7, <1>8 DEF RecoverInv, InCall

\* Each step of the worker while reports are overdue leaves enough time for the rest.
LEMMA RecoverDecide ==
  ASSUME Promptly, Decide, unreported > 0, ~ended
  PROVE  RecoverInv'
<1>0. /\ now \in Nat /\ deadline \in Nat /\ nextAttempt \in Nat /\ unreported \in Nat
  BY DEF Promptly, Inv, TypeOK, TimesOK
<1>1. UNCHANGED <<now, ended, broken, disturbed, unreported>> /\ Fresh
  BY DEF Decide, Outside, historyVars, Promptly, CountInv
<1>2. CASE Interrupted \/ Skip
  BY <1>1, <1>2 DEF Interrupted, Skip, RecoverInv, InCall
<1>3. CASE ReportDue
  <2>1. now = deadline  BY <1>0, <1>3 DEF ReportDue, Promptly, PromptInv
  <2> QED
    BY <1>0, <1>1, <1>3, <2>1 DEF ReportDue, Promptly, RecoverInv, ByThen, InCall, PromptInv
<1>4. CASE ConnectBegin
  BY <1>0, <1>1, <1>4 DEF ConnectBegin, Promptly, RecoverInv, ByThen, InCall, ConnectionInv
<1>5. CASE PublishBegin
  BY <1>0, <1>1, <1>5 DEF PublishBegin, Promptly, RecoverInv, ByThen, InCall, ConnectionInv
<1> QED  BY <1>2, <1>3, <1>4, <1>5 DEF Decide

LEMMA RecoverCallEnds ==
  ASSUME Promptly, CallEnds, TypeOK', PromptInv', ConnectionInv', unreported > 0, ~ended
  PROVE  RecoverInv'
<1>0. /\ now \in Nat /\ began \in Nat /\ unreported \in Nat /\ failures \in 0 .. LastStep
  BY DEF Promptly, Inv, TypeOK, TimesOK
<1>1. now' = now /\ ended' = ended /\ disturbed' = FALSE /\ up
  BY DEF CallEnds, Outside, Promptly, CountInv
<1>2. NextDeadline(now) \in Nat /\ NextDeadline(now) <= now + Interval
  BY <1>0, NextDeadlineNear
<1>3. InCall => now <= began + Timeout  BY DEF Promptly, PromptInv
<1>4. InCall /\ (broken \/ disturbed) => unreported + began <= now + Interval
  BY <1>0, Durations
  DEF Promptly, RecoverInv, ByThen, BrokenLeft, ConnectLeft, PublishLeft, RecoveryTime
<1>5. CASE ConnectSucceeds /\ UNCHANGED <<failedAt, streak, unreported>>
  <2>1. /\ pc = "connecting" /\ InCall /\ pc' = "wait" /\ deadline' = NextDeadline(now)
        /\ unreported' = unreported /\ connected' /\ ~connected
    BY <1>5 DEF ConnectSucceeds, InCall, Promptly, ConnectionInv
  <2>2. broken' = FALSE
    BY <2>1, <1>1 DEF CallEnds, Promptly, ConnectionInv
  <2>3. CASE disturbed
    BY <1>0, <1>1, <1>2, <1>3, <1>4, <2>1, <2>2, <2>3, Durations
    DEF RecoverInv, ByThen, ConnectLeft, PublishLeft, RecoveryTime, InCall
  <2>4. CASE ~disturbed
    <3>1. ByThen(began, ConnectLeft)  BY <2>1, <2>4 DEF Promptly, RecoverInv
    <3> QED
      BY <1>0, <1>1, <1>2, <1>3, <2>1, <2>2, <3>1, Durations
      DEF RecoverInv, ByThen, ConnectLeft, PublishLeft, RecoveryTime, InCall
  <2> QED  BY <2>3, <2>4
<1>6. CASE PublishSucceeds /\ streak' = 0 /\ unreported' = 0 /\ UNCHANGED failedAt
  BY <1>6, Recount
<1>7. CASE CallFails /\ failedAt' = now /\ streak' = streak + 1 /\ UNCHANGED unreported
  <2>1. /\ InCall /\ pc' = "wait" /\ deadline' = NextDeadline(now) /\ connected' = FALSE
        /\ nextAttempt' = now + BackoffSeconds(failures) /\ unreported' = unreported
        /\ broken \/ disturbed
    BY <1>1, <1>7 DEF CallFails, Unanswered, InCall
  <2>2. BackoffSeconds(failures) \in Nat /\ BackoffSeconds(failures) <= ConnectWait
    BY <1>0, Durations
  <2>3. unreported <= Interval + Timeout
    BY <1>0, <1>3, <1>4, <2>1, Durations
  <2>4. \A t \in Nat : t <= now + ConnectWait =>
          unreported + t + ConnectLeft <= now + RecoveryTime
    BY <1>0, <2>3, Durations DEF RecoveryTime, ConnectLeft, PublishLeft
  <2>5. deadline' \in Nat /\ deadline' <= now + ConnectWait
    BY <1>0, <1>2, <2>1, Durations
  <2>6. nextAttempt' \in Nat /\ nextAttempt' <= now + ConnectWait
    BY <1>0, <2>1, <2>2, Durations
  <2> QED  BY <1>1, <2>1, <2>4, <2>5, <2>6 DEF RecoverInv, ByThen, InCall,
    ConnectLeft, PublishLeft, RecoveryTime
<1>8. CASE CallCancelled /\ UNCHANGED <<failedAt, streak, unreported>>
  BY <1>8 DEF CallCancelled, RecoverInv, InCall
<1> QED  BY <1>5, <1>6, <1>7, <1>8 DEF CallEnds

LEMMA RecoverStep ==
  ASSUME Prompt
  PROVE  Promptly /\ PromptInv' /\ ConnectionInv' /\ TypeOK' /\ [Next]_vars => RecoverInv'
<1> SUFFICES ASSUME Promptly, PromptInv', ConnectionInv', TypeOK', [Next]_vars,
                    unreported' # 0, ~ended'
             PROVE  RecoverInv'
  <2>1. unreported' = 0 /\ PromptInv' /\ ConnectionInv' /\ TypeOK' => RecoverInv'
    BY Recount
  <2>2. ended' => RecoverInv'  BY DEF RecoverInv
  <2> QED  BY <2>1, <2>2
<1>0. /\ now \in Nat /\ deadline \in Nat /\ nextAttempt \in Nat /\ unreported \in Nat
      /\ began \in Nat /\ unreported' \in Nat
  BY DEF Promptly, Inv, TypeOK, TimesOK
<1>1. CASE Decide
  <2>1. unreported > 0 /\ ~ended  BY <1>0, <1>1 DEF Decide, Outside, historyVars
  <2> QED  BY <1>1, <2>1, RecoverDecide
<1>2. CASE CallEnds
  <2>1. unreported > 0 /\ ~ended  BY <1>0, <1>2 DEF CallEnds, Outside
  <2> QED  BY <1>2, <2>1, RecoverCallEnds
<1>3. CASE Update \/ RequestStop \/ UNCHANGED vars
  <2>1. UNCHANGED <<now, ended, pc, deadline, nextAttempt, began, connected, broken,
                    disturbed, unreported>>
    BY <1>3 DEF Update, RequestStop, vars, serverVars, workerVars, historyVars
  <2> QED  BY <2>1 DEF Promptly, RecoverInv, ByThen, InCall
<1>4. CASE Invalidate \/ ServerFlips
  BY <1>4 DEF Invalidate, ServerFlips
<1>5. CASE Tick
  <2>1. /\ UNCHANGED <<ended, pc, deadline, nextAttempt, began, connected, broken, disturbed>>
        /\ now' = now + 1 /\ unreported' = unreported + 1 /\ ~Urgent
    BY <1>5 DEF Tick, serverVars, workerVars
  <2>2. pc # "resnapshot" /\ (pc = "attemptWait" => now < nextAttempt)
    BY <1>0, <2>1 DEF Urgent
  <2>3. ~ended  BY <2>1
  <2>4. pc = "attemptWait" => ~connected  BY DEF Promptly, ConnectionInv
  <2> QED
    BY <1>0, <2>1, <2>2, <2>3, <2>4, Durations
    DEF Promptly, RecoverInv, ByThen, InCall, RecoveryTime, PublishLeft, ConnectLeft, BrokenLeft
<1> QED  BY <1>1, <1>2, <1>3, <1>4, <1>5 DEF Next, Worker

LEMMA PromptlyAlways ==
  ASSUME Prompt
  PROVE  SafeSpec => []Promptly
<1>1. Init => Promptly  BY InitInv, PromptInit DEF Promptly
<1>2. Promptly /\ [Next]_vars => Promptly'
  <2> SUFFICES ASSUME Promptly, [Next]_vars PROVE Promptly'
    OBVIOUS
  <2>1. Inv'  BY StepInv DEF Promptly
  <2>2. PromptInv' /\ ConnectionInv' /\ CountInv'
    BY PromptStep, ConnectionStep, CountStep DEF Promptly
  <2>3. RecoverInv'  BY <2>1, <2>2, RecoverStep DEF Inv
  <2> QED  BY <2>1, <2>2, <2>3 DEF Promptly
<1> QED  BY <1>1, <1>2, PTL DEF SafeSpec

\* With prompt scheduling no report on the wire is older than the staleness limit and one
\* call, for every limit, interval and time-out: the worker takes its snapshot again
\* right before it publishes.
THEOREM ReportsStayRecent ==
  ASSUME Prompt
  PROVE  SafeSpec => []ReportsAreRecent
<1>1. Promptly => ReportsAreRecent
  BY Durations DEF Promptly, Inv, TypeOK, TimesOK, PromptInv, InCall, ReportsAreRecent
<1> QED  BY <1>1, PromptlyAlways, PTL

\* With prompt scheduling, reports get through within one publish on the broken connection,
\* one connect and one publish of the server's return, for every interval, time-out and
\* back-off table: a failed call always ends the connection, and no failure after the
\* return delays the next attempt again.
THEOREM ReportsRecover ==
  ASSUME Prompt
  PROVE  SafeSpec => []Recovers
<1>1. Promptly => Recovers
  <2> SUFFICES ASSUME Promptly, ~stop, ~ended, unreported > RecoveryTime
               PROVE  FALSE
    <3>1. unreported \in Nat => (~(unreported > RecoveryTime) => unreported <= RecoveryTime)
      BY Durations DEF RecoveryTime
    <3> QED  BY <3>1 DEF Recovers, Promptly, Inv, TypeOK, TimesOK
  <2>1. /\ now \in Nat /\ deadline \in Nat /\ nextAttempt \in Nat /\ unreported \in Nat
        /\ began \in Nat
    BY DEF Promptly, Inv, TypeOK, TimesOK
  <2>2. /\ PublishLeft \in Nat /\ ConnectLeft \in Nat /\ BrokenLeft \in Nat
        /\ Timeout <= PublishLeft /\ Timeout <= ConnectLeft /\ Timeout <= BrokenLeft
        /\ Timeout \in Nat /\ RecoveryTime \in Nat
    BY Durations DEF RecoveryTime, PublishLeft, ConnectLeft, BrokenLeft
  <2>3. pc \in {"wait", "attemptWait", "resnapshot", "connecting", "publishing"}
    BY DEF Promptly, Inv, TypeOK, ConnectionInv
  <2>4. CASE pc = "wait"
    <3>1. now <= deadline  BY <2>4 DEF Promptly, PromptInv
    <3>2. PICK left \in {PublishLeft, ConnectLeft, BrokenLeft} : ByThen(deadline, left)
      BY <2>4 DEF Promptly, RecoverInv
    <3> QED  BY <2>1, <2>2, <3>1, <3>2 DEF ByThen
  <2>5. CASE pc \in {"attemptWait", "resnapshot"}
    <3>1. PICK left \in {PublishLeft, ConnectLeft, BrokenLeft} : ByThen(now, left)
      BY <2>5 DEF Promptly, RecoverInv
    <3> QED  BY <2>1, <2>2, <3>1 DEF ByThen
  <2>6. CASE InCall
    <3>1. now <= began + Timeout  BY <2>6 DEF Promptly, PromptInv
    <3>2. PICK left \in {PublishLeft, ConnectLeft, BrokenLeft} : ByThen(began, left)
      BY <2>6 DEF Promptly, RecoverInv, InCall, ConnectionInv
    <3> QED  BY <2>1, <2>2, <3>1, <3>2 DEF ByThen
  <2> QED  BY <2>3, <2>4, <2>5, <2>6 DEF InCall
<1> QED  BY <1>1, PromptlyAlways, PTL
===============================================================================
