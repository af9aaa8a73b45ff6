-------------------------- MODULE LatestFrameHandoff --------------------------
(***************************************************************************)
(* LatestFrameHandoff of yolov26_realsense_core.hpp: the single-slot       *)
(* hand-off between the capture/inference thread and the thread that       *)
(* draws, encodes or shows frames.                                         *)
(*                                                                         *)
(* A critical section of mutex_ is one action.  Everything the code does   *)
(* outside the lock is an action of its own: notify_one and notify_all     *)
(* come after the unlock, and a thread woken from condition_.wait has to   *)
(* take the lock again and look at the predicate again, by which time      *)
(* other threads may have published, popped or stopped.                    *)
(***************************************************************************)
EXTENDS Naturals

CONSTANTS
  Waiters,    \* threads that call wait_pop (renderer threads)
  Pollers,    \* threads that call try_pop (the HDMI GUI thread)
  Stoppers,   \* threads that call stop
  MaxFrame    \* bound: frames the capture thread produces

ASSUME HandoffAssumption ==
  /\ MaxFrame \in Nat
  /\ Waiters \cap Pollers = {}

NoFrame == 0
Frames == 1 .. MaxFrame

VARIABLES
  pending,      \* pending_: the frame on offer, or NoFrame
  stopped,      \* stopped_
  sequence,     \* number of the last frame handed to publish
  pubPc,        \* publisher: "idle", or "notify" between unlock and notify_one
  stopPc,       \* per stopper: "idle", "notify" (unlocked, before notify_all), "done"
  waitPc,       \* per waiter: "idle", "waiting" (blocked), "woken", "returned"
  delivered,    \* frames moved out by wait_pop or try_pop
  overwritten,  \* frames replaced in the slot before anybody popped them
  discarded,    \* frames thrown away by stop
  rejected,     \* frames refused because the hand-off was stopped
  replacements  \* frames whose publish returned PublishResult::replaced

slot  == <<pending, stopped>>
fates == <<delivered, overwritten, discarded, rejected, replacements>>
vars  == <<slot, sequence, pubPc, stopPc, waitPc, fates>>

Init ==
  /\ pending = NoFrame
  /\ stopped = FALSE
  /\ sequence = 0
  /\ pubPc = "idle"
  /\ stopPc = [s \in Stoppers |-> "idle"]
  /\ waitPc = [w \in Waiters |-> "idle"]
  /\ delivered = {}
  /\ overwritten = {}
  /\ discarded = {}
  /\ rejected = {}
  /\ replacements = {}

Pending == {pending} \ {NoFrame}

-------------------------------------------------------------------------------
(* publish: the locked part, then notify_one. *)

PublishRefused ==
  /\ pubPc = "idle"
  /\ sequence < MaxFrame
  /\ stopped
  /\ sequence' = sequence + 1
  /\ rejected' = rejected \cup {sequence + 1}
  /\ UNCHANGED <<slot, pubPc, stopPc, waitPc, delivered, overwritten, discarded,
                 replacements>>

\* MUTANT of Publish: a frame still in the slot is not counted as replaced.
PublishUnreported ==
  /\ pubPc = "idle"
  /\ sequence < MaxFrame
  /\ ~stopped
  /\ sequence' = sequence + 1
  /\ overwritten' = overwritten \cup Pending
  /\ pending' = sequence + 1
  /\ pubPc' = "notify"
  /\ UNCHANGED <<stopped, stopPc, waitPc, delivered, discarded, rejected, replacements>>

\* MUTANT of Publish: an occupied slot keeps its frame, so the newest is dropped.
PublishKeepsOldest ==
  /\ pubPc = "idle"
  /\ sequence < MaxFrame
  /\ ~stopped
  /\ sequence' = sequence + 1
  /\ pending' = IF pending = NoFrame THEN sequence + 1 ELSE pending
  /\ overwritten' = IF pending = NoFrame THEN overwritten
                                         ELSE overwritten \cup {sequence + 1}
  /\ pubPc' = "notify"
  /\ UNCHANGED <<stopped, stopPc, waitPc, delivered, discarded, rejected, replacements>>

Publish ==
  /\ pubPc = "idle"
  /\ sequence < MaxFrame
  /\ ~stopped
  /\ sequence' = sequence + 1
  /\ replacements' = IF pending # NoFrame THEN replacements \cup {sequence + 1}
                                          ELSE replacements
  /\ overwritten' = overwritten \cup Pending
  /\ pending' = sequence + 1
  /\ pubPc' = "notify"
  /\ UNCHANGED <<stopped, stopPc, waitPc, delivered, discarded, rejected>>

\* MUTANT of NotifyOne: the publisher never notifies.
NotifyNobody ==
  /\ pubPc = "notify"
  /\ pubPc' = "idle"
  /\ UNCHANGED <<slot, sequence, stopPc, waitPc, fates>>

\* notify_one wakes one blocked thread, or nobody when none is blocked.
NotifyOne ==
  /\ pubPc = "notify"
  /\ pubPc' = "idle"
  /\ \/ \E w \in Waiters :
          /\ waitPc[w] = "waiting"
          /\ waitPc' = [waitPc EXCEPT ![w] = "woken"]
     \/ /\ \A w \in Waiters : waitPc[w] # "waiting"
        /\ UNCHANGED waitPc
  /\ UNCHANGED <<slot, sequence, stopPc, fates>>

-------------------------------------------------------------------------------
(* wait_pop: entry and every wake-up evaluate the same predicate under the *)
(* lock; blocking and unlocking are one atomic step of condition_.wait.    *)

Holding(w) == waitPc[w] \in {"idle", "woken"}

Block(w) ==
  /\ Holding(w)
  /\ ~stopped
  /\ pending = NoFrame
  /\ waitPc' = [waitPc EXCEPT ![w] = "waiting"]
  /\ UNCHANGED <<slot, sequence, pubPc, stopPc, fates>>

\* MUTANT of WaitPop: the frame is copied out and the slot is not reset.
WaitPopKeepsFrame(w) ==
  /\ Holding(w)
  /\ ~stopped
  /\ pending # NoFrame
  /\ delivered' = delivered \cup {pending}
  /\ waitPc' = [waitPc EXCEPT ![w] = "idle"]
  /\ UNCHANGED <<slot, sequence, pubPc, stopPc, overwritten, discarded, rejected,
                 replacements>>

\* MUTANT of WaitPop: a woken thread does not look at the predicate again.
WaitPopUnchecked(w) ==
  /\ Holding(w)
  /\ ~stopped
  /\ waitPc[w] = "woken" \/ pending # NoFrame
  /\ delivered' = delivered \cup {pending}
  /\ pending' = NoFrame
  /\ waitPc' = [waitPc EXCEPT ![w] = "idle"]
  /\ UNCHANGED <<stopped, sequence, pubPc, stopPc, overwritten, discarded,
                 rejected, replacements>>

WaitPop(w) ==
  /\ Holding(w)
  /\ ~stopped
  /\ pending # NoFrame
  /\ delivered' = delivered \cup {pending}
  /\ pending' = NoFrame
  /\ waitPc' = [waitPc EXCEPT ![w] = "idle"]
  /\ UNCHANGED <<stopped, sequence, pubPc, stopPc, overwritten, discarded,
                 rejected, replacements>>

\* wait_pop returns false, whatever the slot holds.
WaitPopStopped(w) ==
  /\ Holding(w)
  /\ stopped
  /\ waitPc' = [waitPc EXCEPT ![w] = "returned"]
  /\ UNCHANGED <<slot, sequence, pubPc, stopPc, fates>>

\* A condition variable may wake a thread that nobody notified.
SpuriousWakeup(w) ==
  /\ waitPc[w] = "waiting"
  /\ waitPc' = [waitPc EXCEPT ![w] = "woken"]
  /\ UNCHANGED <<slot, sequence, pubPc, stopPc, fates>>

\* try_pop does not look at stopped_; an empty slot changes nothing.
TryPop(p) ==
  /\ p \in Pollers
  /\ pending # NoFrame
  /\ delivered' = delivered \cup {pending}
  /\ pending' = NoFrame
  /\ UNCHANGED <<stopped, sequence, pubPc, stopPc, waitPc, overwritten, discarded,
                 rejected, replacements>>

-------------------------------------------------------------------------------
(* stop: the locked part, then notify_all. *)

Stop(s) ==
  /\ stopPc[s] = "idle"
  /\ stopped' = TRUE
  /\ pending' = NoFrame
  /\ discarded' = discarded \cup Pending
  /\ stopPc' = [stopPc EXCEPT ![s] = "notify"]
  /\ UNCHANGED <<sequence, pubPc, waitPc, delivered, overwritten, rejected,
                 replacements>>

\* MUTANT of NotifyAll: stop notifies a single thread.
StopNotifiesOne(s) ==
  /\ stopPc[s] = "notify"
  /\ stopPc' = [stopPc EXCEPT ![s] = "done"]
  /\ \/ \E w \in Waiters :
          /\ waitPc[w] = "waiting"
          /\ waitPc' = [waitPc EXCEPT ![w] = "woken"]
     \/ /\ \A w \in Waiters : waitPc[w] # "waiting"
        /\ UNCHANGED waitPc
  /\ UNCHANGED <<slot, sequence, pubPc, fates>>

NotifyAll(s) ==
  /\ stopPc[s] = "notify"
  /\ stopPc' = [stopPc EXCEPT ![s] = "done"]
  /\ waitPc' = [w \in Waiters |-> IF waitPc[w] = "waiting" THEN "woken"
                                                           ELSE waitPc[w]]
  /\ UNCHANGED <<slot, sequence, pubPc, fates>>

-------------------------------------------------------------------------------
Waiter(w) == Block(w) \/ WaitPop(w) \/ WaitPopStopped(w)

Next ==
  \/ Publish \/ PublishRefused \/ NotifyOne
  \/ \E w \in Waiters : Waiter(w) \/ SpuriousWakeup(w)
  \/ \E p \in Pollers : TryPop(p)
  \/ \E s \in Stoppers : Stop(s) \/ NotifyAll(s)

SafeSpec == Init /\ [][Next]_vars

(***************************************************************************)
(* A thread that is not blocked is scheduled: the publisher reaches its    *)
(* notify_one, a stopper its notify_all, and the renderer loop keeps       *)
(* calling wait_pop.  Nobody has to publish, poll or stop, and spurious    *)
(* wake-ups are never relied on.                                           *)
(***************************************************************************)
Fairness ==
  /\ WF_vars(NotifyOne)
  /\ \A w \in Waiters : WF_vars(Waiter(w))
  /\ \A s \in Stoppers : WF_vars(NotifyAll(s))

Spec == SafeSpec /\ Fairness

-------------------------------------------------------------------------------
(* Safety *)

TypeOK ==
  /\ pending \in Frames \cup {NoFrame}
  /\ stopped \in BOOLEAN
  /\ sequence \in 0 .. MaxFrame
  /\ pubPc \in {"idle", "notify"}
  /\ stopPc \in [Stoppers -> {"idle", "notify", "done"}]
  /\ waitPc \in [Waiters -> {"idle", "waiting", "woken", "returned"}]
  /\ delivered \subseteq Frames
  /\ overwritten \subseteq Frames
  /\ discarded \subseteq Frames
  /\ rejected \subseteq Frames
  /\ replacements \subseteq Frames

\* Every frame given to publish has exactly one fate: it is delivered once,
\* overwritten, thrown away by stop, refused, or still in the slot.
EveryFrameHasOneFate ==
  /\ delivered \cup overwritten \cup discarded \cup rejected \cup Pending = 1 .. sequence
  /\ delivered \cap (overwritten \cup discarded \cup rejected \cup Pending) = {}
  /\ overwritten \cap (discarded \cup rejected \cup Pending) = {}
  /\ discarded \cap (rejected \cup Pending) = {}
  /\ rejected \cap Pending = {}

\* The slot holds the newest frame or nothing, and nothing once stopped: the
\* latest-only bound on raw frames the senders document.
SlotHoldsNewest ==
  pending # NoFrame => pending = sequence /\ ~stopped

\* PublishResult::replaced tells the capture thread exactly which frames were
\* lost in the slot: frame f was overwritten iff publishing f + 1 said so.  The
\* drop counters of the telemetry are sums of these results.
ReplacementsAreReported ==
  \A f \in Frames : f \in overwritten <=> f + 1 \in replacements

\* No frame is lost unaccounted for: each has one fate, and the capture thread's
\* drop count is exactly the number of frames lost in the slot.
FramesAccountedFor == EveryFrameHasOneFate /\ ReplacementsAreReported

\* No lost wake-up: while a thread is blocked although its predicate holds,
\* somebody who will wake a thread is on the way.  For a frame that is the
\* publisher before notify_one or a thread already woken that will take the
\* frame; for stop it is the stopper before notify_all.
NoLostWakeup ==
  /\ (pending # NoFrame /\ \E w \in Waiters : waitPc[w] = "waiting") =>
        \/ pubPc = "notify"
        \/ \E w \in Waiters : waitPc[w] \in {"idle", "woken"}
  /\ (stopped /\ \E w \in Waiters : waitPc[w] = "waiting") =>
        \E s \in Stoppers : stopPc[s] = "notify"

\* Frames are delivered in order, each newer than all before it, across all the
\* threads that pop, and none after stop: not even through try_pop, which does
\* not check stopped_.
InOrder ==
  \A f \in delivered' \ delivered :
    /\ ~stopped
    /\ \A g \in delivered : g < f
    /\ f = sequence

DeliveredInOrder == [][InOrder]_vars

-------------------------------------------------------------------------------
(* Liveness *)

\* stop releases every thread blocked in wait_pop.
StopReleasesWaiters ==
  \A w \in Waiters : stopped ~> waitPc[w] = "returned"

-------------------------------------------------------------------------------
(* The hand-off implements the latest-frame cell. *)

Cell == INSTANCE LatestFrame WITH
          cell <- pending, closed <- stopped, newest <- sequence,
          taken <- delivered, lost <- overwritten \cup discarded \cup rejected

\* Every step of the hand-off is a step of the cell or invisible to it, with any
\* mix of threads popping.
ImplementsLatestFrame == Cell!SafeSpec

\* With fair renderer threads a frame left in the slot is taken: no frame is
\* stranded between the unlock, the notification and the wake-up.
ImplementsFairLatestFrame == Cell!Spec
===============================================================================
