----------------------- MODULE LatestFrameHandoff_proofs -----------------------
(***************************************************************************)
(* Proofs about LatestFrameHandoff, for any number of threads of each kind *)
(* and any number of frames.                                               *)
(***************************************************************************)
EXTENDS LatestFrameHandoff, TLAPS

\* The inductive invariant: where frames are, what the slot may hold, and that
\* every overwritten frame was reported.  Each part needs the previous ones.
Inv ==
  /\ TypeOK
  /\ EveryFrameHasOneFate
  /\ SlotHoldsNewest
  /\ ReplacementsAreReported

\* The invariant holds at first.
LEMMA InitInv == Init => Inv
<1> USE HandoffAssumption
<1> SUFFICES ASSUME Init PROVE Inv
  OBVIOUS
<1>1. TypeOK
  <2>1. stopPc \in [Stoppers -> {"idle", "notify", "done"}]
    BY DEF Init
  <2>2. waitPc \in [Waiters -> {"idle", "waiting", "woken", "returned"}]
    BY DEF Init
  <2>3. sequence \in 0 .. MaxFrame
    BY DEF Init, HandoffAssumption
  <2> QED BY <2>1, <2>2, <2>3 DEF Init, TypeOK
<1>2. EveryFrameHasOneFate
  BY DEF Init, EveryFrameHasOneFate, Pending, NoFrame
<1>3. SlotHoldsNewest /\ ReplacementsAreReported
  BY DEF Init, SlotHoldsNewest, ReplacementsAreReported, NoFrame
<1> QED BY <1>1, <1>2, <1>3 DEF Inv

\* Steps that move no frame and leave stopped_ and the counters alone.
LEMMA QuietStep ==
  ASSUME Inv, TypeOK', UNCHANGED <<slot, sequence, fates>>
  PROVE  Inv'
BY DEF Inv, EveryFrameHasOneFate, SlotHoldsNewest, ReplacementsAreReported,
       Pending, slot, fates

\* A frame is moved out of the slot, by wait_pop or by try_pop.
LEMMA PopStep ==
  ASSUME Inv, TypeOK', pending # NoFrame,
         delivered' = delivered \cup {pending}, pending' = NoFrame,
         UNCHANGED <<stopped, sequence, overwritten, discarded, rejected, replacements>>
  PROVE  Inv'
BY DEF Inv, EveryFrameHasOneFate, SlotHoldsNewest, ReplacementsAreReported, Pending

\* Each step keeps the invariant.
LEMMA StepInv == Inv /\ [Next]_vars => Inv'
<1> USE HandoffAssumption
<1> SUFFICES ASSUME Inv, [Next]_vars PROVE Inv'
  OBVIOUS
<1> USE DEF Inv
<1>1. CASE Publish
  <2>1. TypeOK'
    BY <1>1 DEF TypeOK, Publish, Frames, NoFrame, Pending
  <2>2. EveryFrameHasOneFate'
    <3>1. 1 .. sequence' = (1 .. sequence) \cup {sequence + 1}
      BY <1>1 DEF TypeOK, Publish
    <3>2. sequence + 1 \notin 1 .. sequence /\ sequence + 1 # NoFrame
      BY DEF TypeOK, NoFrame
    <3>3. Pending' = {sequence + 1}
      BY <1>1, <3>2 DEF Publish, Pending
    <3> QED
      BY <1>1, <3>1, <3>2, <3>3 DEF Publish, EveryFrameHasOneFate
  <2>3. SlotHoldsNewest'
    BY <1>1 DEF Publish, SlotHoldsNewest, TypeOK
  <2>4. ReplacementsAreReported'
    <3> SUFFICES ASSUME NEW f \in Frames
                 PROVE  (f \in overwritten <=> f + 1 \in replacements)'
      BY DEF ReplacementsAreReported
    <3>1. f \in overwritten <=> f + 1 \in replacements
      BY DEF ReplacementsAreReported
    <3>2. CASE pending = NoFrame
      <4>1. replacements' = replacements /\ overwritten' = overwritten
        BY <1>1, <3>2 DEF Publish, Pending
      <4> QED BY <3>1, <4>1
    <3>3. CASE pending # NoFrame
      <4>1. pending = sequence
        BY <3>3 DEF SlotHoldsNewest
      <4>2. /\ overwritten' = overwritten \cup {sequence}
            /\ replacements' = replacements \cup {sequence + 1}
        BY <1>1, <3>3, <4>1 DEF Publish, Pending
      <4>3. f + 1 = sequence + 1 <=> f = sequence
        BY DEF TypeOK, Frames
      <4> QED BY <3>1, <4>2, <4>3
    <3> QED BY <3>2, <3>3
  <2> QED BY <2>1, <2>2, <2>3, <2>4
<1>2. CASE PublishRefused
  <2>1. TypeOK'
    BY <1>2 DEF TypeOK, PublishRefused, Frames, slot
  <2>2. EveryFrameHasOneFate'
    <3>1. 1 .. sequence' = (1 .. sequence) \cup {sequence + 1}
      BY <1>2 DEF TypeOK, PublishRefused
    <3>2. sequence + 1 \notin 1 .. sequence
      BY DEF TypeOK
    <3>3. Pending' = Pending
      BY <1>2 DEF PublishRefused, Pending, slot
    <3> QED
      BY <1>2, <3>1, <3>2, <3>3 DEF PublishRefused, EveryFrameHasOneFate
  <2>3. SlotHoldsNewest' /\ ReplacementsAreReported'
    BY <1>2 DEF PublishRefused, SlotHoldsNewest, ReplacementsAreReported, slot
  <2> QED BY <2>1, <2>2, <2>3
<1>3. CASE NotifyOne
  <2>1. TypeOK'
    BY <1>3 DEF TypeOK, NotifyOne, slot, fates
  <2> QED BY <1>3, <2>1, QuietStep DEF NotifyOne
<1>4. ASSUME NEW w \in Waiters, Block(w) PROVE Inv'
  <2>1. TypeOK'
    BY <1>4 DEF TypeOK, Block, slot, fates
  <2> QED BY <1>4, <2>1, QuietStep DEF Block
<1>5. ASSUME NEW w \in Waiters, WaitPop(w) PROVE Inv'
  <2>1. TypeOK'
    BY <1>5 DEF TypeOK, WaitPop
  <2> QED BY <1>5, <2>1, PopStep DEF WaitPop
<1>6. ASSUME NEW w \in Waiters, WaitPopStopped(w) PROVE Inv'
  <2>1. TypeOK'
    BY <1>6 DEF TypeOK, WaitPopStopped, slot, fates
  <2> QED BY <1>6, <2>1, QuietStep DEF WaitPopStopped
<1>7. ASSUME NEW w \in Waiters, SpuriousWakeup(w) PROVE Inv'
  <2>1. TypeOK'
    BY <1>7 DEF TypeOK, SpuriousWakeup, slot, fates
  <2> QED BY <1>7, <2>1, QuietStep DEF SpuriousWakeup
<1>8. ASSUME NEW p \in Pollers, TryPop(p) PROVE Inv'
  <2>1. TypeOK'
    BY <1>8 DEF TypeOK, TryPop
  <2> QED BY <1>8, <2>1, PopStep DEF TryPop
<1>9. ASSUME NEW s \in Stoppers, Stop(s) PROVE Inv'
  <2>1. TypeOK'
    BY <1>9 DEF TypeOK, Stop, Pending
  <2>2. EveryFrameHasOneFate' /\ SlotHoldsNewest' /\ ReplacementsAreReported'
    BY <1>9 DEF Stop, EveryFrameHasOneFate, SlotHoldsNewest,
                ReplacementsAreReported, Pending
  <2> QED BY <2>1, <2>2
<1>10. ASSUME NEW s \in Stoppers, NotifyAll(s) PROVE Inv'
  <2>1. TypeOK'
    BY <1>10 DEF TypeOK, NotifyAll, slot, fates
  <2> QED BY <1>10, <2>1, QuietStep DEF NotifyAll
<1>11. CASE UNCHANGED vars
  <2>1. TypeOK'
    BY <1>11 DEF TypeOK, vars, slot, fates
  <2> QED BY <1>11, <2>1, QuietStep DEF vars
<1> QED
  BY <1>1, <1>2, <1>3, <1>4, <1>5, <1>6, <1>7, <1>8, <1>9, <1>10, <1>11
     DEF Next, Waiter

\* The invariant always holds.
LEMMA InvAlways == SafeSpec => []Inv
BY InitInv, StepInv, PTL DEF SafeSpec

\* The state of the hand-off always has the types the class declares.
THEOREM TypeCorrect == SafeSpec => []TypeOK
<1>1. Inv => TypeOK
  BY DEF Inv
<1> QED BY <1>1, InvAlways, PTL

\* No frame given to publish is lost unaccounted for, delivered twice, or both
\* delivered and reported as dropped.
THEOREM FrameAccounting == SafeSpec => []EveryFrameHasOneFate
<1>1. Inv => EveryFrameHasOneFate
  BY DEF Inv
<1> QED BY <1>1, InvAlways, PTL

\* The slot is never more than one frame deep and never behind the newest frame.
THEOREM LatestOnly == SafeSpec => []SlotHoldsNewest
<1>1. Inv => SlotHoldsNewest
  BY DEF Inv
<1> QED BY <1>1, InvAlways, PTL

\* The capture thread's count of replaced frames is the number of frames lost in
\* the slot.
THEOREM DropReports == SafeSpec => []ReplacementsAreReported
<1>1. Inv => ReplacementsAreReported
  BY DEF Inv
<1> QED BY <1>1, InvAlways, PTL

-------------------------------------------------------------------------------
\* A blocked thread whose predicate holds has somebody on the way to wake it:
\* the unlock-then-notify order of publish and stop loses no wake-up.
LEMMA WakeupStep == Inv /\ NoLostWakeup /\ [Next]_vars => NoLostWakeup'
<1> SUFFICES ASSUME Inv, NoLostWakeup, [Next]_vars PROVE NoLostWakeup'
  OBVIOUS
<1> USE DEF NoLostWakeup
<1>0. TypeOK /\ (stopped => pending = NoFrame)
  BY DEF Inv, SlotHoldsNewest
<1>1. CASE Publish
  BY <1>1 DEF Publish
<1>2. CASE PublishRefused
  BY <1>2 DEF PublishRefused, slot
<1>3. CASE NotifyOne
  <2>1. CASE \E w \in Waiters : /\ waitPc[w] = "waiting"
                                /\ waitPc' = [waitPc EXCEPT ![w] = "woken"]
    <3>1. PICK w \in Waiters : waitPc' = [waitPc EXCEPT ![w] = "woken"]
      BY <2>1
    <3>2. waitPc'[w] = "woken"
      BY <1>0, <3>1 DEF TypeOK
    <3>3. \A v \in Waiters : waitPc'[v] = "waiting" => waitPc[v] = "waiting"
      BY <1>0, <3>1 DEF TypeOK
    <3> QED BY <1>3, <3>2, <3>3 DEF NotifyOne, slot
  <2>2. CASE \A w \in Waiters : waitPc[w] # "waiting"
    BY <1>3, <2>2 DEF NotifyOne, slot
  <2> QED BY <1>3, <2>1, <2>2 DEF NotifyOne
<1>4. ASSUME NEW w \in Waiters, Block(w) PROVE NoLostWakeup'
  BY <1>4 DEF Block, slot
<1>5. ASSUME NEW w \in Waiters, WaitPop(w) PROVE NoLostWakeup'
  BY <1>5 DEF WaitPop
<1>6. ASSUME NEW w \in Waiters, WaitPopStopped(w) PROVE NoLostWakeup'
  <2>1. \A v \in Waiters : waitPc'[v] = "waiting" => waitPc[v] = "waiting"
    BY <1>0, <1>6 DEF WaitPopStopped, TypeOK
  <2> QED BY <1>0, <1>6, <2>1 DEF WaitPopStopped, slot
<1>7. ASSUME NEW w \in Waiters, SpuriousWakeup(w) PROVE NoLostWakeup'
  <2>1. /\ waitPc'[w] = "woken"
        /\ \A v \in Waiters : waitPc'[v] = "waiting" => waitPc[v] = "waiting"
    BY <1>0, <1>7 DEF SpuriousWakeup, TypeOK
  <2> QED BY <1>7, <2>1 DEF SpuriousWakeup, slot
<1>8. ASSUME NEW p \in Pollers, TryPop(p) PROVE NoLostWakeup'
  BY <1>8 DEF TryPop
<1>9. ASSUME NEW s \in Stoppers, Stop(s) PROVE NoLostWakeup'
  <2>1. stopPc'[s] = "notify"
    BY <1>0, <1>9 DEF Stop, TypeOK
  <2> QED BY <1>9, <2>1 DEF Stop
<1>10. ASSUME NEW s \in Stoppers, NotifyAll(s) PROVE NoLostWakeup'
  <2>1. \A w \in Waiters : waitPc'[w] # "waiting"
    BY <1>10 DEF NotifyAll
  <2> QED BY <2>1
<1>11. CASE UNCHANGED vars
  BY <1>11 DEF vars, slot
<1> QED
  BY <1>1, <1>2, <1>3, <1>4, <1>5, <1>6, <1>7, <1>8, <1>9, <1>10, <1>11
     DEF Next, Waiter

\* No wake-up of publish or stop is lost, for any number of waiting threads.
THEOREM NoWakeupIsLost == SafeSpec => []NoLostWakeup
<1>1. Init => NoLostWakeup
  BY DEF Init, NoLostWakeup
<1> QED BY <1>1, InvAlways, WakeupStep, PTL DEF SafeSpec

\* Frames reach the display in capture order, each the newest at that moment,
\* and none after stop.
THEOREM OrderedDelivery == SafeSpec => DeliveredInOrder
<1>1. Inv /\ [Next]_vars => [InOrder]_vars
  <2> SUFFICES ASSUME Inv, [Next]_vars, NEW f \in delivered' \ delivered
               PROVE  ~stopped /\ (\A g \in delivered : g < f) /\ f = sequence
    BY DEF InOrder
  <2>1. f = pending /\ pending # NoFrame
    BY DEF Next, Publish, PublishRefused, NotifyOne, Waiter, Block, WaitPop,
           WaitPopStopped, SpuriousWakeup, TryPop, Stop, NotifyAll, vars, slot, fates
  <2>2. f = sequence /\ ~stopped
    BY <2>1 DEF Inv, SlotHoldsNewest
  <2>3. ASSUME NEW g \in delivered PROVE g < f
    <3>1. g \in 1 .. sequence
      BY DEF Inv, EveryFrameHasOneFate
    <3> QED BY <2>2, <3>1 DEF Inv, TypeOK
  <2> QED BY <2>2, <2>3
<1> QED BY <1>1, InvAlways, PTL DEF SafeSpec, DeliveredInOrder

-------------------------------------------------------------------------------
\* The hand-off implements the latest-frame cell: each locked section is a step
\* of the cell, everything around it leaves the cell alone.
THEOREM Refinement == SafeSpec => ImplementsLatestFrame
<1> USE DEF Cell!Empty, NoFrame
<1>1. Init => Cell!Init
  BY DEF Init, Cell!Init
<1>2. Inv /\ [Next]_vars => [Cell!Next]_(Cell!abstractVars)
  <2> SUFFICES ASSUME Inv, [Next]_vars
               PROVE  [Cell!Next]_(Cell!abstractVars)
    OBVIOUS
  <2>0. /\ pending # NoFrame => ~stopped
        /\ stopped => Pending = {}
    BY DEF Inv, SlotHoldsNewest, Pending
  <2>1. CASE Publish
    BY <2>1 DEF Publish, Cell!Next, Cell!Offer, Cell!Abandon, Pending
  <2>2. CASE PublishRefused
    BY <2>2 DEF PublishRefused, slot, Cell!Next, Cell!Refuse
  <2>3. ASSUME NEW w \in Waiters, WaitPop(w) PROVE Cell!Next
    BY <2>3 DEF WaitPop, Cell!Next, Cell!Take
  <2>4. ASSUME NEW p \in Pollers, TryPop(p) PROVE Cell!Next
    BY <2>4 DEF TryPop, Cell!Next, Cell!Take
  <2>5. ASSUME NEW s \in Stoppers, Stop(s) PROVE Cell!Next
    BY <2>5 DEF Stop, Pending, Cell!Next, Cell!Close, Cell!Abandon
  <2>6. ASSUME UNCHANGED <<slot, sequence, fates>> PROVE UNCHANGED Cell!abstractVars
    BY <2>6 DEF slot, fates, Cell!abstractVars
  <2>7. CASE NotifyOne
    BY <2>6, <2>7 DEF NotifyOne
  <2>8. ASSUME NEW w \in Waiters, Block(w) \/ WaitPopStopped(w) \/ SpuriousWakeup(w)
        PROVE  UNCHANGED Cell!abstractVars
    BY <2>6, <2>8 DEF Block, WaitPopStopped, SpuriousWakeup
  <2>9. ASSUME NEW s \in Stoppers, NotifyAll(s) PROVE UNCHANGED Cell!abstractVars
    BY <2>6, <2>9 DEF NotifyAll
  <2>10. CASE UNCHANGED vars
    BY <2>6, <2>10 DEF vars
  <2> QED
    BY <2>1, <2>2, <2>3, <2>4, <2>5, <2>7, <2>8, <2>9, <2>10 DEF Next, Waiter
<1> QED
  BY <1>1, <1>2, InvAlways, PTL DEF SafeSpec, ImplementsLatestFrame, Cell!SafeSpec

\* Every frame published is accounted for once and its loss in the slot reported.
THEOREM FramesAreAccountedFor == SafeSpec => []FramesAccountedFor
<1>1. EveryFrameHasOneFate /\ ReplacementsAreReported => FramesAccountedFor
  BY DEF FramesAccountedFor
<1> QED BY <1>1, FrameAccounting, DropReports, PTL
===============================================================================
