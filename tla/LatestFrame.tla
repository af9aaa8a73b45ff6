----------------------------- MODULE LatestFrame -----------------------------
(***************************************************************************)
(* What the hand-off between the capture thread and the display thread     *)
(* promises, without saying how: a cell that holds the newest frame        *)
(* offered and nothing else.  An offer replaces whatever the cell still    *)
(* holds, a take empties it, and closing it empties it for good.           *)
(* LatestFrameHandoff implements this specification with a mutex and a     *)
(* condition variable.                                                     *)
(***************************************************************************)
EXTENDS Naturals

CONSTANTS MaxFrame   \* the number of frames the capture side ever offers

Empty == 0           \* no frame: frames are numbered from 1

VARIABLES
  cell,      \* the frame on offer, or Empty
  closed,    \* no frame is accepted or delivered any more
  newest,    \* the last frame offered, accepted or not
  taken,     \* frames delivered to a display
  lost       \* frames offered and never delivered

abstractVars == <<cell, closed, newest, taken, lost>>

Init ==
  /\ cell = Empty
  /\ closed = FALSE
  /\ newest = 0
  /\ taken = {}
  /\ lost = {}

\* Whatever was in the cell is gone without having been taken.
Abandon == lost \cup ({cell} \ {Empty})

Offer ==
  /\ newest < MaxFrame
  /\ ~closed
  /\ newest' = newest + 1
  /\ cell' = newest + 1
  /\ lost' = Abandon
  /\ UNCHANGED <<closed, taken>>

Refuse ==
  /\ newest < MaxFrame
  /\ closed
  /\ newest' = newest + 1
  /\ lost' = lost \cup {newest + 1}
  /\ UNCHANGED <<cell, closed, taken>>

Take ==
  /\ cell # Empty
  /\ taken' = taken \cup {cell}
  /\ cell' = Empty
  /\ UNCHANGED <<closed, newest, lost>>

Close ==
  /\ closed' = TRUE
  /\ cell' = Empty
  /\ lost' = Abandon
  /\ UNCHANGED <<newest, taken>>

Next == Offer \/ Refuse \/ Take \/ Close

SafeSpec == Init /\ [][Next]_abstractVars

\* A frame left alone in the cell is taken.
Spec == SafeSpec /\ WF_abstractVars(Take)
==============================================================================
