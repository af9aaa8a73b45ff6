----------------------------- MODULE CameraProfiles -----------------------------
(***************************************************************************)
(* select_camera_configuration: one pass over the profiles of the camera   *)
(* for the colour stream and one for the depth stream, in whatever order   *)
(* librealsense lists them.                                                *)
(*                                                                         *)
(* A profile is a record: its stream, whether it "fits" (colour: native    *)
(* format, default size and rate; depth: Z16 at the colour rate), width    *)
(* and height.                                                             *)
(***************************************************************************)
EXTENDS Integers

CONSTANTS
  Profiles,  \* the profiles a camera may offer
  Requests   \* the depth sizes asked for; NoSize asks for the lowest

NoSize == [width |-> 0, height |-> 0]

ASSUME ProfilesAssumption ==
  /\ Profiles \subseteq
       [stream : {"color", "depth"}, fits : BOOLEAN, width : Nat \ {0}, height : Nat \ {0}]
  /\ Requests \subseteq [width : Nat, height : Nat]

VARIABLES
  camera,     \* "color" and "depth" while selecting, then "selected", "unavailable" or "returned"
  requested,  \* options.depth_width, options.depth_height
  offered,    \* the profiles of the device
  unseen,     \* those the present pass has not come to
  colorFound, \* color_found
  depthFound, \* depth_found
  depth       \* selected.depth

selection == <<camera, requested, offered, unseen, colorFound, depthFound, depth>>

NoDepth == [stream |-> "depth", fits |-> FALSE, width |-> 0, height |-> 0]

InitSelection ==
  /\ camera = "color"
  /\ requested \in Requests /\ offered \in SUBSET Profiles
  /\ unseen = offered
  /\ colorFound = FALSE /\ depthFound = FALSE /\ depth = NoDepth

-------------------------------------------------------------------------------
Pixels(p) == p.width * p.height

IsLowerResolution(p, q) ==
  \/ Pixels(p) < Pixels(q)
  \/ Pixels(p) = Pixels(q) /\ p.width < q.width
  \/ Pixels(p) = Pixels(q) /\ p.width = q.width /\ p.height < q.height

Fits(p, stream) == p.stream = stream /\ p.fits

Wanted(p) ==
  /\ Fits(p, "depth")
  /\ requested.width # 0 => p.width = requested.width /\ p.height = requested.height

VisitColor(p) ==
  /\ camera = "color" /\ p \in unseen
  /\ unseen' = unseen \ {p}
  /\ colorFound' = (colorFound \/ Fits(p, "color"))
  /\ UNCHANGED <<camera, requested, offered, depthFound, depth>>

EndColor ==
  /\ camera = "color" /\ unseen = {}
  /\ camera' = IF colorFound THEN "depth" ELSE "unavailable"
  /\ unseen' = offered
  /\ UNCHANGED <<requested, offered, colorFound, depthFound, depth>>

\* MUTANT of VisitDepth: a request takes the place of the comparison.
VisitDepthKeepsFirst(p) ==
  /\ camera = "depth" /\ p \in unseen
  /\ unseen' = unseen \ {p}
  /\ IF Wanted(p) /\ (~depthFound \/ requested.width # 0)
     THEN depth' = p /\ depthFound' = TRUE
     ELSE UNCHANGED <<depth, depthFound>>
  /\ UNCHANGED <<camera, requested, offered, colorFound>>

VisitDepth(p) ==
  /\ camera = "depth" /\ p \in unseen
  /\ unseen' = unseen \ {p}
  /\ IF Wanted(p) /\ (~depthFound \/ (requested.width = 0 /\ IsLowerResolution(p, depth)))
     THEN depth' = p /\ depthFound' = TRUE
     ELSE UNCHANGED <<depth, depthFound>>
  /\ UNCHANGED <<camera, requested, offered, colorFound>>

EndDepth ==
  /\ camera = "depth" /\ unseen = {}
  /\ camera' = IF depthFound THEN "selected" ELSE "unavailable"
  /\ UNCHANGED <<requested, offered, unseen, colorFound, depthFound, depth>>

\* The locals of the function are gone; its result makes no difference to what follows.
SelectionReturns ==
  /\ camera = "selected"
  /\ camera' = "returned"
  /\ requested' = NoSize /\ offered' = {} /\ unseen' = {}
  /\ colorFound' = FALSE /\ depthFound' = FALSE /\ depth' = NoDepth

Select ==
  \/ EndColor \/ EndDepth
  \/ \E p \in Profiles : VisitColor(p) \/ VisitDepth(p)

-------------------------------------------------------------------------------
\* Types of the selection.
SelectionTypeOK ==
  /\ camera \in {"color", "depth", "selected", "unavailable", "returned"}
  /\ requested \in Requests \cup {NoSize}
  /\ offered \subseteq Profiles /\ unseen \subseteq offered
  /\ colorFound \in BOOLEAN /\ depthFound \in BOOLEAN
  /\ depth \in Profiles \cup {NoDepth}

(* In whatever order the profiles come, the depth profile is the lowest of those that match
   the colour rate and the request, and the program gives up only if none does or the colour
   profile is missing. *)
LowestProfile ==
  LET matching == {p \in offered : Wanted(p)} IN
  /\ camera = "selected" =>
       depth \in matching /\ \A p \in matching : p = depth \/ IsLowerResolution(depth, p)
  /\ camera = "unavailable" =>
       matching = {} \/ \A p \in offered : ~Fits(p, "color")

===============================================================================
