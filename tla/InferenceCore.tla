------------------------------ MODULE InferenceCore ------------------------------
(***************************************************************************)
(* From the camera's profiles to the annotations of a frame:               *)
(* select_camera_configuration, the constructor of YoloRunner, infer_frame *)
(* and median_depth_in_color_roi, in the order every program calls them.   *)
(* The DenseBox program has its own detector and its own boxes; the rest   *)
(* is the same.                                                            *)
(*                                                                         *)
(* Detections come as coordinates in the picture, rounded toward zero;     *)
(* the projection of a grid point into the depth image, external, gives a  *)
(* raw reading, or 0 where there is none.                                  *)
(***************************************************************************)
EXTENDS CameraProfiles, YoloRunner

CONSTANTS
  Sides,       \* widths and heights of the colour picture
  Edges,       \* coordinates of the sides of detections, also outside the picture
  RoiScale,    \* DEPTH_ROI_SCALE as <<numerator, denominator>>
  Points,      \* the points of the sampling grid
  MaxRaw,      \* the largest raw reading
  DepthMin,    \* the least and the greatest raw reading of the documented range
  DepthMax

ASSUME CoreAssumption ==
  /\ Sides \subseteq Nat \ {0, 1}
  /\ Edges \subseteq Int
  /\ RoiScale \in (Nat \ {0}) \X (Nat \ {0}) /\ RoiScale[1] <= RoiScale[2]
  /\ IsFiniteSet(Points)
  /\ MaxRaw \in Nat /\ DepthMin \in Nat /\ DepthMax \in Nat

VARIABLES
  program,   \* "yolov26" or "densebox"
  step,      \* "idle", or what the frame has got to: "image", "input", "output", "decoded",
             \* "detections", "roi", "measured", or "failed"
  cols,      \* image.cols
  rows,      \* image.rows
  letterbox, \* the borders copyMakeBorder adds
  scores,    \* the class outputs the runner has left in its buffers
  threshold, \* options.confidence_threshold
  todo,      \* detections, from the one to be looked at next
  box,       \* the detection being annotated, clamped: x, y, width, height
  roi,       \* its depth region: from x1, y1 to x2, y2, clamped
  readings,  \* the raw reading at each point of the grid, 0 where it is dropped
  distance   \* the annotation's distance, in raw units; 0 is N/A

frame == <<step, cols, rows, letterbox, scores, threshold, todo, box, roi, readings, distance>>
vars == <<selection, runner, program, frame>>

NoBorder == [left |-> 0, right |-> 0, top |-> 0, bottom |-> 0]
NoBox == [x |-> 0, y |-> 0, width |-> 0, height |-> 0]
NoRoi == [x1 |-> 0, y1 |-> 0, x2 |-> 0, y2 |-> 0]
NoReadings == [p \in Points |-> 0]

Init ==
  /\ InitSelection /\ InitRunner
  /\ program \in {"yolov26", "densebox"}
  /\ step = "idle" /\ cols = 0 /\ rows = 0 /\ letterbox = NoBorder
  /\ scores = <<>> /\ threshold = <<"none">> /\ todo = <<>>
  /\ box = NoBox /\ roi = NoRoi /\ readings = NoReadings /\ distance = 0

-------------------------------------------------------------------------------
(* Setting up *)

SelectCamera ==
  /\ Select
  /\ UNCHANGED <<runner, program, frame>>

UseSelection ==
  /\ SelectionReturns
  /\ UNCHANGED <<runner, program, frame>>

CreateDetector ==
  /\ camera = "returned" /\ step = "idle"
  /\ IF program = "yolov26" THEN Construct ELSE ModelUnusable
  /\ UNCHANGED <<selection, program, frame>>

\* The stream starts; what only the constructor looked at is gone.
StartStream ==
  /\ camera = "returned" /\ step = "idle"
  /\ IF program = "yolov26" THEN model = "ready" ELSE model = "none"
  /\ model' = "none" /\ outputs' = <<>> /\ checked' = 0 /\ groups' = <<>> /\ levels' = <<>>
  /\ cols' \in Sides /\ rows' \in Sides
  /\ step' = "image"
  /\ UNCHANGED <<selection, program, letterbox, scores, threshold, todo, box, roi, readings,
                 distance>>

-------------------------------------------------------------------------------
(* infer_frame, up to the detections *)

Fails ==
  /\ step' = "failed"
  /\ UNCHANGED <<selection, runner, program, cols, rows, letterbox, scores, threshold, todo, box,
                 roi, readings, distance>>

\* cvtColor, resize and copyMakeBorder; then the input buffer may be too small.
Preprocess ==
  /\ step = "image" /\ program = "yolov26"
  /\ letterbox' = Letterbox(cols, rows)
  /\ step' = "input"
  /\ UNCHANGED <<selection, runner, program, cols, rows, scores, threshold, todo, box, roi,
                 readings, distance>>

PreprocessFails == step = "input" /\ Fails

Execute ==
  /\ step = "input"
  /\ scores' \in [Cells -> [Classes -> Outputs]] /\ threshold' \in Thresholds
  /\ letterbox' = NoBorder
  /\ step' = "output"
  /\ UNCHANGED <<selection, runner, program, cols, rows, todo, box, roi, readings, distance>>

ExecuteFails == step = "input" /\ Fails

Decode ==
  /\ step = "output"
  /\ todo' = Decoded(scores, threshold)
  /\ step' = "decoded"
  /\ UNCHANGED <<selection, runner, program, cols, rows, letterbox, scores, threshold, box, roi,
                 readings, distance>>

\* Nothing after decode looks at the buffers or the threshold.
UseDetections ==
  /\ step = "decoded"
  /\ scores' = <<>> /\ threshold' = <<"none">>
  /\ step' = "detections"
  /\ UNCHANGED <<selection, runner, program, cols, rows, letterbox, todo, box, roi, readings,
                 distance>>

\* The DenseBox detector returns any faces.
DetectFaces ==
  /\ step = "image" /\ program = "densebox"
  /\ todo' \in {<<>>} \cup {<<c>> : c \in Cells} \cup (Cells \X Cells)
  /\ step' = "detections"
  /\ UNCHANGED <<selection, runner, program, cols, rows, letterbox, scores, threshold, box, roi,
                 readings, distance>>

-------------------------------------------------------------------------------
(* The annotation of a detection *)

Clamp(v, low, high) == IF v < low THEN low ELSE IF v > high THEN high ELSE v
Lesser(a, b) == IF a < b THEN a ELSE b
Greater(a, b) == IF a < b THEN b ELSE a

\* Both corners are clamped; the far ones may lie on the border.
YoloBox(x1, y1, x2, y2) ==
  LET x == Clamp(x1, 0, cols - 1)
      y == Clamp(y1, 0, rows - 1)
  IN [x |-> x, y |-> y, width |-> Clamp(x2, 0, cols) - x, height |-> Clamp(y2, 0, rows) - y]

\* One corner is clamped and the size cut.
FaceBox(x1, y1, w, h) ==
  LET x == Clamp(x1, 0, cols - 1)
      y == Clamp(y1, 0, rows - 1)
  IN [x |-> x, y |-> y, width |-> Lesser(w, cols - x), height |-> Lesser(h, rows - y)]

\* MUTANT of HalfRoi: a small region is not widened.
HalfRoiUnwidened(length) == ((length * RoiScale[1]) \div RoiScale[2]) \div 2

HalfRoi(length) == Greater(2, (length * RoiScale[1]) \div RoiScale[2]) \div 2

\* The middle of the box, clamped by median_depth_in_color_roi.
DepthRoi(b) ==
  LET cx == b.x + b.width \div 2
      cy == b.y + b.height \div 2
  IN [x1 |-> Clamp(cx - HalfRoi(b.width), 0, cols - 1),
      y1 |-> Clamp(cy - HalfRoi(b.height), 0, rows - 1),
      x2 |-> Clamp(cx + HalfRoi(b.width), 0, cols - 1),
      y2 |-> Clamp(cy + HalfRoi(b.height), 0, rows - 1)]

\* Coordinates that are not finite, or no int; or nothing of the box in the picture.
Skip ==
  /\ step = "detections" /\ todo # <<>>
  /\ todo' = Tail(todo)
  /\ UNCHANGED <<selection, runner, program, step, cols, rows, letterbox, scores, threshold, box,
                 roi, readings, distance>>

Annotate ==
  /\ step = "detections" /\ todo # <<>>
  /\ todo' = Tail(todo)
  /\ \E a, b, e, f \in Edges :
       box' = IF program = "yolov26" THEN YoloBox(a, b, e, f) ELSE FaceBox(a, b, e, f)
  /\ box'.width > 0 /\ box'.height > 0
  /\ roi' = DepthRoi(box')
  /\ step' = "roi"
  /\ UNCHANGED <<selection, runner, program, cols, rows, letterbox, scores, threshold, readings,
                 distance>>

\* r is the reading at each point.
Kept(r) == {p \in Points : r[p] # 0}
Below(r, v) == {p \in Kept(r) : r[p] < v}
UpTo(r, v) == {p \in Kept(r) : r[p] <= v}

\* MUTANT of IsMedian: the middle is that of the whole array, which starts as zeros.
IsMedianOfArray(r, v) ==
  /\ \E p \in Points : r[p] = v
  /\ Cardinality({p \in Points : r[p] < v}) <= Cardinality(Points) \div 2
  /\ Cardinality({p \in Points : r[p] <= v}) > Cardinality(Points) \div 2

\* What nth_element leaves at value_count / 2.
IsMedian(r, v) ==
  /\ \E p \in Kept(r) : r[p] = v
  /\ Cardinality(Below(r, v)) <= Cardinality(Kept(r)) \div 2
  /\ Cardinality(UpTo(r, v)) > Cardinality(Kept(r)) \div 2

\* An empty region, or a depth image of another size, has no distance.
Measure ==
  /\ step = "roi"
  /\ \/ /\ roi.x1 < roi.x2 /\ roi.y1 < roi.y2
        /\ readings' \in [Points -> 0..MaxRaw]
        /\ \/ Kept(readings') = {} /\ distance' = 0
           \/ \E v \in 0..MaxRaw : IsMedian(readings', v) /\ distance' = v
     \/ readings' = NoReadings /\ distance' = 0
  /\ step' = "measured"
  /\ UNCHANGED <<selection, runner, program, cols, rows, letterbox, scores, threshold, todo, box,
                 roi>>

\* The annotation is in the packet; nothing in the loop refers to it again.
PushAnnotation ==
  /\ step = "measured"
  /\ step' = "detections"
  /\ box' = NoBox /\ roi' = NoRoi /\ readings' = NoReadings /\ distance' = 0
  /\ UNCHANGED <<selection, runner, program, cols, rows, letterbox, scores, threshold, todo>>

\* The packet is complete; with the next frame everything starts anew.
NextFrame ==
  /\ step = "detections" /\ todo = <<>>
  /\ step' = "image"
  /\ UNCHANGED <<selection, runner, program, cols, rows, letterbox, scores, threshold, todo, box,
                 roi, readings, distance>>

Infer ==
  \/ Preprocess \/ PreprocessFails \/ Execute \/ ExecuteFails \/ Decode \/ UseDetections
  \/ DetectFaces \/ Skip \/ Annotate \/ Measure \/ PushAnnotation \/ NextFrame

Done ==
  /\ camera = "unavailable" \/ model \in {"rejected", "failed"} \/ step = "failed"
  /\ UNCHANGED vars

Next == SelectCamera \/ UseSelection \/ CreateDetector \/ StartStream \/ Infer \/ Done

Spec == Init /\ [][Next]_vars

-------------------------------------------------------------------------------
\* Types of the frame's variables.
FrameTypeOK ==
  /\ program \in {"yolov26", "densebox"}
  /\ step \in {"idle", "image", "input", "output", "decoded", "detections", "roi",
              "measured", "failed"}
  /\ cols \in Sides \cup {0} /\ rows \in Sides \cup {0} /\ (step # "idle" => cols # 0 /\ rows # 0)
  /\ box \in [x : Nat, y : Nat, width : Nat, height : Nat]
  /\ roi \in [x1 : Nat, y1 : Nat, x2 : Nat, y2 : Nat]
  /\ readings \in [Points -> 0..MaxRaw] /\ distance \in 0..MaxRaw

(* The picture and its borders fill the model's input exactly, whatever the two sizes: the
   check in preprocess never fails. *)
LetterboxFits ==
  step = "input" =>
    /\ letterbox.left >= 0 /\ letterbox.top >= 0
    /\ ResizedWidth(cols, rows) + letterbox.left + letterbox.right = ModelWidth
    /\ ResizedHeight(cols, rows) + letterbox.top + letterbox.bottom = ModelHeight

(* At most max_detections are kept, of those over the threshold, best first, and none of the
   others would have a better score, in whatever class and level. *)
KeepsTheBest ==
  step = "decoded" =>
    LET kept == {todo[i] : i \in 1..Len(todo)}
        Beats(d, c) == \E k \in Classes : /\ scores[d][k] * ClassScale[d[1]] > Scaled(c, scores[c])
                                         /\ Scaled(c, scores[c]) < Saturated
    IN /\ Len(todo) <= MaxDetections /\ Cardinality(kept) = Len(todo)
       /\ \A c \in kept : Passes(c, scores[c], threshold)
       /\ \A d \in Cells \ kept : Passes(d, scores[d], threshold) =>
            Len(todo) = MaxDetections /\ \A c \in kept : ~Beats(d, c)
       /\ \A i, j \in 1..Len(todo) : i < j => ~Beats(todo[j], todo[i])

(* A box in the picture, however small and wherever it is, has a depth region of some size in
   it, so N/A means that no point of it had a reading, or that the depth image has another size. *)
RoiIsNeverEmpty ==
  step = "roi" =>
    /\ box.x + box.width <= cols /\ box.y + box.height <= rows
    /\ roi.x1 < roi.x2 /\ roi.x2 < cols /\ roi.y1 < roi.y2 /\ roi.y2 < rows

(* Holes and a minority of background points cannot pull the distance: it lies in every range
   that holds more than half of the readings. *)
DistanceIsRobust ==
  step = "measured" =>
    /\ distance = 0 <=> Kept(readings) = {}
    /\ \A low, high \in 0..MaxRaw :
         2 * Cardinality({p \in Kept(readings) : readings[p] \in low..high})
             > Cardinality(Kept(readings)) =>
           distance \in low..high

\* What the architecture notes say: readings out of the range of the search are dropped.
ReadingsInRange ==
  step = "measured" => \A p \in Kept(readings) : readings[p] \in DepthMin..DepthMax

===============================================================================
