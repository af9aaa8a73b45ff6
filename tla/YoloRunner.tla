------------------------------- MODULE YoloRunner -------------------------------
(***************************************************************************)
(* YoloRunner: the tensors of a model are paired by their spatial shape    *)
(* and checked against the strides; a frame is fitted into the input; the  *)
(* cells of the levels become detections, best first.                      *)
(*                                                                         *)
(* The runtime and the model file are external.  A tensor is a record: is  *)
(* it an INT8 batch-one tensor with a fix point ("wellFormed"), its height *)
(* and width, and whether its channels are those of a box or of the        *)
(* classes.  Scores are ordered as the scaled class outputs are, up to     *)
(* where the logistic function is 1 in single precision.                   *)
(***************************************************************************)
EXTENDS Integers, Sequences, FiniteSets

CONSTANTS
  Strides,       \* STRIDES
  ModelWidth,    \* input_width_
  ModelHeight,   \* input_height_
  Models,        \* sequences of output tensors a model file may have
  Cells,         \* cells of the grids: <<level, index>>
  ClassScale,    \* class_scale of each level, in units of the smallest
  Saturated,     \* the scaled output from which on a score is 1
  Classes,       \* 0 .. NUM_CLASSES - 1
  Outputs,       \* the class outputs
  MaxDetections, \* options.max_detections
  Thresholds     \* <<"all">>, <<"none">> or <<"above", scaled output>>

ASSUME RunnerAssumption ==
  /\ Strides \in Seq(Nat \ {0})
  /\ ModelWidth \in Nat \ {0} /\ ModelHeight \in Nat \ {0}
  /\ Cells \subseteq (1..Len(Strides)) \X Nat /\ IsFiniteSet(Cells)
  /\ ClassScale \in [1..Len(Strides) -> Nat \ {0}]
  /\ Saturated \in Int /\ Outputs \subseteq Int
  /\ Classes \subseteq Nat /\ Classes # {} /\ IsFiniteSet(Classes)
  /\ MaxDetections \in Nat \ {0}
  /\ Models \subseteq Seq([wellFormed : BOOLEAN, kind : {"box", "class", "other"},
                           height : Nat, width : Nat])

VARIABLES
  model,    \* "none", then "outputs" and "levels" while checking, then "ready", "rejected"
            \* or, for another reason, "failed"
  outputs,  \* the output tensors of the runner
  checked,  \* how many the loop has read
  groups,   \* groups: the spatial shapes met, with box_index and class_index; 0 is none
  levels    \* levels_, as the group of each

runner == <<model, outputs, checked, groups, levels>>

InitRunner ==
  model = "none" /\ outputs = <<>> /\ checked = 0 /\ groups = <<>> /\ levels = <<>>

-------------------------------------------------------------------------------
(* The constructor *)

\* No graph, no single DPU subgraph, no runner or another input than INT8 NHWC.
ModelUnusable ==
  /\ model = "none"
  /\ model' = "failed"
  /\ UNCHANGED <<outputs, checked, groups, levels>>

ModelLoads ==
  /\ model = "none"
  /\ outputs' \in Models
  /\ model' = IF Len(outputs') = 2 * Len(Strides) THEN "outputs" ELSE "rejected"
  /\ UNCHANGED <<checked, groups, levels>>

Shape(t) == <<t.height, t.width>>

\* MUTANT of Grouped: tensors are paired in their order.
GroupedByOrder(t) ==
  IF \E s \in DOMAIN groups : groups[s][t.kind] = 0
  THEN CHOOSE s \in DOMAIN groups : groups[s][t.kind] = 0
  ELSE Shape(t)

\* The group a tensor belongs to.
Grouped(t) == Shape(t)

Group(t) == IF Grouped(t) \in DOMAIN groups THEN groups[Grouped(t)] ELSE [box |-> 0, class |-> 0]

Acceptable(t) ==
  t.wellFormed /\ t.kind \in {"box", "class"} /\ Group(t)[t.kind] = 0

CheckTensor ==
  /\ model = "outputs" /\ checked < Len(outputs)
  /\ LET t == outputs[checked + 1] IN
     IF Acceptable(t)
     THEN /\ groups' = [s \in DOMAIN groups \cup {Grouped(t)} |->
                          IF s = Grouped(t) THEN [Group(t) EXCEPT ![t.kind] = checked + 1]
                          ELSE groups[s]]
          /\ checked' = checked + 1
          /\ UNCHANGED model
     ELSE model' = "rejected" /\ UNCHANGED <<checked, groups>>
  /\ UNCHANGED <<outputs, levels>>

\* The order of the levels: by area, falling; shapes of one area in the order of the map.
Precedes(s, t) ==
  \/ s[1] * s[2] > t[1] * t[2]
  \/ s[1] * s[2] = t[1] * t[2] /\ (s[1] < t[1] \/ (s[1] = t[1] /\ s[2] < t[2]))

Ordered ==
  [l \in 1..Cardinality(DOMAIN groups) |->
     CHOOSE s \in DOMAIN groups : Cardinality({r \in DOMAIN groups : Precedes(r, s)}) = l - 1]

LevelShape(l) == <<ModelHeight \div Strides[l], ModelWidth \div Strides[l]>>

\* The levels are listed from the finest on, as 8, 16 and 32 are for an input of 32 by 32 or more.
ASSUME LevelsAssumption ==
  \A l, m \in 1..Len(Strides) : l < m => Precedes(LevelShape(l), LevelShape(m))

CheckLevels ==
  /\ model = "outputs" /\ checked = Len(outputs)
  /\ LET fine == /\ Cardinality(DOMAIN groups) = Len(Strides)
                 /\ \A s \in DOMAIN groups : groups[s].box # 0 /\ groups[s].class # 0
                 /\ \A l \in 1..Len(Strides) : Ordered[l] = LevelShape(l)
     IN IF fine
        THEN model' = "levels" /\ levels' = [l \in 1..Len(Strides) |-> groups[Ordered[l]]]
        ELSE model' = "rejected" /\ UNCHANGED levels
  /\ UNCHANGED <<outputs, checked, groups>>

\* The buffers of the runtime hold the levels, or one is too small.
CheckBuffers ==
  /\ model = "levels"
  /\ model' \in {"ready", "failed"}
  /\ UNCHANGED <<outputs, checked, groups, levels>>

Construct == ModelUnusable \/ ModelLoads \/ CheckTensor \/ CheckLevels \/ CheckBuffers

-------------------------------------------------------------------------------
(* preprocess.  Rounding is half away from zero, of numbers that are not negative. *)

Round(n, d) == (2 * n + d) \div (2 * d)

\* The size of the picture in the input: the gain is the lesser of the two quotients.
ResizedWidth(cols, rows) ==
  IF ModelHeight * cols < ModelWidth * rows THEN Round(cols * ModelHeight, rows) ELSE ModelWidth

ResizedHeight(cols, rows) ==
  IF ModelHeight * cols < ModelWidth * rows THEN ModelHeight ELSE Round(rows * ModelWidth, cols)

\* MUTANT of PadBefore: the half is not moved off the middle.
PadBeforeHalf(pad) == Round(pad, 2)

\* round(pad / 2 - 0.1) and round(pad / 2 + 0.1), in tenths
PadBefore(pad) == Round(5 * pad - 1, 10)

PadAfter(pad) == Round(5 * pad + 1, 10)

Letterbox(cols, rows) ==
  LET padW == ModelWidth - ResizedWidth(cols, rows)
      padH == ModelHeight - ResizedHeight(cols, rows)
  IN [left |-> PadBefore(padW), right |-> PadAfter(padW),
      top |-> PadBefore(padH), bottom |-> PadAfter(padH)]

-------------------------------------------------------------------------------
(* decode.  scores[c][k] is the output of cell c for class k. *)

BestClass(row) ==
  CHOOSE k \in Classes : \A j \in Classes : row[j] < row[k] \/ (row[j] = row[k] /\ k <= j)

Scaled(c, row) == row[BestClass(row)] * ClassScale[c[1]]

Score(c, row) == IF Scaled(c, row) > Saturated THEN Saturated ELSE Scaled(c, row)

Passes(c, row, threshold) ==
  CASE threshold[1] = "all" -> TRUE
    [] threshold[1] = "none" -> FALSE
    [] threshold[1] = "above" -> Scaled(c, row) > threshold[2]

\* Cells are read level by level; the sort is stable.
ReadBefore(c, d) == c[1] < d[1] \/ (c[1] = d[1] /\ c[2] < d[2])

Better(c, d, scores) ==
  \/ Score(c, scores[c]) > Score(d, scores[d])
  \/ Score(c, scores[c]) = Score(d, scores[d]) /\ ReadBefore(c, d)

\* MUTANT of Decoded: the list is cut before it is sorted.
DecodedInOrder(scores, threshold) ==
  LET found == {c \in Cells : Passes(c, scores[c], threshold)}
      kept == {c \in found : Cardinality({d \in found : ReadBefore(d, c)}) < MaxDetections}
  IN [i \in 1..Cardinality(kept) |->
        CHOOSE c \in kept : Cardinality({d \in kept : Better(d, c, scores)}) = i - 1]

Decoded(scores, threshold) ==
  LET found == {c \in Cells : Passes(c, scores[c], threshold)}
      kept == {c \in found : Cardinality({d \in found : Better(d, c, scores)}) < MaxDetections}
  IN [i \in 1..Cardinality(kept) |->
        CHOOSE c \in kept : Cardinality({d \in kept : Better(d, c, scores)}) = i - 1]

-------------------------------------------------------------------------------
(* A model is rejected for its outputs exactly if they are not, in any order, a box and a
   class tensor of the right shape for each stride, and each level gets the two of its own
   shape. *)
TensorContract ==
  LET Fits(i, l, kind) ==
        outputs[i].wellFormed /\ outputs[i].kind = kind /\ Shape(outputs[i]) = LevelShape(l)
      contract ==
        /\ Len(outputs) = 2 * Len(Strides)
        /\ \A l \in 1..Len(Strides), kind \in {"box", "class"} :
             \E i \in 1..Len(outputs) : Fits(i, l, kind)
  IN /\ model = "levels" =>
          contract /\ \A l \in 1..Len(Strides), kind \in {"box", "class"} :
                        Fits(levels[l][kind], l, kind)
     /\ model = "rejected" => ~contract

===============================================================================
