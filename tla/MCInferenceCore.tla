----------------------------- MODULE MCInferenceCore -----------------------------
(***************************************************************************)
(* A small camera, models of two strides and frames of three cells.        *)
(***************************************************************************)
EXTENDS InferenceCore

Depth(fits, width, height) ==
  [stream |-> "depth", fits |-> fits, width |-> width, height |-> height]

\* Two sizes of one area, a larger and a smaller one, and one of another rate.
MCProfiles ==
  {[stream |-> "color", fits |-> fits, width |-> 3, height |-> 2] : fits \in BOOLEAN}
    \cup {Depth(TRUE, 3, 2), Depth(TRUE, 2, 3), Depth(TRUE, 4, 2), Depth(TRUE, 1, 1),
          Depth(FALSE, 1, 1)}

MCRequests == {NoSize, [width |-> 3, height |-> 2]}

MCStrides == <<1, 2>>

Tensor(kind, height, width) ==
  [wellFormed |-> TRUE, kind |-> kind, height |-> height, width |-> width]

\* The shapes of both levels and a third one, of the area of the first; other channels; malformed.
Tensors ==
  {Tensor(kind, 5, 3) : kind \in {"box", "class", "other"}}
    \cup {Tensor(kind, 2, 1) : kind \in {"box", "class"}}
    \cup {Tensor(kind, 3, 5) : kind \in {"box", "class"}}
    \cup {[Tensor("box", 5, 3) EXCEPT !.wellFormed = FALSE]}

MCModels == [1..4 -> Tensors] \cup [1..3 -> {Tensor("box", 5, 3), Tensor("class", 5, 3)}]

MCCells == {<<1, 1>>, <<1, 2>>, <<2, 1>>}
MCClassScale == <<2, 1>>
MCRoiScale == <<1, 3>>
MCThresholds == {<<"all">>, <<"none">>, <<"above", 1>>}
MCEdges == {-1, 0, 1, 3, 4, 6}

===============================================================================
