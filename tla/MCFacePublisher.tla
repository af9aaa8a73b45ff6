---------------------------- MODULE MCFacePublisher ----------------------------
(* Instances of FacePublisher: the back-off as the code has it, and a short *)
(* one that lets several steps of it happen in little time.                 *)
EXTENDS FacePublisher, TLC

CodeBackoff == (0 :> 1) @@ (1 :> 2) @@ (2 :> 4) @@ (3 :> 5)
ShortBackoff == (0 :> 1) @@ (1 :> 2) @@ (2 :> 3) @@ (3 :> 3)
===============================================================================
