--------------------------- MODULE InferenceCore_proofs ---------------------------
(***************************************************************************)
(* Proofs about InferenceCore: the choice of the depth profile, the        *)
(* tensors of the levels, the letterbox, the detections kept, the depth    *)
(* regions and the distances, for every set of profiles, model, size,      *)
(* output, coordinate and reading.                                         *)
(***************************************************************************)
EXTENDS InferenceCore, FiniteSetTheorems, TLAPS
-------------------------------------------------------------------------------
(* Ranks.  Levels and detections are put in their order by counting what comes before. *)

\* R is a strict order of all of S.
Orders(R, S) ==
  /\ \A x \in S : <<x, x>> \notin R
  /\ \A x, y, z \in S : <<x, y>> \in R /\ <<y, z>> \in R => <<x, z>> \in R
  /\ \A x, y \in S : x = y \/ <<x, y>> \in R \/ <<y, x>> \in R

Rank(S, R, x) == Cardinality({y \in S : <<y, x>> \in R})

LEMMA RankIsNat ==
  ASSUME NEW S, IsFiniteSet(S), NEW R, NEW x
  PROVE  /\ Rank(S, R, x) \in Nat /\ Rank(S, R, x) <= Cardinality(S)
         /\ x \in S /\ Orders(R, S) => Rank(S, R, x) < Cardinality(S)
<1> DEFINE X == {y \in S : <<y, x>> \in R}
<1>1. X \in SUBSET S
  OBVIOUS
<1>2. /\ IsFiniteSet(X) /\ Cardinality(X) <= Cardinality(S)
      /\ Cardinality(S) = Cardinality(X) => S = X
  BY <1>1, FS_Subset
<1>3. Cardinality(X) \in Nat /\ Cardinality(S) \in Nat
  BY <1>2, FS_CardinalityType
<1>4. x \in S /\ Orders(R, S) => S # X
  BY DEF Orders
<1> HIDE DEF X
<1>5. Rank(S, R, x) = Cardinality(X)
  BY DEF Rank, X
<1> QED
  BY <1>2, <1>3, <1>4, <1>5

\* What comes before has the lower rank.
LEMMA RanksFollowOrder ==
  ASSUME NEW S, IsFiniteSet(S), NEW R, Orders(R, S), NEW x \in S, NEW y \in S, <<x, y>> \in R
  PROVE  Rank(S, R, x) < Rank(S, R, y)
<1> DEFINE X == {z \in S : <<z, x>> \in R}
           Y == {z \in S : <<z, y>> \in R}
<1>1. X \in SUBSET Y /\ X # Y
  BY DEF Orders
<1>2. Y \in SUBSET S
  OBVIOUS
<1>3. IsFiniteSet(Y)
  BY <1>2, FS_Subset
<1> HIDE DEF X, Y
<1>4. /\ IsFiniteSet(X) /\ Cardinality(X) <= Cardinality(Y)
      /\ Cardinality(Y) = Cardinality(X) => Y = X
  BY <1>1, <1>3, FS_Subset
<1>5. Cardinality(X) \in Nat /\ Cardinality(Y) \in Nat
  BY <1>3, <1>4, FS_CardinalityType
<1>6. Rank(S, R, x) = Cardinality(X) /\ Rank(S, R, y) = Cardinality(Y)
  BY DEF Rank, X, Y
<1> QED
  BY <1>1, <1>4, <1>5, <1>6

\* Every index below the size of S is the rank of one member.
LEMMA RanksAreIndices ==
  ASSUME NEW S, IsFiniteSet(S), NEW R, Orders(R, S)
  PROVE  /\ \A x, y \in S : Rank(S, R, x) = Rank(S, R, y) => x = y
         /\ \A i \in 0..Cardinality(S) - 1 : \E x \in S : Rank(S, R, x) = i
<1> DEFINE n == Cardinality(S)
           rank == [x \in S |-> Rank(S, R, x)]
<1>1. n \in Nat
  BY FS_CardinalityType
<1>2. \A x \in S : Rank(S, R, x) \in 0..n - 1
  BY <1>1, RankIsNat
<1>3. ASSUME NEW x \in S, NEW y \in S, Rank(S, R, x) = Rank(S, R, y)
      PROVE  x = y
  <2>1. ASSUME <<x, y>> \in R PROVE FALSE
    BY <1>2, <1>3, <2>1, RanksFollowOrder
  <2>2. ASSUME <<y, x>> \in R PROVE FALSE
    BY <1>2, <1>3, <2>2, RanksFollowOrder
  <2> QED
    BY <2>1, <2>2 DEF Orders
<1>4. rank \in Injection(S, 0..n - 1)
  BY <1>2, <1>3 DEF Injection, IsInjective
<1>5. IsFiniteSet(0..n - 1) /\ Cardinality(0..n - 1) = n
  BY <1>1, FS_Interval
<1>6. rank \in Surjection(S, 0..n - 1)
  BY <1>4, <1>5, FS_Injection
<1> QED
  BY <1>3, <1>6 DEF Surjection

-------------------------------------------------------------------------------
(* The depth profile *)

\* Two depth profiles are the same or one is lower.
LEMMA ProfilesAreOrdered ==
  ASSUME NEW p \in Profiles, NEW q \in Profiles, p.stream = q.stream, p.fits = q.fits
  PROVE  p = q \/ IsLowerResolution(p, q) \/ IsLowerResolution(q, p)
<1> DEFINE Fields == [stream : {"color", "depth"}, fits : BOOLEAN, width : Nat \ {0}, height : Nat \ {0}]
<1>1. p \in Fields /\ q \in Fields
  BY ProfilesAssumption
<1>2. Pixels(p) \in Int /\ Pixels(q) \in Int
  BY <1>1 DEF Pixels
<1>3. CASE Pixels(p) = Pixels(q) /\ p.width = q.width /\ p.height = q.height
  BY <1>1, <1>3
<1> QED
  BY <1>1, <1>2, <1>3 DEF IsLowerResolution

LEMMA LowerIsTransitive ==
  ASSUME NEW p \in Profiles, NEW q \in Profiles, NEW r \in Profiles,
         IsLowerResolution(p, q), IsLowerResolution(q, r)
  PROVE  IsLowerResolution(p, r)
<1> DEFINE Fields == [stream : {"color", "depth"}, fits : BOOLEAN, width : Nat \ {0}, height : Nat \ {0}]
<1>1. p \in Fields /\ q \in Fields /\ r \in Fields
  BY ProfilesAssumption
<1>2. Pixels(p) \in Int /\ Pixels(q) \in Int /\ Pixels(r) \in Int
  BY <1>1 DEF Pixels
<1> QED
  BY <1>1, <1>2 DEF IsLowerResolution

Seen == offered \ unseen
Matching == {p \in offered : Wanted(p)}

\* What the two passes have found of the profiles seen.
SelectionInv ==
  /\ SelectionTypeOK
  /\ camera = "color" => /\ colorFound <=> \E p \in Seen : Fits(p, "color")
                         /\ ~depthFound
  /\ camera = "depth" =>
       /\ depthFound =>
            /\ depth \in Matching \cap Seen
            /\ \A p \in Matching \cap Seen : p = depth \/ IsLowerResolution(depth, p)
       /\ ~depthFound => Matching \cap Seen = {}
  /\ LowestProfile

LEMMA SelectionStarts == Init => SelectionInv
BY DEF Init, InitSelection, SelectionInv, SelectionTypeOK, LowestProfile, Seen, Matching

\* A depth profile comes: it takes the place of a higher one.
LEMMA VisitDepthStep ==
  ASSUME SelectionInv, NEW p \in Profiles, VisitDepth(p)
  PROVE  SelectionInv'
<1> USE DEF VisitDepth
<1> DEFINE Taken == Wanted(p) /\ (~depthFound \/ (requested.width = 0 /\ IsLowerResolution(p, depth)))
<1>1. SelectionTypeOK'
  BY DEF SelectionInv, SelectionTypeOK
<1>2. Matching' = Matching /\ Seen' = Seen \cup {p} /\ p \in offered
  BY DEF SelectionInv, SelectionTypeOK, Matching, Wanted, Seen, Fits
<1>3. \A q \in Matching : q \in Profiles /\ q.stream = "depth" /\ q.fits = TRUE
  BY ProfilesAssumption DEF SelectionInv, SelectionTypeOK, Matching, Wanted, Fits
<1>4. (depthFound =>
            /\ depth \in Matching \cap Seen
            /\ \A q \in Matching \cap Seen : q = depth \/ IsLowerResolution(depth, q))'
  <2>1. CASE ~Taken
    <3>1. depthFound /\ p \in Matching => p = depth \/ IsLowerResolution(depth, p)
      <4> SUFFICES ASSUME depthFound, p \in Matching
                   PROVE  p = depth \/ IsLowerResolution(depth, p)
        OBVIOUS
      <4>1. depth \in Matching /\ depth \in Profiles
        BY <1>3 DEF SelectionInv
      <4>2. CASE requested.width = 0
        <5>1. ~IsLowerResolution(p, depth)
          BY <2>1, <4>2 DEF Matching
        <5> QED
          BY <1>3, <4>1, <5>1, ProfilesAreOrdered
      <4>3. CASE requested.width # 0
        <5>1. p.width = depth.width /\ p.height = depth.height
          BY <4>1, <4>3 DEF Matching, Wanted
        <5>2. p.stream = depth.stream /\ p.fits = depth.fits
          BY <1>3, <4>1
        <5> QED
          BY <4>1, <5>1, <5>2, ProfilesAssumption
      <4> QED
        BY <4>2, <4>3
    <3>2. depthFound' = depthFound /\ depth' = depth
      BY <2>1
    <3>3. \A q : IsLowerResolution(depth', q) <=> IsLowerResolution(depth, q)
      BY <3>2
    <3> QED
      BY <1>2, <3>1, <3>2, <3>3 DEF SelectionInv
  <2>2. CASE Taken
    <3>1. depth' = p /\ depthFound' /\ p \in Matching
      BY <1>2, <2>2 DEF Matching
    <3>2. ASSUME NEW q \in Matching \cap Seen
          PROVE  IsLowerResolution(p, q)
      <4>1. depthFound /\ depth \in Matching /\ IsLowerResolution(p, depth)
        BY <2>2, <3>2 DEF SelectionInv
      <4>2. q = depth \/ IsLowerResolution(depth, q)
        BY <3>2, <4>1 DEF SelectionInv
      <4> QED
        BY <1>3, <4>1, <4>2, LowerIsTransitive
    <3> QED
      BY <1>2, <3>1, <3>2
  <2> QED
    BY <2>1, <2>2
<1>5. (~depthFound => Matching \cap Seen = {})'
  BY <1>2 DEF SelectionInv, Matching
<1> QED
  BY <1>1, <1>4, <1>5 DEF SelectionInv, LowestProfile

LEMMA SelectionStep == SelectionInv /\ [Next]_vars => SelectionInv'
<1> SUFFICES ASSUME SelectionInv, [Next]_vars PROVE SelectionInv'
  OBVIOUS
<1>1. CASE UNCHANGED selection
  BY <1>1 DEF selection, SelectionInv, SelectionTypeOK, LowestProfile, Matching, Wanted, Fits, Seen,
              IsLowerResolution, Pixels
<1>2. ASSUME NEW p \in Profiles, VisitColor(p) PROVE SelectionInv'
  BY <1>2 DEF VisitColor, SelectionInv, SelectionTypeOK, LowestProfile, Seen
<1>3. CASE EndColor
  BY <1>3 DEF EndColor, SelectionInv, SelectionTypeOK, LowestProfile, Seen, Matching, Wanted, Fits
<1>4. ASSUME NEW p \in Profiles, VisitDepth(p) PROVE SelectionInv'
  BY <1>4, VisitDepthStep
<1>5. CASE EndDepth
  BY <1>5 DEF EndDepth, SelectionInv, SelectionTypeOK, LowestProfile, Seen, Matching, Wanted, Fits,
              IsLowerResolution, Pixels
<1>6. CASE SelectionReturns
  BY <1>6 DEF SelectionReturns, SelectionInv, SelectionTypeOK, LowestProfile
<1> QED
  BY <1>1, <1>2, <1>3, <1>4, <1>5, <1>6
  DEF Next, vars, SelectCamera, Select, UseSelection, CreateDetector, StartStream, Infer, Preprocess,
      PreprocessFails, Execute, ExecuteFails, Fails, Decode, UseDetections, DetectFaces, Skip,
      Annotate, Measure, PushAnnotation, NextFrame, Done

(* The depth profile is the lowest that matches, in whatever order the camera lists them, for
   any set of profiles and any request. *)
THEOREM LowestProfileSelected == Spec => []LowestProfile
<1>1. SelectionInv => LowestProfile
  BY DEF SelectionInv
<1> QED
  BY <1>1, SelectionStarts, SelectionStep, PTL DEF Spec

-------------------------------------------------------------------------------
(* The tensors *)

ShapePairs == {p \in (Nat \X Nat) \X (Nat \X Nat) : Precedes(p[1], p[2])}

\* Of any two shapes one precedes.
LEMMA ShapesAreOrdered ==
  ASSUME NEW S \in SUBSET (Nat \X Nat)
  PROVE  Orders(ShapePairs, S)
<1>1. \A s \in Nat \X Nat : s = <<s[1], s[2]>> /\ s[1] \in Nat /\ s[2] \in Nat /\ s[1] * s[2] \in Nat
  OBVIOUS
<1>2. \A s, t \in S : <<s, t>> \in ShapePairs <=> Precedes(s, t)
  BY DEF ShapePairs
<1>3. \A s \in S : <<s, s>> \notin ShapePairs
  BY <1>1, <1>2 DEF Precedes
<1>4. ASSUME NEW s \in S, NEW t \in S, NEW u \in S, Precedes(s, t), Precedes(t, u)
      PROVE  Precedes(s, u)
  <2>1. PICK a \in Nat : a = s[1] * s[2]
    BY <1>1
  <2>2. PICK b \in Nat : b = t[1] * t[2]
    BY <1>1
  <2>3. PICK c \in Nat : c = u[1] * u[2]
    BY <1>1
  <2>4. s \in Nat \X Nat /\ t \in Nat \X Nat /\ u \in Nat \X Nat
    OBVIOUS
  <2> QED
    BY <1>4, <2>1, <2>2, <2>3, <2>4 DEF Precedes
<1>5. ASSUME NEW s \in S, NEW t \in S
      PROVE  s = t \/ Precedes(s, t) \/ Precedes(t, s)
  <2>1. PICK a \in Nat : a = s[1] * s[2]
    BY <1>1
  <2>2. PICK b \in Nat : b = t[1] * t[2]
    BY <1>1
  <2>3. s \in Nat \X Nat /\ t \in Nat \X Nat
    OBVIOUS
  <2> QED
    BY <1>1, <2>1, <2>2, <2>3 DEF Precedes
<1> QED
  BY <1>2, <1>3, <1>4, <1>5 DEF Orders

Tensor == [wellFormed : BOOLEAN, kind : {"box", "class", "other"}, height : Nat, width : Nat]
Kinds == {"box", "class"}

\* The group of a shape holds the tensors of that shape among those read.
GroupsOK ==
  /\ \A i \in 1..checked :
       /\ outputs[i].wellFormed /\ outputs[i].kind \in Kinds
       /\ Shape(outputs[i]) \in DOMAIN groups
       /\ groups[Shape(outputs[i])][outputs[i].kind] = i
  /\ \A s \in DOMAIN groups :
       /\ groups[s] \in [Kinds -> 0..checked]
       /\ \A k \in Kinds : groups[s][k] # 0 =>
            Shape(outputs[groups[s][k]]) = s /\ outputs[groups[s][k]].kind = k
       /\ \E i \in 1..checked : s = Shape(outputs[i])

\* The constructor up to the levels; afterwards what TensorContract says of them.
TensorInv ==
  /\ outputs \in Seq(Tensor) /\ checked \in 0..Len(outputs)
  /\ model = "none" => checked = 0 /\ groups = <<>>
  /\ model \in {"outputs", "levels"} => Len(outputs) = 2 * Len(Strides)
  /\ model = "outputs" => GroupsOK
  /\ TensorContract

ShapeFits(i, l, k) ==
  outputs[i].wellFormed /\ outputs[i].kind = k /\ Shape(outputs[i]) = LevelShape(l)

Contract ==
  /\ Len(outputs) = 2 * Len(Strides)
  /\ \A l \in 1..Len(Strides), k \in Kinds : \E i \in 1..Len(outputs) : ShapeFits(i, l, k)

LEMMA ContractIs ==
  TensorContract <=>
    /\ model = "levels" =>
         Contract /\ \A l \in 1..Len(Strides), k \in Kinds : ShapeFits(levels[l][k], l, k)
    /\ model = "rejected" => ~Contract
BY DEF TensorContract, Contract, ShapeFits, Kinds

\* No two levels have one shape, and they follow one another in the order of the areas.
LEMMA LevelShapes ==
  /\ Len(Strides) \in Nat
  /\ \A l \in 1..Len(Strides) : LevelShape(l) \in Nat \X Nat
  /\ \A l, m \in 1..Len(Strides) : LevelShape(l) = LevelShape(m) => l = m
  /\ \A l, m \in 1..Len(Strides) : Precedes(LevelShape(l), LevelShape(m)) <=> l < m
<1>1. Len(Strides) \in Nat /\ \A l \in 1..Len(Strides) : Strides[l] \in Nat \ {0}
  BY RunnerAssumption
<1>2. \A l \in 1..Len(Strides) : LevelShape(l) \in Nat \X Nat
  <2>1. \A a \in Nat, b \in Nat \ {0} : a \div b \in Nat
    OBVIOUS
  <2> QED
    BY <1>1, <2>1, RunnerAssumption DEF LevelShape
<1>3. ASSUME NEW s \in Nat \X Nat, NEW t \in Nat \X Nat, Precedes(s, t)
      PROVE  ~Precedes(t, s) /\ s # t
  <2>1. Orders(ShapePairs, Nat \X Nat)
    BY ShapesAreOrdered
  <2>2. <<s, t>> \in ShapePairs /\ (Precedes(t, s) => <<t, s>> \in ShapePairs)
    BY <1>3 DEF ShapePairs
  <2> QED
    BY <2>1, <2>2 DEF Orders
<1>4. ASSUME NEW l \in 1..Len(Strides), NEW m \in 1..Len(Strides), ~(l < m)
      PROVE  ~Precedes(LevelShape(l), LevelShape(m))
  <2>1. l = m \/ m < l
    BY <1>1, <1>4
  <2> QED
    BY <1>2, <1>3, <2>1, LevelsAssumption
<1>5. ASSUME NEW l \in 1..Len(Strides), NEW m \in 1..Len(Strides), LevelShape(l) = LevelShape(m)
      PROVE  l = m
  <2>1. l = m \/ m < l \/ l < m
    BY <1>1
  <2> QED
    BY <1>2, <1>3, <1>5, <2>1, LevelsAssumption
<1> QED
  BY <1>1, <1>2, <1>4, <1>5, LevelsAssumption

\* As many tensors as there are levels and kinds: each is needed, and once.
LEMMA EveryTensorIsNeeded ==
  ASSUME outputs \in Seq(Tensor), Contract
  PROVE  /\ \A i \in 1..Len(outputs) : \E l \in 1..Len(Strides), k \in Kinds : ShapeFits(i, l, k)
         /\ \A i, j \in 1..Len(outputs) :
              Shape(outputs[i]) = Shape(outputs[j]) /\ outputs[i].kind = outputs[j].kind => i = j
<1> DEFINE n == Len(Strides)
           Places == (1..n) \X Kinds
           f == [p \in Places |-> CHOOSE i \in 1..Len(outputs) : ShapeFits(i, p[1], p[2])]
<1>1. n \in Nat /\ Len(outputs) = 2 * n
  BY LevelShapes DEF Contract
<1>2. ASSUME NEW p \in Places
      PROVE  f[p] \in 1..Len(outputs) /\ ShapeFits(f[p], p[1], p[2])
  <2>1. \E i \in 1..Len(outputs) : ShapeFits(i, p[1], p[2])
    BY DEF Contract
  <2> QED
    BY <2>1
<1>3. IsFiniteSet(Kinds) /\ Cardinality(Kinds) = 2
  <2>1. IsFiniteSet({"box"}) /\ Cardinality({"box"}) = 1
    BY FS_Singleton
  <2>2. Kinds = {"box"} \cup {"class"} /\ "class" \notin {"box"}
    BY DEF Kinds
  <2>3. /\ IsFiniteSet({"box"} \cup {"class"})
        /\ Cardinality({"box"} \cup {"class"})
             = IF "class" \in {"box"} THEN Cardinality({"box"}) ELSE Cardinality({"box"}) + 1
    BY <2>1, FS_AddElement
  <2> QED
    BY <2>1, <2>2, <2>3
<1> HIDE DEF n
<1>4. IsFiniteSet(1..n) /\ Cardinality(1..n) = n
  <2>1. \A m \in Int : IsFiniteSet(1..m) /\ Cardinality(1..m) = IF 1 > m THEN 0 ELSE m - 1 + 1
    BY FS_Interval
  <2> QED
    BY <1>1, <2>1
<1> USE DEF n
<1>5. IsFiniteSet(Places) /\ Cardinality(Places) = n * 2
  <2>1. /\ IsFiniteSet((1..n) \X Kinds)
        /\ Cardinality((1..n) \X Kinds) = Cardinality(1..n) * Cardinality(Kinds)
    BY <1>3, <1>4, FS_Product
  <2> QED
    BY <1>3, <1>4, <2>1
<1>6. IsFiniteSet(1..Len(outputs)) /\ Cardinality(1..Len(outputs)) = 2 * n
  BY <1>1, FS_Interval
<1>7. f \in [Places -> 1..Len(outputs)]
  BY <1>2
<1>8. \A p \in Places : p[1] \in 1..n /\ p[2] \in Kinds /\ p = <<p[1], p[2]>>
  OBVIOUS
<1> HIDE DEF f, Places
<1>9. ASSUME NEW p \in Places, NEW q \in Places,
             Shape(outputs[f[p]]) = Shape(outputs[f[q]]), outputs[f[p]].kind = outputs[f[q]].kind
      PROVE  p = q
  <2>1. LevelShape(p[1]) = LevelShape(q[1]) /\ p[2] = q[2]
    BY <1>2, <1>9 DEF ShapeFits
  <2>2. p[1] = q[1]
    BY <1>8, <2>1, LevelShapes
  <2> QED
    BY <1>8, <2>1, <2>2
<1>10. f \in Injection(Places, 1..Len(outputs))
  BY <1>7, <1>9 DEF Injection, IsInjective
<1>11. Cardinality(Places) = Cardinality(1..Len(outputs))
  BY <1>1, <1>5, <1>6
<1>12. f \in Surjection(Places, 1..Len(outputs))
  BY <1>6, <1>10, <1>11, FS_Injection
<1>13. \A i \in 1..Len(outputs) : \E p \in Places : f[p] = i
  BY <1>12 DEF Surjection
<1>14. ASSUME NEW i \in 1..Len(outputs)
       PROVE  \E l \in 1..n, k \in Kinds : ShapeFits(i, l, k)
  BY <1>2, <1>8, <1>13
<1>15. ASSUME NEW i \in 1..Len(outputs), NEW j \in 1..Len(outputs),
              Shape(outputs[i]) = Shape(outputs[j]), outputs[i].kind = outputs[j].kind
       PROVE  i = j
  BY <1>9, <1>13, <1>15
<1> QED
  BY <1>14, <1>15

\* A tensor is refused only for a reason.
LEMMA RefusedForAReason ==
  ASSUME TensorInv, model = "outputs", checked < Len(outputs), Contract
  PROVE  Acceptable(outputs[checked + 1])
<1> DEFINE j == checked + 1
           t == outputs[j]
<1>1. /\ outputs \in Seq(Tensor) /\ GroupsOK /\ checked \in Nat /\ j \in 1..Len(outputs)
      /\ j \notin 1..checked
  BY DEF TensorInv
<1>2. PICK l \in 1..Len(Strides), k \in Kinds : ShapeFits(j, l, k)
  BY <1>1, EveryTensorIsNeeded
<1>3. t.wellFormed /\ t.kind = k /\ Grouped(t) = Shape(t)
  BY <1>2 DEF ShapeFits, Grouped
<1>4. ASSUME Shape(t) \in DOMAIN groups, groups[Shape(t)][k] # 0
      PROVE  FALSE
  <2>1. PICK i : i = groups[Shape(t)][k]
    OBVIOUS
  <2>2. groups[Shape(t)] \in [Kinds -> 0..checked]
    BY <1>1, <1>4 DEF GroupsOK
  <2>3. i \in 1..checked
    BY <1>1, <1>4, <2>1, <2>2
  <2>4. Shape(outputs[i]) = Shape(t) /\ outputs[i].kind = k
    BY <1>1, <1>4, <2>1 DEF GroupsOK
  <2>5. i \in 1..Len(outputs)
    BY <1>1, <2>3
  <2>6. i = j
    BY <1>1, <1>3, <2>4, <2>5, EveryTensorIsNeeded
  <2> QED
    BY <1>1, <2>3, <2>6
<1>5. Group(t)[k] = 0
  BY <1>3, <1>4 DEF Group, Kinds
<1> QED
  BY <1>3, <1>5 DEF Acceptable, Kinds

LEMMA CheckTensorStep ==
  ASSUME TensorInv, CheckTensor
  PROVE  TensorInv'
<1> DEFINE j == checked + 1
           t == outputs[j]
           g == Shape(t)
           K == t.kind
<1>1. /\ outputs \in Seq(Tensor) /\ GroupsOK /\ checked \in Nat /\ j \in 1..Len(outputs)
      /\ model = "outputs" /\ outputs' = outputs /\ Len(outputs) = 2 * Len(Strides)
      /\ checked < Len(outputs) /\ checked \in 0..Len(outputs)
  BY DEF TensorInv, CheckTensor
<1>2. CASE ~Acceptable(t)
  <2>1. model' = "rejected" /\ checked' = checked
    BY <1>2 DEF CheckTensor
  <2>2. ~Contract
    BY <1>1, <1>2, RefusedForAReason
  <2>3. ~Contract'
    BY <1>1, <2>2 DEF Contract, ShapeFits, Shape
  <2>4. TensorContract'
    BY <2>1, <2>3 DEF TensorContract, Contract, ShapeFits, Kinds
  <2> QED
    BY <1>1, <2>1, <2>4 DEF TensorInv
<1>3. CASE Acceptable(t)
  <2>1. /\ model' = model /\ checked' = j
        /\ groups' = [s \in DOMAIN groups \cup {g} |->
                        IF s = g THEN [Group(t) EXCEPT ![K] = j] ELSE groups[s]]
    BY <1>3 DEF CheckTensor, Grouped
  <2>2. t.wellFormed /\ K \in Kinds /\ Group(t)[K] = 0
    BY <1>3 DEF Acceptable, Kinds
  <2>3. /\ Group(t) \in [Kinds -> 0..checked]
        /\ \A k \in Kinds : Group(t)[k] # 0 =>
             /\ g \in DOMAIN groups /\ Group(t)[k] = groups[g][k]
    <3>1. CASE g \in DOMAIN groups
      BY <1>1, <3>1 DEF Group, Grouped, GroupsOK
    <3>2. CASE g \notin DOMAIN groups
      BY <1>1, <3>2 DEF Group, Grouped, Kinds
    <3> QED
      BY <3>1, <3>2
  <2>4. DOMAIN groups' = DOMAIN groups \cup {g}
    BY <2>1
  <2>5. /\ groups'[g] \in [Kinds -> 0..j] /\ groups'[g][K] = j
        /\ \A k \in Kinds : k # K => groups'[g][k] = Group(t)[k]
    <3>1. groups'[g] = [Group(t) EXCEPT ![K] = j]
      BY <2>1
    <3>2. 0..checked \subseteq 0..j /\ j \in 0..j
      BY <1>1
    <3> QED
      BY <2>2, <2>3, <3>1, <3>2
  <2>6. \A s \in DOMAIN groups : s # g => groups'[s] = groups[s]
    BY <2>1
  <2> HIDE DEF t
  <2>7. ASSUME NEW i \in 1..j
        PROVE  /\ outputs[i].wellFormed /\ outputs[i].kind \in Kinds
               /\ Shape(outputs[i]) \in DOMAIN groups'
               /\ groups'[Shape(outputs[i])][outputs[i].kind] = i
    <3>1. CASE i = j
      BY <2>2, <2>4, <2>5, <3>1 DEF t
    <3>2. CASE i # j
      <4>1. i \in 1..checked
        BY <1>1, <3>2
      <4>2. /\ outputs[i].wellFormed /\ outputs[i].kind \in Kinds
            /\ Shape(outputs[i]) \in DOMAIN groups
            /\ groups[Shape(outputs[i])][outputs[i].kind] = i
        BY <1>1, <4>1 DEF GroupsOK
      <4>3. CASE Shape(outputs[i]) # g
        BY <2>4, <2>6, <4>2, <4>3
      <4>4. CASE Shape(outputs[i]) = g
        <5>1. Group(t)[outputs[i].kind] = i
          BY <4>2, <4>4 DEF Group, Grouped, t
        <5>2. outputs[i].kind # K
          BY <2>2, <4>1, <5>1
        <5> QED
          BY <2>4, <2>5, <4>2, <4>4, <5>1, <5>2
      <4> QED
        BY <4>3, <4>4
    <3> QED
      BY <3>1, <3>2
  <2>8. ASSUME NEW s \in DOMAIN groups'
        PROVE  /\ groups'[s] \in [Kinds -> 0..j]
               /\ \A k \in Kinds : groups'[s][k] # 0 =>
                    Shape(outputs[groups'[s][k]]) = s /\ outputs[groups'[s][k]].kind = k
               /\ \E i \in 1..j : s = Shape(outputs[i])
    <3>1. CASE s # g
      <4>1. s \in DOMAIN groups /\ groups'[s] = groups[s]
        BY <2>4, <2>6, <3>1
      <4>2. /\ groups[s] \in [Kinds -> 0..checked]
            /\ \A k \in Kinds : groups[s][k] # 0 =>
                 Shape(outputs[groups[s][k]]) = s /\ outputs[groups[s][k]].kind = k
            /\ \E i \in 1..checked : s = Shape(outputs[i])
        BY <1>1, <4>1 DEF GroupsOK
      <4>3. 0..checked \subseteq 0..j /\ 1..checked \subseteq 1..j
        BY <1>1
      <4> QED
        BY <4>1, <4>2, <4>3
    <3>2. CASE s = g
      <4>1. j \in 1..j
        BY <1>1
      <4>2. ASSUME NEW k \in Kinds, groups'[g][k] # 0
            PROVE  Shape(outputs[groups'[g][k]]) = g /\ outputs[groups'[g][k]].kind = k
        <5>1. CASE k = K
          BY <2>5, <5>1 DEF t
        <5>2. CASE k # K
          <6>1. g \in DOMAIN groups /\ groups'[g][k] = groups[g][k]
            BY <2>3, <2>5, <4>2, <5>2
          <6> QED
            BY <1>1, <4>2, <6>1 DEF GroupsOK
        <5> QED
          BY <5>1, <5>2
      <4> QED
        BY <2>5, <3>2, <4>1, <4>2 DEF t
    <3> QED
      BY <3>1, <3>2
  <2>9. GroupsOK'
    <3>1. outputs' = outputs /\ checked' = j
      BY <1>1, <2>1
    <3> HIDE DEF j, g, K
    <3>2. \A i \in 1..checked' :
            /\ outputs'[i].wellFormed /\ outputs'[i].kind \in Kinds
            /\ Shape(outputs'[i]) \in DOMAIN groups'
            /\ groups'[Shape(outputs'[i])][outputs'[i].kind] = i
      BY <3>1, <2>7
    <3>3. \A s \in DOMAIN groups' :
            /\ groups'[s] \in [Kinds -> 0..checked']
            /\ \A k \in Kinds : groups'[s][k] # 0 =>
                 Shape(outputs'[groups'[s][k]]) = s /\ outputs'[groups'[s][k]].kind = k
            /\ \E i \in 1..checked' : s = Shape(outputs'[i])
      BY <3>1, <2>8
    <3> QED
      BY <3>2, <3>3 DEF GroupsOK
  <2>10. TensorContract'
    BY <1>1, <2>1 DEF TensorContract
  <2> QED
    BY <1>1, <2>1, <2>9, <2>10 DEF TensorInv
<1> QED
  BY <1>2, <1>3

\* What the constructor checks of the levels.
Fine ==
  /\ Cardinality(DOMAIN groups) = Len(Strides)
  /\ \A s \in DOMAIN groups : groups[s].box # 0 /\ groups[s].class # 0
  /\ \A l \in 1..Len(Strides) : Ordered[l] = LevelShape(l)

\* The shapes met are finitely many and have an order.
LEMMA GroupsAreOrdered ==
  ASSUME outputs \in Seq(Tensor), checked \in 0..Len(outputs), GroupsOK
  PROVE  /\ DOMAIN groups \in SUBSET (Nat \X Nat) /\ IsFiniteSet(DOMAIN groups)
         /\ Orders(ShapePairs, DOMAIN groups)
         /\ \A s \in DOMAIN groups : Cardinality({r \in DOMAIN groups : Precedes(r, s)})
                                      = Rank(DOMAIN groups, ShapePairs, s)
<1> DEFINE D == DOMAIN groups
           Met == {i \in 1..checked : TRUE}
           f == [i \in Met |-> Shape(outputs[i])]
<1>1. \A i \in 1..checked : outputs[i] \in Tensor /\ Shape(outputs[i]) \in D
  BY DEF GroupsOK
<1>2. \A t \in Tensor : Shape(t) \in Nat \X Nat
  BY DEF Shape, Tensor
<1>3. \A s \in D : \E i \in 1..checked : s = Shape(outputs[i])
  BY DEF GroupsOK
<1>4. D \in SUBSET (Nat \X Nat)
  BY <1>1, <1>2, <1>3
<1>5. IsFiniteSet(Met)
  <2>1. \A m \in Int : IsFiniteSet(1..m)
    BY FS_Interval
  <2>2. Met = 1..checked /\ checked \in Int
    OBVIOUS
  <2> QED
    BY <2>1, <2>2
<1>6. f \in Surjection(Met, D)
  BY <1>1, <1>3 DEF Surjection
<1> HIDE DEF D, f, Met
<1>7. IsFiniteSet(D)
  BY <1>5, <1>6, FS_Surjection
<1>8. Orders(ShapePairs, D)
  BY <1>4, ShapesAreOrdered
<1>9. ASSUME NEW s \in D
      PROVE  Cardinality({r \in D : Precedes(r, s)}) = Rank(D, ShapePairs, s)
  <2>1. {r \in D : Precedes(r, s)} = {r \in D : <<r, s>> \in ShapePairs}
    BY <1>4 DEF ShapePairs
  <2> QED
    BY <2>1 DEF Rank
<1> QED
  BY <1>4, <1>7, <1>8, <1>9 DEF D

\* Outputs that keep the contract pass the check of the levels.
LEMMA LevelsRefusedForAReason ==
  ASSUME TensorInv, model = "outputs", checked = Len(outputs), Contract
  PROVE  Fine
<1> DEFINE n == Len(Strides)
           D == DOMAIN groups
           shapes == [l \in 1..n |-> LevelShape(l)]
<1>1. outputs \in Seq(Tensor) /\ checked \in 0..Len(outputs) /\ GroupsOK /\ n \in Nat
  BY LevelShapes DEF TensorInv
<1>2. ASSUME NEW l \in 1..n, NEW k \in Kinds
      PROVE  LevelShape(l) \in D /\ groups[LevelShape(l)][k] # 0
  <2>1. PICK i \in 1..checked : ShapeFits(i, l, k)
    BY DEF Contract
  <2>2. Shape(outputs[i]) \in DOMAIN groups /\ groups[Shape(outputs[i])][outputs[i].kind] = i
    BY <1>1 DEF GroupsOK
  <2> QED
    BY <1>1, <2>1, <2>2 DEF ShapeFits
<1>3. ASSUME NEW s \in D
      PROVE  \E l \in 1..n : s = LevelShape(l)
  <2>1. PICK i \in 1..Len(outputs) : s = Shape(outputs[i])
    BY <1>1 DEF GroupsOK
  <2>2. PICK l \in 1..n, k \in Kinds : ShapeFits(i, l, k)
    BY <1>1, EveryTensorIsNeeded
  <2> QED
    BY <2>1, <2>2 DEF ShapeFits
<1>4. D = {LevelShape(l) : l \in 1..n}
  BY <1>2, <1>3 DEF Kinds
<1>5. ASSUME NEW m \in 0..n
      PROVE  Cardinality({LevelShape(l) : l \in 1..m}) = m
  <2> DEFINE M == {LevelShape(l) : l \in 1..m}
             g == [l \in 1..m |-> LevelShape(l)]
  <2>1. m \in Nat /\ 1..m \subseteq 1..n
    BY <1>1
  <2>2. g \in Bijection(1..m, M)
    <3>1. g \in [1..m -> M]
      OBVIOUS
    <3>2. \A k, l \in 1..m : g[k] = g[l] => k = l
      BY <2>1, LevelShapes
    <3>3. \A s \in M : \E l \in 1..m : g[l] = s
      OBVIOUS
    <3> HIDE DEF g, M
    <3> QED
      BY <3>1, <3>2, <3>3 DEF Bijection, Injection, Surjection, IsInjective
  <2> HIDE DEF M, g
  <2>3. ExistsBijection(1..m, M)
    BY <2>2 DEF ExistsBijection
  <2>4. Cardinality(M) = m
    BY <2>1, <2>3, FS_CountingElements
  <2> QED
    BY <2>4 DEF M
<1>6. Cardinality(D) = n
  <2>1. n \in 0..n
    BY <1>1
  <2> QED
    BY <1>4, <1>5, <2>1
<1>7. \A s \in D : groups[s].box # 0 /\ groups[s].class # 0
  BY <1>2, <1>3 DEF Kinds
<1>8. ASSUME NEW l \in 1..n
      PROVE  Cardinality({r \in D : Precedes(r, LevelShape(l))}) = l - 1
  <2>1. {r \in D : Precedes(r, LevelShape(l))} = {LevelShape(k) : k \in 1..(l - 1)}
    <3>1. ASSUME NEW r \in D, Precedes(r, LevelShape(l))
          PROVE  \E k \in 1..(l - 1) : r = LevelShape(k)
      <4>1. PICK k \in 1..n : r = LevelShape(k)
        BY <1>3
      <4>2. k < l
        BY <3>1, <4>1, LevelShapes
      <4>3. k \in 1..(l - 1)
        BY <1>1, <4>2
      <4> QED
        BY <4>1, <4>3
    <3>2. ASSUME NEW k \in 1..(l - 1)
          PROVE  LevelShape(k) \in D /\ Precedes(LevelShape(k), LevelShape(l))
      <4>1. k \in 1..n /\ k < l
        BY <1>1
      <4> QED
        BY <1>4, <4>1, LevelShapes
    <3> QED
      BY <3>1, <3>2
  <2>2. l - 1 \in 0..n
    BY <1>1
  <2> QED
    BY <1>5, <2>1, <2>2
<1>9. ASSUME NEW l \in 1..n
      PROVE  Ordered[l] = LevelShape(l)
  <2>1. LevelShape(l) \in D
    BY <1>4
  <2>2. ASSUME NEW s \in D, Cardinality({r \in D : Precedes(r, s)}) = l - 1
        PROVE  s = LevelShape(l)
    <3>1. PICK k \in 1..n : s = LevelShape(k)
      BY <1>3
    <3>2. k - 1 = l - 1
      BY <1>8, <2>2, <3>1
    <3>3. k = l
      BY <1>1, <3>2
    <3> QED
      BY <3>1, <3>3
  <2>3. (CHOOSE s \in D : Cardinality({r \in D : Precedes(r, s)}) = l - 1) = LevelShape(l)
    BY <1>8, <2>1, <2>2
  <2> QED
    BY <1>6, <2>3 DEF Ordered
<1> QED
  BY <1>6, <1>7, <1>9 DEF Fine

\* Levels that pass the check have the tensors of their own shape.
LEMMA LevelsHaveTheirTensors ==
  ASSUME TensorInv, model = "outputs", checked = Len(outputs), Fine
  PROVE  /\ Contract
         /\ \A l \in 1..Len(Strides), k \in Kinds : ShapeFits(groups[Ordered[l]][k], l, k)
<1> DEFINE n == Len(Strides)
           D == DOMAIN groups
<1>1. /\ outputs \in Seq(Tensor) /\ checked \in 0..Len(outputs) /\ GroupsOK /\ n \in Nat
      /\ Len(outputs) = 2 * n
  BY LevelShapes DEF TensorInv
<1>2. /\ D \in SUBSET (Nat \X Nat) /\ IsFiniteSet(D) /\ Orders(ShapePairs, D)
      /\ \A s \in D : Cardinality({r \in D : Precedes(r, s)}) = Rank(D, ShapePairs, s)
  BY <1>1, GroupsAreOrdered
<1>3. ASSUME NEW l \in 1..n
      PROVE  LevelShape(l) \in D
  <2>1. l - 1 \in 0..Cardinality(D) - 1
    BY <1>1 DEF Fine
  <2>2. \E s \in D : Rank(D, ShapePairs, s) = l - 1
    BY <1>2, <2>1, RanksAreIndices
  <2>3. \E s \in D : Cardinality({r \in D : Precedes(r, s)}) = l - 1
    BY <1>2, <2>2
  <2>4. Ordered[l] \in D
    BY <2>3 DEF Ordered, Fine
  <2> QED
    BY <2>4 DEF Fine
<1>4. ASSUME NEW l \in 1..n, NEW k \in Kinds
      PROVE  /\ groups[LevelShape(l)][k] \in 1..Len(outputs)
             /\ ShapeFits(groups[LevelShape(l)][k], l, k)
  <2>1. PICK i : i = groups[LevelShape(l)][k]
    OBVIOUS
  <2>2. groups[LevelShape(l)] \in [Kinds -> 0..checked]
    BY <1>1, <1>3 DEF GroupsOK
  <2>3. i # 0
    BY <1>3, <2>1 DEF Fine, Kinds
  <2>4. i \in 1..checked
    BY <1>1, <2>1, <2>2, <2>3
  <2>5. Shape(outputs[i]) = LevelShape(l) /\ outputs[i].kind = k /\ outputs[i].wellFormed
    BY <1>1, <1>3, <2>1, <2>3, <2>4 DEF GroupsOK
  <2>6. i \in 1..Len(outputs) /\ ShapeFits(i, l, k)
    BY <1>1, <2>4, <2>5 DEF ShapeFits
  <2> QED
    BY <2>1, <2>6
<1>5. Contract
  BY <1>1, <1>4 DEF Contract
<1>6. \A l \in 1..n, k \in Kinds : ShapeFits(groups[Ordered[l]][k], l, k)
  BY <1>4 DEF Fine
<1> QED
  BY <1>5, <1>6

LEMMA CheckLevelsStep ==
  ASSUME TensorInv, CheckLevels
  PROVE  TensorInv'
<1>1. /\ model = "outputs" /\ checked = Len(outputs)
      /\ outputs' = outputs /\ checked' = checked /\ groups' = groups
      /\ Len(outputs) = 2 * Len(Strides)
  BY DEF CheckLevels, TensorInv
<1>2. CASE Fine
  <2>1. model' = "levels" /\ levels' = [l \in 1..Len(Strides) |-> groups[Ordered[l]]]
    BY <1>2 DEF CheckLevels, Fine
  <2>2. /\ Contract
        /\ \A l \in 1..Len(Strides), k \in Kinds : ShapeFits(groups[Ordered[l]][k], l, k)
    BY <1>1, <1>2, LevelsHaveTheirTensors
  <2>3. ASSUME NEW l \in 1..Len(Strides), NEW k \in Kinds
        PROVE  ShapeFits(levels[l][k], l, k)'
    BY <1>1, <2>1, <2>2 DEF ShapeFits, Shape
  <2>4. Contract'
    BY <1>1, <2>2 DEF Contract, ShapeFits, Shape
  <2>5. TensorContract'
    BY <2>1, <2>3, <2>4 DEF TensorContract, Contract, ShapeFits, Kinds
  <2> QED
    BY <1>1, <2>1, <2>5 DEF TensorInv
<1>3. CASE ~Fine
  <2>1. model' = "rejected"
    BY <1>3 DEF CheckLevels, Fine
  <2>2. ~Contract
    BY <1>1, <1>3, LevelsRefusedForAReason
  <2>3. TensorContract'
    BY <1>1, <2>1, <2>2 DEF TensorContract, Contract, ShapeFits, Kinds, Shape
  <2> QED
    BY <1>1, <2>1, <2>3 DEF TensorInv
<1> QED
  BY <1>2, <1>3

LEMMA TensorsStart == Init => TensorInv
BY DEF Init, InitRunner, TensorInv, TensorContract

LEMMA TensorStep == TensorInv /\ [Next]_vars => TensorInv'
<1> SUFFICES ASSUME TensorInv, [Next]_vars PROVE TensorInv'
  OBVIOUS
<1>1. CASE UNCHANGED runner
  <2>1. /\ model' = model /\ outputs' = outputs /\ checked' = checked
        /\ groups' = groups /\ levels' = levels
    BY <1>1 DEF runner
  <2>2. GroupsOK => GroupsOK'
    BY <2>1 DEF GroupsOK, Shape
  <2>3. TensorContract => TensorContract'
    BY <2>1 DEF TensorContract, Shape
  <2> QED
    BY <2>1, <2>2, <2>3 DEF TensorInv
<1>2. CASE ModelUnusable
  BY <1>2 DEF ModelUnusable, TensorInv, TensorContract
<1>3. CASE ModelLoads
  <2>1. outputs' \in Seq(Tensor)
    BY <1>3, RunnerAssumption DEF ModelLoads, Tensor
  <2>2. checked = 0 /\ groups = <<>> /\ checked' = checked /\ groups' = groups
    BY <1>3 DEF ModelLoads, TensorInv
  <2>3. /\ model' = "outputs" => Len(outputs') = 2 * Len(Strides)
        /\ model' = "rejected" => Len(outputs') # 2 * Len(Strides)
        /\ model' \in {"outputs", "rejected"}
    BY <1>3 DEF ModelLoads
  <2>4. DOMAIN groups' = {}
    BY <2>2
  <2>5. GroupsOK'
    BY <2>2, <2>4 DEF GroupsOK
  <2>6. TensorContract'
    BY <2>3 DEF TensorContract
  <2>7. Len(outputs') \in Nat
    BY <2>1
  <2> QED
    BY <2>1, <2>2, <2>3, <2>5, <2>6, <2>7 DEF TensorInv
<1>4. CASE CheckTensor
  BY <1>4, CheckTensorStep
<1>5. CASE CheckLevels
  BY <1>5, CheckLevelsStep
<1>6. CASE CheckBuffers
  BY <1>6 DEF CheckBuffers, TensorInv, TensorContract
<1>7. CASE StartStream
  BY <1>7 DEF StartStream, TensorInv, TensorContract
<1> QED
  BY <1>1, <1>2, <1>3, <1>4, <1>5, <1>6, <1>7
  DEF Next, vars, SelectCamera, UseSelection, CreateDetector, Construct, Infer, Preprocess,
      PreprocessFails, Execute, ExecuteFails, Fails, Decode, UseDetections, DetectFaces, Skip,
      Annotate, Measure, PushAnnotation, NextFrame, Done

(* For any strides whose levels differ and any outputs in any order: a model is rejected for its
   outputs only if they are not a box and a class tensor of the right shape for each stride, and
   each level gets the two of its own shape. *)
THEOREM TensorContractIsKept == Spec => []TensorContract
<1>1. TensorInv => TensorContract
  BY DEF TensorInv
<1> QED
  BY <1>1, TensorsStart, TensorStep, PTL DEF Spec

-------------------------------------------------------------------------------
(* The letterbox *)

\* A quotient is bounded as its fraction is.
LEMMA QuotientBound ==
  ASSUME NEW a \in Nat, NEW b \in Nat \ {0}, NEW c \in Nat, a < b * (c + 1)
  PROVE  a \div b \in 0..c
<1> DEFINE q == a \div b
<1>1. q \in Nat /\ b * q <= a
  OBVIOUS
<1>2. q > c => b * q >= b * (c + 1)
  BY <1>1
<1> QED
  BY <1>1, <1>2

\* The borders of a picture that leaves pad are not negative and add up to it.
LEMMA PadsFit ==
  ASSUME NEW pad \in Nat
  PROVE  PadBefore(pad) \in Nat /\ PadAfter(pad) \in Nat /\ PadBefore(pad) + PadAfter(pad) = pad
BY DEF PadBefore, PadAfter, Round

\* If m * a < n * b then a * m / b, rounded, is at most n.
LEMMA RoundedFits ==
  ASSUME NEW a \in Nat \ {0}, NEW b \in Nat \ {0}, NEW m \in Nat \ {0}, NEW n \in Nat \ {0},
         a * m <= n * b
  PROVE  Round(a * m, b) \in 0..n
<1> DEFINE p == a * m
           q == n * b
<1>1. p \in Nat /\ q \in Nat /\ p <= q
  OBVIOUS
<1>2. (2 * b) * (n + 1) = 2 * q + 2 * b
  OBVIOUS
<1> HIDE DEF p, q
<1>3. 2 * p + b \in Nat /\ 2 * b \in Nat \ {0} /\ 2 * p + b < (2 * b) * (n + 1)
  BY <1>1, <1>2
<1>4. (2 * p + b) \div (2 * b) \in 0..n
  BY <1>3, QuotientBound
<1> QED
  BY <1>4 DEF Round, p

\* The resized picture is within the input.
LEMMA PictureFits ==
  ASSUME NEW c \in Nat \ {0}, NEW r \in Nat \ {0}
  PROVE  ResizedWidth(c, r) \in 0..ModelWidth /\ ResizedHeight(c, r) \in 0..ModelHeight
<1>1. CASE ModelHeight * c < ModelWidth * r
  <2>1. c * ModelHeight <= ModelWidth * r
    BY <1>1, RunnerAssumption
  <2>2. Round(c * ModelHeight, r) \in 0..ModelWidth
    BY <2>1, RunnerAssumption, RoundedFits
  <2> QED
    BY <1>1, <2>2, RunnerAssumption DEF ResizedWidth, ResizedHeight
<1>2. CASE ~(ModelHeight * c < ModelWidth * r)
  <2>1. r * ModelWidth <= ModelHeight * c
    BY <1>2, RunnerAssumption
  <2>2. Round(r * ModelWidth, c) \in 0..ModelHeight
    BY <2>1, RunnerAssumption, RoundedFits
  <2> QED
    BY <1>2, <2>2, RunnerAssumption DEF ResizedWidth, ResizedHeight
<1> QED
  BY <1>1, <1>2

LEMMA LetterboxFills ==
  ASSUME NEW c \in Nat \ {0}, NEW r \in Nat \ {0}
  PROVE  LET b == Letterbox(c, r) IN
         /\ b.left >= 0 /\ b.top >= 0
         /\ ResizedWidth(c, r) + b.left + b.right = ModelWidth
         /\ ResizedHeight(c, r) + b.top + b.bottom = ModelHeight
<1>0. ModelWidth \in Nat /\ ModelHeight \in Nat
  BY RunnerAssumption
<1>1. ResizedWidth(c, r) \in 0..ModelWidth /\ ResizedHeight(c, r) \in 0..ModelHeight
  BY PictureFits
<1>2. PICK padW : padW = ModelWidth - ResizedWidth(c, r)
  OBVIOUS
<1>3. PICK padH : padH = ModelHeight - ResizedHeight(c, r)
  OBVIOUS
<1>4. padW \in Nat /\ padH \in Nat
  BY <1>1, <1>2, <1>3, RunnerAssumption
<1>5. PadBefore(padW) \in Nat /\ PadAfter(padW) \in Nat /\ PadBefore(padW) + PadAfter(padW) = padW
  BY <1>4, PadsFit
<1>6. PadBefore(padH) \in Nat /\ PadAfter(padH) \in Nat /\ PadBefore(padH) + PadAfter(padH) = padH
  BY <1>4, PadsFit
<1>7. /\ Letterbox(c, r).left = PadBefore(padW) /\ Letterbox(c, r).right = PadAfter(padW)
      /\ Letterbox(c, r).top = PadBefore(padH) /\ Letterbox(c, r).bottom = PadAfter(padH)
  BY <1>2, <1>3 DEF Letterbox
<1>8. ResizedWidth(c, r) + PadBefore(padW) + PadAfter(padW) = ModelWidth
  BY <1>0, <1>1, <1>2, <1>5
<1>9. ResizedHeight(c, r) + PadBefore(padH) + PadAfter(padH) = ModelHeight
  BY <1>0, <1>1, <1>3, <1>6
<1>10. PadBefore(padW) >= 0 /\ PadBefore(padH) >= 0
  BY <1>5, <1>6
<1> QED
  BY <1>7, <1>8, <1>9, <1>10

-------------------------------------------------------------------------------
(* The detections *)

\* Each row of outputs has a best class.
LEMMA BestClassIsBest ==
  ASSUME NEW row \in [Classes -> Int]
  PROVE  /\ BestClass(row) \in Classes
         /\ \A j \in Classes : row[j] <= row[BestClass(row)]
<1> DEFINE R == {p \in Classes \X Classes :
                   row[p[1]] > row[p[2]] \/ (row[p[1]] = row[p[2]] /\ p[1] < p[2])}
<1>1. IsFiniteSet(Classes) /\ Classes # {} /\ \A k \in Classes : k \in Int /\ row[k] \in Int
  BY RunnerAssumption
<1>2. \A j, k \in Classes :
        <<j, k>> \in R <=> row[j] > row[k] \/ (row[j] = row[k] /\ j < k)
  OBVIOUS
<1> HIDE DEF R
<1>3. Orders(R, Classes)
  BY <1>1, <1>2 DEF Orders
<1>4. Cardinality(Classes) \in Nat \ {0}
  BY <1>1, FS_CardinalityType, FS_EmptySet
<1>5. PICK k \in Classes : Rank(Classes, R, k) = 0
  BY <1>1, <1>3, <1>4, RanksAreIndices
<1>6. ASSUME NEW j \in Classes PROVE <<j, k>> \notin R
  <2>1. Rank(Classes, R, j) \in Nat
    BY <1>1, RankIsNat
  <2> QED
    BY <1>1, <1>3, <1>5, <2>1, RanksFollowOrder
<1>7. ASSUME NEW j \in Classes PROVE row[j] < row[k] \/ (row[j] = row[k] /\ k <= j)
  <2>1. ~(row[j] > row[k]) /\ ~(row[j] = row[k] /\ j < k)
    BY <1>2, <1>6
  <2>2. j \in Int /\ k \in Int /\ row[j] \in Int /\ row[k] \in Int
    BY <1>1
  <2> QED
    BY <2>1, <2>2
<1>8. PICK b : b = BestClass(row)
  OBVIOUS
<1>9. b \in Classes /\ \A j \in Classes : row[j] < row[b] \/ (row[j] = row[b] /\ b <= j)
  BY <1>7, <1>8 DEF BestClass
<1> QED
  BY <1>1, <1>8, <1>9

ScoresOK(s) == s \in [Cells -> [Classes -> Int]]

\* The scaled output of a cell is that of its best class, and so is its score.
LEMMA ScoreOfCell ==
  ASSUME NEW s, ScoresOK(s), NEW c \in Cells
  PROVE  /\ Scaled(c, s[c]) \in Int /\ Score(c, s[c]) \in Int
         /\ \A k \in Classes : s[c][k] * ClassScale[c[1]] <= Scaled(c, s[c])
         /\ Score(c, s[c]) = IF Scaled(c, s[c]) > Saturated THEN Saturated ELSE Scaled(c, s[c])
<1>1. PICK n \in Nat : n = ClassScale[c[1]]
  BY RunnerAssumption
<1>2. s[c] \in [Classes -> Int]
  BY DEF ScoresOK
<1>3. PICK row \in [Classes -> Int] : row = s[c]
  BY <1>2
<1>4. PICK b \in Classes : b = BestClass(row) /\ \A k \in Classes : row[k] <= row[b]
  BY <1>3, BestClassIsBest
<1>5. Scaled(c, row) = row[b] * n
  BY <1>1, <1>4 DEF Scaled
<1>6. row[b] \in Int /\ \A k \in Classes : row[k] \in Int
  BY <1>4
<1>7. row[b] * n \in Int
  BY <1>6
<1>8. ASSUME NEW k \in Classes PROVE row[k] * n <= row[b] * n
  <2>1. PICK x \in Int : x = row[k]
    BY <1>6
  <2>2. PICK y \in Int : y = row[b]
    BY <1>6
  <2>3. x <= y
    BY <1>4, <2>1, <2>2
  <2>4. x * n <= y * n
    BY <2>3
  <2> QED
    BY <2>1, <2>2, <2>4
<1>9. Saturated \in Int
  BY RunnerAssumption
<1> QED
  BY <1>1, <1>3, <1>5, <1>7, <1>8, <1>9 DEF Score

BetterPairs(s) == {p \in Cells \X Cells : Better(p[1], p[2], s)}

\* Of any two cells one is better: equal scores are told apart by the order of reading.
LEMMA BetterIsOrder ==
  ASSUME NEW s, ScoresOK(s), NEW S \in SUBSET Cells
  PROVE  Orders(BetterPairs(s), S)
<1>1. \A c \in Cells : Score(c, s[c]) \in Int /\ c \in Int \X Int
  BY ScoreOfCell, RunnerAssumption
<1>2. \A c, d \in Cells : <<c, d>> \in BetterPairs(s) <=>
        \/ Score(c, s[c]) > Score(d, s[d])
        \/ Score(c, s[c]) = Score(d, s[d]) /\ ReadBefore(c, d)
  BY DEF BetterPairs, Better
<1>3. \A c \in Cells : ~ReadBefore(c, c)
  BY <1>1 DEF ReadBefore
<1>4. \A c, d, e \in Cells : ReadBefore(c, d) /\ ReadBefore(d, e) => ReadBefore(c, e)
  BY <1>1 DEF ReadBefore
<1>5. \A c, d \in Cells : c = d \/ ReadBefore(c, d) \/ ReadBefore(d, c)
  BY <1>1 DEF ReadBefore
<1>6. \A c \in S : <<c, c>> \notin BetterPairs(s)
  BY <1>1, <1>2, <1>3
<1>7. \A c, d, e \in S :
        <<c, d>> \in BetterPairs(s) /\ <<d, e>> \in BetterPairs(s) => <<c, e>> \in BetterPairs(s)
  BY <1>1, <1>2, <1>4
<1>8. ASSUME NEW c \in S, NEW d \in S
      PROVE  c = d \/ <<c, d>> \in BetterPairs(s) \/ <<d, c>> \in BetterPairs(s)
  <2>1. PICK x \in Int : x = Score(c, s[c])
    BY <1>1
  <2>2. PICK y \in Int : y = Score(d, s[d])
    BY <1>1
  <2>3. x > y \/ y > x \/ x = y
    OBVIOUS
  <2> QED
    BY <1>2, <1>5, <2>1, <2>2, <2>3
<1> QED
  BY <1>6, <1>7, <1>8 DEF Orders

Beats(d, c, s) ==
  \E k \in Classes : /\ s[d][k] * ClassScale[d[1]] > Scaled(c, s[c])
                     /\ Scaled(c, s[c]) < Saturated

\* A cell with a larger output in any class is the better one, unless both saturate.
LEMMA LargerOutputIsBetter ==
  ASSUME NEW s, ScoresOK(s), NEW c \in Cells, NEW d \in Cells, Beats(d, c, s)
  PROVE  <<d, c>> \in BetterPairs(s)
<1>1. PICK k \in Classes : /\ s[d][k] * ClassScale[d[1]] > Scaled(c, s[c])
                           /\ Scaled(c, s[c]) < Saturated
  BY DEF Beats
<1>2. PICK v : v = s[d][k] * ClassScale[d[1]]
  OBVIOUS
<1>3. v \in Int
  <2>1. s[d][k] \in Int /\ ClassScale[d[1]] \in Int
    BY RunnerAssumption DEF ScoresOK
  <2> QED
    BY <1>2, <2>1
<1>4. v <= Scaled(d, s[d])
  BY <1>2, ScoreOfCell
<1>5. PICK a \in Int : a = Scaled(c, s[c])
  BY ScoreOfCell
<1>6. PICK b \in Int : b = Scaled(d, s[d])
  BY ScoreOfCell
<1>7. /\ Score(c, s[c]) = IF a > Saturated THEN Saturated ELSE a
      /\ Score(d, s[d]) = IF b > Saturated THEN Saturated ELSE b
  BY <1>5, <1>6, ScoreOfCell
<1>8. Saturated \in Int /\ a < Saturated /\ a < v /\ v <= b
  BY <1>1, <1>2, <1>4, <1>5, <1>6, RunnerAssumption
<1>9. Score(d, s[d]) > Score(c, s[c])
  BY <1>3, <1>7, <1>8
<1> QED
  BY <1>9 DEF BetterPairs, Better

\* The members of a set of cells by rank, as a list.
ByRank(S, s) == [i \in 1..Cardinality(S) |-> CHOOSE c \in S : Rank(S, BetterPairs(s), c) = i - 1]

LEMMA ListedByRank ==
  ASSUME NEW s, ScoresOK(s), NEW S \in SUBSET Cells
  PROVE  /\ ByRank(S, s) \in Seq(S) /\ Len(ByRank(S, s)) = Cardinality(S)
         /\ Cardinality(S) \in Nat /\ IsFiniteSet(S)
         /\ \A i \in 1..Cardinality(S) : Rank(S, BetterPairs(s), ByRank(S, s)[i]) = i - 1
         /\ \A c \in S : \E i \in 1..Cardinality(S) : ByRank(S, s)[i] = c
<1> DEFINE n == Cardinality(S)
           R == BetterPairs(s)
           list == ByRank(S, s)
<1>1. IsFiniteSet(S) /\ n \in Nat
  BY RunnerAssumption, FS_Subset, FS_CardinalityType
<1>2. Orders(R, S)
  BY BetterIsOrder
<1> HIDE DEF n, R
<1>3. \A i \in 1..n : \E c \in S : Rank(S, R, c) = i - 1
  BY <1>1, <1>2, RanksAreIndices DEF n
<1>4. \A i \in 1..n : list[i] \in S /\ Rank(S, R, list[i]) = i - 1
  BY <1>3 DEF ByRank, n, R
<1>5. list \in [1..n -> S]
  BY <1>4 DEF ByRank, n
<1>6. list \in Seq(S) /\ Len(list) = n
  BY <1>1, <1>5
<1>7. ASSUME NEW c \in S PROVE \E i \in 1..n : list[i] = c
  <2>1. Rank(S, R, c) \in Nat /\ Rank(S, R, c) < n
    BY <1>1, <1>2, RankIsNat DEF n
  <2>2. PICK i \in 1..n : i = Rank(S, R, c) + 1
    BY <1>1, <2>1
  <2>3. list[i] \in S /\ Rank(S, R, list[i]) = Rank(S, R, c)
    BY <1>4, <2>1, <2>2
  <2>4. list[i] = c
    BY <1>1, <1>2, <2>3, RanksAreIndices
  <2> QED
    BY <2>4
<1> HIDE DEF list
<1> QED
  BY <1>1, <1>4, <1>6, <1>7 DEF n, R, list

\* Of the cells over the threshold, those with fewer than max_detections better ones.
Found(s, t) == {c \in Cells : Passes(c, s[c], t)}
Best(s, t) == {c \in Found(s, t) : Rank(Found(s, t), BetterPairs(s), c) < MaxDetections}

\* The rank of a cell that is kept is the same among all and among those kept.
LEMMA RankAmongBest ==
  ASSUME NEW s, ScoresOK(s), NEW t, NEW c \in Best(s, t)
  PROVE  Rank(Best(s, t), BetterPairs(s), c) = Rank(Found(s, t), BetterPairs(s), c)
<1> DEFINE R == BetterPairs(s)
<1>1. Found(s, t) \in SUBSET Cells /\ IsFiniteSet(Cells) /\ MaxDetections \in Nat
  BY RunnerAssumption DEF Found
<1>2. IsFiniteSet(Found(s, t)) /\ Orders(R, Found(s, t))
  BY <1>1, FS_Subset, BetterIsOrder
<1>3. c \in Found(s, t) /\ Rank(Found(s, t), R, c) < MaxDetections
  BY DEF Best
<1>4. ASSUME NEW d \in Found(s, t), <<d, c>> \in R
      PROVE  d \in Best(s, t)
  <2>1. Rank(Found(s, t), R, d) < Rank(Found(s, t), R, c)
    BY <1>2, <1>3, <1>4, RanksFollowOrder
  <2>2. Rank(Found(s, t), R, d) \in Nat /\ Rank(Found(s, t), R, c) \in Nat
    BY <1>2, RankIsNat
  <2>3. Rank(Found(s, t), R, d) < MaxDetections
    BY <1>1, <1>3, <2>1, <2>2
  <2> QED
    BY <2>3 DEF Best
<1>5. Best(s, t) \subseteq Found(s, t)
  BY DEF Best
<1>6. {d \in Best(s, t) : <<d, c>> \in R} = {d \in Found(s, t) : <<d, c>> \in R}
  BY <1>4, <1>5
<1> QED
  BY <1>6 DEF Rank

\* decode returns the best cells by rank.
LEMMA DecodedIsBest ==
  ASSUME NEW s, NEW t
  PROVE  Decoded(s, t) = ByRank(Best(s, t), s)
<1> DEFINE found == {c \in Cells : Passes(c, s[c], t)}
           kept == {c \in found : Cardinality({d \in found : Better(d, c, s)}) < MaxDetections}
<1>1. found = Found(s, t) /\ found \subseteq Cells
  BY DEF Found
<1>2. ASSUME NEW S \in SUBSET Cells, NEW c \in S
      PROVE  Cardinality({d \in S : Better(d, c, s)}) = Rank(S, BetterPairs(s), c)
  <2>1. {d \in S : Better(d, c, s)} = {d \in S : <<d, c>> \in BetterPairs(s)}
    BY DEF BetterPairs
  <2> QED
    BY <2>1 DEF Rank
<1> HIDE DEF found
<1>3. kept = Best(s, t)
  BY <1>1, <1>2 DEF Best
<1>4. kept \subseteq Cells
  BY <1>1
<1>5. Decoded(s, t) =
        [i \in 1..Cardinality(kept) |->
           CHOOSE c \in kept : Cardinality({d \in kept : Better(d, c, s)}) = i - 1]
  BY DEF Decoded, found
<1> HIDE DEF kept
<1>6. ASSUME NEW i
      PROVE  (CHOOSE c \in kept : Cardinality({d \in kept : Better(d, c, s)}) = i - 1)
               = (CHOOSE c \in kept : Rank(kept, BetterPairs(s), c) = i - 1)
  <2>1. \A c : c \in kept /\ Cardinality({d \in kept : Better(d, c, s)}) = i - 1
               <=> c \in kept /\ Rank(kept, BetterPairs(s), c) = i - 1
    BY <1>2, <1>4
  <2> QED
    BY <2>1
<1> QED
  BY <1>3, <1>5, <1>6 DEF ByRank

\* What KeepsTheBest says of a list of detections.
IsBest(list, s, t) ==
  LET kept == {list[i] : i \in 1..Len(list)} IN
  /\ Len(list) <= MaxDetections /\ Cardinality(kept) = Len(list)
  /\ \A c \in kept : Passes(c, s[c], t)
  /\ \A d \in Cells \ kept : Passes(d, s[d], t) =>
       Len(list) = MaxDetections /\ \A c \in kept : ~Beats(d, c, s)
  /\ \A i, j \in 1..Len(list) : i < j => ~Beats(list[j], list[i], s)

LEMMA DecodeKeepsTheBest ==
  ASSUME NEW s, ScoresOK(s), NEW t, NEW list, list = Decoded(s, t)
  PROVE  IsBest(list, s, t)
<1> DEFINE R == BetterPairs(s)
           F == Found(s, t)
           B == Best(s, t)
           n == Cardinality(B)
<1>1. F \in SUBSET Cells /\ B \in SUBSET F /\ IsFiniteSet(Cells) /\ MaxDetections \in Nat \ {0}
  BY RunnerAssumption DEF Found, Best
<1>2. B \in SUBSET Cells
  BY <1>1
<1>3. /\ IsFiniteSet(F) /\ IsFiniteSet(B) /\ Cardinality(F) \in Nat /\ n \in Nat
      /\ Orders(R, F) /\ Orders(R, B)
  BY <1>1, <1>2, FS_Subset, FS_CardinalityType, BetterIsOrder
<1>4. list = ByRank(B, s)
  BY DecodedIsBest
<1>5. /\ list \in Seq(B) /\ Len(list) = n /\ {list[i] : i \in 1..n} = B
      /\ \A i \in 1..n : list[i] \in B /\ Rank(B, R, list[i]) = i - 1
  <2>1. /\ ByRank(B, s) \in Seq(B) /\ Len(ByRank(B, s)) = n
        /\ \A i \in 1..n : Rank(B, R, ByRank(B, s)[i]) = i - 1
        /\ \A c \in B : \E i \in 1..n : ByRank(B, s)[i] = c
    <3> HIDE DEF B
    <3>1. ByRank(B, s) \in Seq(B) /\ Len(ByRank(B, s)) = Cardinality(B)
      BY <1>2, ListedByRank, Zenon
    <3>2. \A i \in 1..Cardinality(B) : Rank(B, BetterPairs(s), ByRank(B, s)[i]) = i - 1
      BY <1>2, ListedByRank, Zenon
    <3>3. \A c \in B : \E i \in 1..Cardinality(B) : ByRank(B, s)[i] = c
      BY <1>2, ListedByRank, Zenon
    <3> QED
      BY <3>1, <3>2, <3>3, Zenon
  <2>2. \A i \in 1..n : ByRank(B, s)[i] \in B
    BY <2>1
  <2> QED
    BY <1>4, <2>1, <2>2
<1>6. \A c \in B : Rank(B, R, c) = Rank(F, R, c)
  BY RankAmongBest
<1>7. \A c \in F : c \in B <=> Rank(F, R, c) < MaxDetections
  BY DEF Best
<1>8. \A c \in F : Rank(F, R, c) \in Nat /\ Rank(F, R, c) < Cardinality(F)
  BY <1>3, RankIsNat
<1>9. \A d \in F, c \in F : Beats(d, c, s) => Rank(F, R, d) < Rank(F, R, c)
  BY <1>1, <1>3, LargerOutputIsBetter, RanksFollowOrder
<1>10. \A c \in B : Passes(c, s[c], t)
  BY <1>1 DEF Found
<1>11. \A d \in Cells : Passes(d, s[d], t) => d \in F
  BY DEF Found
<1> HIDE DEF F, B, R, n
<1>12. n <= MaxDetections
  <2>1. CASE n > 0
    <3>1. n \in 1..n
      BY <1>3, <2>1
    <3>2. list[n] \in B /\ Rank(F, R, list[n]) = n - 1
      BY <1>5, <1>6, <3>1
    <3>3. n - 1 < MaxDetections
      BY <1>1, <1>7, <3>2
    <3> QED
      BY <1>1, <1>3, <3>3
  <2> QED
    BY <1>1, <1>3, <2>1
<1>13. ASSUME NEW d \in F \ B
       PROVE  n = MaxDetections /\ \A c \in B : ~Beats(d, c, s)
  <2>1. Rank(F, R, d) \in Nat /\ MaxDetections <= Rank(F, R, d) /\ Rank(F, R, d) < Cardinality(F)
    BY <1>1, <1>7, <1>8
  <2>2. PICK c \in F : Rank(F, R, c) = MaxDetections - 1
    <3>1. MaxDetections - 1 \in 0..Cardinality(F) - 1
      BY <1>1, <1>3, <2>1
    <3> QED
      BY <1>3, <3>1, RanksAreIndices
  <2>3. c \in B
    BY <1>1, <1>7, <2>2
  <2>4. Rank(B, R, c) = MaxDetections - 1 /\ Rank(B, R, c) < n
    BY <1>3, <1>6, <2>2, <2>3, RankIsNat DEF n
  <2>5. n = MaxDetections
    BY <1>1, <1>3, <1>12, <2>4
  <2>6. ASSUME NEW b \in B, Beats(d, b, s) PROVE FALSE
    <3>1. Rank(F, R, d) < Rank(F, R, b) /\ Rank(F, R, b) < MaxDetections /\ Rank(F, R, b) \in Nat
      BY <1>1, <1>7, <1>8, <1>9, <2>6
    <3> QED
      BY <1>1, <2>1, <3>1
  <2> QED
    BY <2>5, <2>6
<1>14. ASSUME NEW i \in 1..n, NEW j \in 1..n, i < j, Beats(list[j], list[i], s)
       PROVE  FALSE
  <2>1. list[i] \in B /\ list[j] \in B /\ Rank(F, R, list[i]) = i - 1 /\ Rank(F, R, list[j]) = j - 1
    BY <1>5, <1>6
  <2>2. Rank(F, R, list[j]) < Rank(F, R, list[i])
    BY <1>1, <1>9, <1>14, <2>1
  <2> QED
    BY <1>3, <1>14, <2>1, <2>2
<1>15. \A d \in Cells \ B : Passes(d, s[d], t) => n = MaxDetections /\ \A c \in B : ~Beats(d, c, s)
  BY <1>11, <1>13
<1>16. Cardinality(B) = n
  BY DEF n
<1> QED
  BY <1>5, <1>10, <1>12, <1>14, <1>15, <1>16 DEF IsBest

DetectionsInv ==
  /\ step \in {"output", "decoded"} => ScoresOK(scores)
  /\ KeepsTheBest

LEMMA DetectionsStart == Init => DetectionsInv
BY DEF Init, DetectionsInv, KeepsTheBest

LEMMA DetectionsStep == DetectionsInv /\ [Next]_vars => DetectionsInv'
<1> SUFFICES ASSUME DetectionsInv, [Next]_vars PROVE DetectionsInv'
  OBVIOUS
<1>0. (KeepsTheBest <=> (step = "decoded" => IsBest(todo, scores, threshold)))
        /\ (KeepsTheBest <=> (step = "decoded" => IsBest(todo, scores, threshold)))'
  BY DEF KeepsTheBest, IsBest, Beats
<1>1. CASE UNCHANGED frame
  <2>1. step' = step /\ todo' = todo /\ scores' = scores /\ threshold' = threshold
    BY <1>1 DEF frame
  <2> QED
    BY <1>0, <2>1 DEF DetectionsInv
<1>2. CASE Execute
  <2>1. scores' \in [Cells -> [Classes -> Outputs]] /\ step' = "output"
    BY <1>2 DEF Execute
  <2>2. ScoresOK(scores')
    BY <2>1, RunnerAssumption DEF ScoresOK
  <2> QED
    BY <2>1, <2>2 DEF DetectionsInv, KeepsTheBest
<1>3. CASE Decode
  <2>1. /\ step = "output" /\ step' = "decoded" /\ scores' = scores /\ threshold' = threshold
        /\ todo' = Decoded(scores, threshold)
    BY <1>3 DEF Decode
  <2>2. ScoresOK(scores)
    BY <2>1 DEF DetectionsInv
  <2>3. IsBest(todo', scores, threshold)
    BY <2>1, <2>2, DecodeKeepsTheBest
  <2>4. KeepsTheBest'
    BY <1>0, <2>1, <2>3
  <2> QED
    BY <2>1, <2>2, <2>4 DEF DetectionsInv
<1>4. CASE step' \notin {"output", "decoded"}
  BY <1>4 DEF DetectionsInv, KeepsTheBest
<1> QED
  BY <1>1, <1>2, <1>3, <1>4
  DEF Next, vars, SelectCamera, UseSelection, CreateDetector, StartStream, Infer, Preprocess,
      PreprocessFails, ExecuteFails, Fails, UseDetections, DetectFaces, Skip, Annotate, Measure,
      PushAnnotation, NextFrame, Done

(* For any grids, classes, outputs and limit: of the cells over the threshold decode keeps at
   most max_detections, best first, and none it drops would have a better score. *)
THEOREM BestAreKept == Spec => []KeepsTheBest
<1>1. DetectionsInv => KeepsTheBest
  BY DEF DetectionsInv
<1> QED
  BY <1>1, DetectionsStart, DetectionsStep, PTL DEF Spec

-------------------------------------------------------------------------------
(* Boxes and depth regions *)

\* A region around the middle of a side that is in the picture has a length in it.
LEMMA HalfRoiIsPositive ==
  ASSUME NEW length \in Nat \ {0}
  PROVE  HalfRoi(length) \in Nat \ {0}
<1>1. PICK n \in Nat : n = length * RoiScale[1]
  BY CoreAssumption
<1>2. PICK d \in Nat \ {0} : d = RoiScale[2]
  BY CoreAssumption
<1>3. n \div d \in Int
  BY <1>1, <1>2
<1>4. Greater(2, n \div d) \in Int /\ Greater(2, n \div d) >= 2
  BY <1>3 DEF Greater
<1> QED
  BY <1>1, <1>2, <1>4 DEF HalfRoi

LEMMA SideHasLength ==
  ASSUME NEW size \in Nat \ {0, 1}, NEW start \in Nat, NEW length \in Nat \ {0},
         start + length <= size, NEW half \in Nat \ {0}
  PROVE  LET middle == start + length \div 2
             low == Clamp(middle - half, 0, size - 1)
             high == Clamp(middle + half, 0, size - 1)
         IN low \in Nat /\ high \in Nat /\ low < high /\ high < size
BY DEF Clamp

\* Either program's box is in the picture.
InPicture(b) ==
  b.width > 0 /\ b.height > 0 =>
    /\ b \in [x : Nat, y : Nat, width : Nat \ {0}, height : Nat \ {0}]
    /\ b.x + b.width <= cols /\ b.y + b.height <= rows

LEMMA BoxInPicture ==
  ASSUME cols \in Nat \ {0, 1}, rows \in Nat \ {0, 1},
         NEW a \in Int, NEW b \in Int, NEW e \in Int, NEW f \in Int
  PROVE  InPicture(YoloBox(a, b, e, f)) /\ InPicture(FaceBox(a, b, e, f))
<1>1. InPicture(YoloBox(a, b, e, f))
  BY DEF InPicture, YoloBox, Clamp
<1>2. InPicture(FaceBox(a, b, e, f))
  BY DEF InPicture, FaceBox, Clamp, Lesser
<1> QED
  BY <1>1, <1>2

LEMMA RegionInPicture ==
  ASSUME cols \in Nat \ {0, 1}, rows \in Nat \ {0, 1},
         NEW b \in [x : Nat, y : Nat, width : Nat \ {0}, height : Nat \ {0}],
         b.x + b.width <= cols, b.y + b.height <= rows
  PROVE  LET r == DepthRoi(b) IN
         /\ r \in [x1 : Nat, y1 : Nat, x2 : Nat, y2 : Nat]
         /\ r.x1 < r.x2 /\ r.x2 < cols /\ r.y1 < r.y2 /\ r.y2 < rows
<1>1. HalfRoi(b.width) \in Nat \ {0} /\ HalfRoi(b.height) \in Nat \ {0}
  BY HalfRoiIsPositive
<1>2. PICK cx : cx = b.x + b.width \div 2
  OBVIOUS
<1>3. PICK cy : cy = b.y + b.height \div 2
  OBVIOUS
<1> DEFINE x1 == Clamp(cx - HalfRoi(b.width), 0, cols - 1)
           x2 == Clamp(cx + HalfRoi(b.width), 0, cols - 1)
           y1 == Clamp(cy - HalfRoi(b.height), 0, rows - 1)
           y2 == Clamp(cy + HalfRoi(b.height), 0, rows - 1)
<1>4. x1 \in Nat /\ x2 \in Nat /\ x1 < x2 /\ x2 < cols
  BY <1>1, <1>2, SideHasLength
<1>5. y1 \in Nat /\ y2 \in Nat /\ y1 < y2 /\ y2 < rows
  BY <1>1, <1>3, SideHasLength
<1>6. DepthRoi(b) = [x1 |-> x1, y1 |-> y1, x2 |-> x2, y2 |-> y2]
  BY <1>2, <1>3 DEF DepthRoi
<1> HIDE DEF x1, x2, y1, y2
<1> QED
  BY <1>4, <1>5, <1>6

-------------------------------------------------------------------------------
(* The median *)

\* A median lies in every range with more than half of the readings.
LEMMA MedianIsRobust ==
  ASSUME NEW r \in [Points -> 0..MaxRaw], NEW v \in 0..MaxRaw, IsMedian(r, v),
         NEW low \in 0..MaxRaw, NEW high \in 0..MaxRaw,
         2 * Cardinality({p \in Kept(r) : r[p] \in low..high}) > Cardinality(Kept(r))
  PROVE  v \in low..high
<1> DEFINE Most == {p \in Kept(r) : r[p] \in low..high}
<1>1. MaxRaw \in Nat /\ IsFiniteSet(Points)
  BY CoreAssumption
<1>2. IsFiniteSet(Kept(r)) /\ Kept(r) \in SUBSET Points
  BY <1>1, FS_Subset DEF Kept
<1>3. /\ Most \in SUBSET Kept(r) /\ Below(r, v) \in SUBSET Kept(r) /\ UpTo(r, v) \in SUBSET Kept(r)
  BY DEF Below, UpTo
<1>4. /\ IsFiniteSet(Most) /\ IsFiniteSet(Below(r, v)) /\ IsFiniteSet(UpTo(r, v))
  BY <1>2, <1>3, FS_Subset
<1>5. /\ Cardinality(Most) \in Nat /\ Cardinality(Below(r, v)) \in Nat
      /\ Cardinality(UpTo(r, v)) \in Nat /\ Cardinality(Kept(r)) \in Nat
  BY <1>2, <1>4, FS_CardinalityType
<1>6. /\ Cardinality(Below(r, v)) <= Cardinality(Kept(r)) \div 2
      /\ Cardinality(UpTo(r, v)) > Cardinality(Kept(r)) \div 2
  BY DEF IsMedian
<1>7. ASSUME v > high PROVE FALSE
  <2>1. Most \in SUBSET Below(r, v)
    BY <1>1, <1>2, <1>7 DEF Below
  <2>2. Cardinality(Most) <= Cardinality(Below(r, v))
    BY <1>4, <2>1, FS_Subset
  <2> HIDE DEF Most
  <2> QED
    BY <1>5, <1>6, <2>2 DEF Most
<1>8. ASSUME v < low PROVE FALSE
  <2>1. Most \cap UpTo(r, v) = {}
    BY <1>1, <1>2, <1>8 DEF UpTo
  <2>2. Cardinality(Most \cap UpTo(r, v)) = 0
    BY <2>1, FS_EmptySet
  <2>3. Cardinality(Most \cup UpTo(r, v))
          = Cardinality(Most) + Cardinality(UpTo(r, v)) - Cardinality(Most \cap UpTo(r, v))
    BY <1>4, FS_Union
  <2>4. Cardinality(Most \cup UpTo(r, v)) <= Cardinality(Kept(r))
    BY <1>2, <1>3, FS_Subset
  <2> HIDE DEF Most
  <2> QED
    BY <1>5, <1>6, <2>2, <2>3, <2>4 DEF Most
<1> QED
  BY <1>1, <1>7, <1>8

-------------------------------------------------------------------------------
(* The frame *)

FrameInv == FrameTypeOK /\ LetterboxFits /\ RoiIsNeverEmpty /\ DistanceIsRobust

LEMMA FrameStarts == Init => FrameInv
BY CoreAssumption
DEF Init, FrameInv, FrameTypeOK, LetterboxFits, RoiIsNeverEmpty, DistanceIsRobust, NoBox, NoRoi,
    NoReadings

LEMMA PreprocessStep ==
  ASSUME FrameInv, Preprocess
  PROVE  FrameInv'
<1>1. cols \in Nat \ {0} /\ rows \in Nat \ {0}
  BY CoreAssumption DEF FrameInv, FrameTypeOK, Preprocess
<1>2. LetterboxFits'
  <2>1. letterbox' = Letterbox(cols, rows) /\ cols' = cols /\ rows' = rows
    BY DEF Preprocess
  <2>2. /\ letterbox'.left >= 0 /\ letterbox'.top >= 0
        /\ ResizedWidth(cols, rows) + letterbox'.left + letterbox'.right = ModelWidth
        /\ ResizedHeight(cols, rows) + letterbox'.top + letterbox'.bottom = ModelHeight
    BY <1>1, <2>1, LetterboxFills
  <2> QED
    BY <2>1, <2>2 DEF LetterboxFits
<1> QED
  BY <1>2 DEF Preprocess, FrameInv, FrameTypeOK, RoiIsNeverEmpty, DistanceIsRobust

LEMMA AnnotateStep ==
  ASSUME FrameInv, Annotate
  PROVE  FrameInv'
<1>1. cols \in Nat \ {0, 1} /\ rows \in Nat \ {0, 1} /\ cols' = cols /\ rows' = rows
  BY CoreAssumption DEF FrameInv, FrameTypeOK, Annotate
<1>2. PICK a \in Int, b \in Int, e \in Int, f \in Int :
        box' \in {YoloBox(a, b, e, f), FaceBox(a, b, e, f)}
  BY CoreAssumption DEF Annotate
<1>3. box'.width > 0 /\ box'.height > 0 /\ roi' = DepthRoi(box')
  BY DEF Annotate
<1>4. /\ box' \in [x : Nat, y : Nat, width : Nat \ {0}, height : Nat \ {0}]
      /\ box'.x + box'.width <= cols /\ box'.y + box'.height <= rows
  <2>1. InPicture(YoloBox(a, b, e, f)) /\ InPicture(FaceBox(a, b, e, f))
    BY <1>1, BoxInPicture
  <2> QED
    BY <1>2, <1>3, <2>1 DEF InPicture
<1>5. /\ roi' \in [x1 : Nat, y1 : Nat, x2 : Nat, y2 : Nat]
      /\ roi'.x1 < roi'.x2 /\ roi'.x2 < cols /\ roi'.y1 < roi'.y2 /\ roi'.y2 < rows
  BY <1>1, <1>3, <1>4, RegionInPicture
<1>6. box' \in [x : Nat, y : Nat, width : Nat, height : Nat]
  BY <1>4
<1> QED
  BY <1>1, <1>4, <1>5, <1>6
  DEF Annotate, FrameInv, FrameTypeOK, LetterboxFits, RoiIsNeverEmpty, DistanceIsRobust

LEMMA MeasureStep ==
  ASSUME FrameInv, Measure
  PROVE  FrameInv'
<1>1. readings' \in [Points -> 0..MaxRaw] /\ distance' \in 0..MaxRaw
  BY CoreAssumption DEF Measure, NoReadings
<1>2. DistanceIsRobust'
  <2>1. CASE Kept(readings') = {} /\ distance' = 0
    <3>1. \A low, high \in 0..MaxRaw : {p \in Kept(readings') : readings'[p] \in low..high} = {}
      BY <2>1
    <3>2. Cardinality({}) = 0
      BY FS_EmptySet
    <3> QED
      BY <2>1, <3>1, <3>2 DEF DistanceIsRobust, Kept
  <2>2. CASE IsMedian(readings', distance')
    <3>1. Kept(readings') # {} /\ distance' # 0
      BY <2>2 DEF IsMedian, Kept
    <3>2. \A low, high \in 0..MaxRaw :
            2 * Cardinality({p \in Kept(readings') : readings'[p] \in low..high})
                > Cardinality(Kept(readings')) => distance' \in low..high
      BY <1>1, <2>2, MedianIsRobust
    <3> QED
      BY <3>1, <3>2 DEF DistanceIsRobust, Kept
  <2>3. CASE readings' = NoReadings /\ distance' = 0
    BY <2>1, <2>3 DEF NoReadings, Kept
  <2> QED
    BY <2>1, <2>2, <2>3 DEF Measure
<1> QED
  BY <1>1, <1>2 DEF Measure, FrameInv, FrameTypeOK, LetterboxFits, RoiIsNeverEmpty

LEMMA FrameStep == FrameInv /\ [Next]_vars => FrameInv'
<1> SUFFICES ASSUME FrameInv, [Next]_vars PROVE FrameInv'
  OBVIOUS
<1> USE DEF FrameInv, FrameTypeOK, LetterboxFits, RoiIsNeverEmpty, DistanceIsRobust
<1>1. CASE UNCHANGED <<program, frame>>
  BY <1>1 DEF frame, Kept
<1>2. CASE StartStream
  BY <1>2, CoreAssumption DEF StartStream
<1>3. CASE Preprocess
  BY <1>3, PreprocessStep
<1>4. CASE PreprocessFails \/ ExecuteFails
  BY <1>4 DEF PreprocessFails, ExecuteFails, Fails
<1>5. CASE Execute
  BY <1>5 DEF Execute, Kept
<1>6. CASE Decode
  BY <1>6 DEF Decode, Kept
<1>7. CASE UseDetections \/ DetectFaces
  BY <1>7 DEF UseDetections, DetectFaces, Kept
<1>8. CASE Skip
  BY <1>8 DEF Skip
<1>9. CASE Annotate
  BY <1>9, AnnotateStep
<1>10. CASE Measure
  BY <1>10, MeasureStep
<1>11. CASE PushAnnotation
  BY <1>11, CoreAssumption DEF PushAnnotation, NoBox, NoRoi, NoReadings
<1>12. CASE NextFrame
  BY <1>12 DEF NextFrame
<1> QED
  BY <1>1, <1>2, <1>3, <1>4, <1>5, <1>6, <1>7, <1>8, <1>9, <1>10, <1>11, <1>12
  DEF Next, vars, SelectCamera, UseSelection, CreateDetector, Infer, Done

(* Types of a frame, from its sizes to its distances. *)
THEOREM FrameTypes == Spec => []FrameTypeOK
<1>1. FrameInv => FrameTypeOK
  BY DEF FrameInv
<1> QED
  BY <1>1, FrameStarts, FrameStep, PTL DEF Spec

(* Every picture, resized and bordered, fills every model input exactly. *)
THEOREM PictureFillsInput == Spec => []LetterboxFits
<1>1. FrameInv => LetterboxFits
  BY DEF FrameInv
<1> QED
  BY <1>1, FrameStarts, FrameStep, PTL DEF Spec

(* Every box an annotation can have has a depth region in the picture that is not empty. *)
THEOREM RegionsAreNeverEmpty == Spec => []RoiIsNeverEmpty
<1>1. FrameInv => RoiIsNeverEmpty
  BY DEF FrameInv
<1> QED
  BY <1>1, FrameStarts, FrameStep, PTL DEF Spec

(* A distance is in every range with more than half of the readings it is the median of. *)
THEOREM DistancesAreRobust == Spec => []DistanceIsRobust
<1>1. FrameInv => DistanceIsRobust
  BY DEF FrameInv
<1> QED
  BY <1>1, FrameStarts, FrameStep, PTL DEF Spec

===============================================================================
