----------------------------- MODULE Video_proofs -----------------------------
(***************************************************************************)
(* Proofs about the video of the RPi sender: GstVideoSender, for any       *)
(* number of frames and restarts, any clock and any acquisition times, and *)
(* EncoderPreflight, which chose its encoder, for each --encoder option,   *)
(* any sizes of the pipe and of the tail kept, and any output of the child.*)
(***************************************************************************)
EXTENDS GstVideoSender, EncoderPreflight, TLAPS

\* Which pipeline is current, which is being torn down, and which were released.
OwnInv ==
  /\ PipelinesAccountedFor
  /\ running <=> pipeline # None
  /\ appsrc = pipeline
  /\ doomed # None => pipeline = None
  /\ \A p \in owned : p <= built
  /\ pushPc # "idle" => source <= built

\* A frame that is being copied has its time stamp still to come.
StampInv ==
  /\ lastPts <= reached + frame
  /\ pushPc = "copying" => lastPts < reached + frame

\* What is in a pipeline that is still the sender's: at most one frame before the
\* queue and one in it, in the order of their pushes and their time stamps, behind
\* what its encoder has taken and not ahead of the last time stamp.
Before(f, g) == f.frame < g.frame /\ f.pts < g.pts

Holds(p, f) == f.pipeline = p /\ f.frame <= frame /\ f.pts <= lastPts

Pending(p) == pushPc \in {"copying", "stamped"} /\ source = p

Chain(p) ==
  /\ Len(input[p]) <= 1 /\ Len(raw[p]) <= 1
  /\ input[p] # <<>> => Holds(p, input[p][1])
  /\ raw[p] # <<>> => Holds(p, raw[p][1])
  /\ input[p] # <<>> /\ raw[p] # <<>> => Before(raw[p][1], input[p][1])
  /\ encoded.pipeline = p =>
       /\ Holds(p, encoded)
       /\ input[p] # <<>> => Before(encoded, input[p][1])
       /\ raw[p] # <<>> => Before(encoded, raw[p][1])
  /\ Pending(p) =>
       /\ input[p] # <<>> => input[p][1].frame < frame
       /\ raw[p] # <<>> => raw[p][1].frame < frame
       /\ encoded.pipeline = p => encoded.frame < frame
  /\ Pending(p) /\ pushPc = "stamped" =>
       /\ pts = lastPts
       /\ input[p] # <<>> => input[p][1].pts < pts
       /\ raw[p] # <<>> => raw[p][1].pts < pts
       /\ encoded.pipeline = p => encoded.pts < pts

ChainInv == \A p \in owned : Chain(p)

\* The newest frame that entered is the last one of its pipeline.
LatestInv == \A p \in owned :
  /\ entered.pipeline = p =>
       IF input[p] # <<>> THEN input[p] = <<entered>>
       ELSE IF raw[p] # <<>> THEN raw[p] = <<entered>>
       ELSE entered = encoded
  /\ entered.pipeline # p => input[p] = <<>> /\ raw[p] = <<>>

\* Nothing is in a pipeline the sender has let go of.
EmptyInv == \A p \in Pipelines \ owned : input[p] = <<>> /\ raw[p] = <<>>

Fresh == encoded.pipeline <= built /\ entered.pipeline <= built

Inv == TypeOK /\ OwnInv /\ StampInv /\ ChainInv /\ LatestInv /\ EmptyInv /\ Fresh

\* The invariant holds at first.
LEMMA InitInv == Init => Inv
<1> USE VideoAssumption
<1> SUFFICES ASSUME Init PROVE Inv
  OBVIOUS
<1>0. 0 \in 0 .. MaxTime /\ 0 \in 0 .. MaxBase /\ 0 \in 0 .. MaxFrame /\ 0 \in 0 .. MaxPipeline
      /\ 0 \in 0 .. 0
  OBVIOUS
<1>1. TypeOK
  <2>1. SenderTypeOK /\ PushTypeOK
    BY <1>0 DEF Init, SenderTypeOK, PushTypeOK, None
  <2>2. GstTypeOK
    BY <1>0 DEF Init, GstTypeOK
  <2>3. FrameTypeOK
    <3>1. NoFrame \in Frames
      BY <1>0 DEF NoFrame, Frames, None
    <3> QED BY <3>1 DEF Init, FrameTypeOK
  <2> QED BY <2>1, <2>2, <2>3 DEF TypeOK
<1>2. OwnInv /\ StampInv
  BY DEF Init, OwnInv, PipelinesAccountedFor, StampInv
<1>3. ChainInv /\ LatestInv /\ EmptyInv /\ Fresh
  BY DEF Init, ChainInv, Chain, LatestInv, EmptyInv, Fresh, NoFrame, None
<1> QED BY <1>1, <1>2, <1>3 DEF Inv

\* One-frame queues.
LEMMA Single ==
  ASSUME NEW S, NEW f \in S
  PROVE  <<f>> \in Seq(S) /\ <<f>> # <<>> /\ Len(<<f>>) = 1 /\ <<f>>[1] = f
OBVIOUS

\* The head of a queue is one of its elements.
LEMMA HeadTyped ==
  ASSUME NEW S, NEW s \in Seq(S), s # <<>>
  PROVE  s[1] \in S
OBVIOUS

\* Frame numbers and time stamps in a pipeline are integers.
LEMMA FrameInts ==
  ASSUME FrameTypeOK, NEW q \in Pipelines
  PROVE  /\ input[q] # <<>> =>
              input[q][1] \in Frames /\ input[q][1].frame \in Int /\ input[q][1].pts \in Int
         /\ raw[q] # <<>> =>
              raw[q][1] \in Frames /\ raw[q][1].frame \in Int /\ raw[q][1].pts \in Int
         /\ encoded.frame \in Int /\ encoded.pts \in Int
<1> USE VideoAssumption
<1>1. \A f \in Frames : f.frame \in Int /\ f.pts \in Int
  BY DEF Frames
<1>2. input[q] \in Seq(Frames) /\ raw[q] \in Seq(Frames)
  BY DEF FrameTypeOK
<1>3. input[q] # <<>> => input[q][1] \in Frames
  BY <1>2, HeadTyped
<1>4. raw[q] # <<>> => raw[q][1] \in Frames
  BY <1>2, HeadTyped
<1> QED BY <1>1, <1>3, <1>4 DEF FrameTypeOK

\* Steps that touch no frame; a push may end.
LEMMA FramesKept ==
  ASSUME Inv, UNCHANGED <<frame, lastPts, reached, encoded, entered, input, raw, owned>>,
         built' \in Nat, built' >= built,
         UNCHANGED <<pushPc, source, pts>> \/ pushPc' = "idle"
  PROVE  FrameTypeOK' /\ StampInv' /\ ChainInv' /\ LatestInv' /\ EmptyInv' /\ Fresh'
<1> USE VideoAssumption
<1>1. FrameTypeOK' /\ EmptyInv' /\ LatestInv' /\ StampInv'
  BY DEF Inv, TypeOK, FrameTypeOK, EmptyInv, LatestInv, StampInv
<1>2. ChainInv'
  <2> SUFFICES ASSUME NEW p \in owned PROVE Chain(p)'
    BY DEF ChainInv
  <2>1. Chain(p)
    BY DEF Inv, ChainInv
  <2> QED BY <2>1 DEF Chain, Holds, Before, Pending
<1>3. Fresh'
  <2>1. encoded.pipeline \in Nat /\ entered.pipeline \in Nat /\ built \in Nat
    BY DEF Inv, TypeOK, GstTypeOK, FrameTypeOK, Frames, Pipelines, None
  <2> QED BY <2>1 DEF Inv, Fresh
<1> QED BY <1>1, <1>2, <1>3

\* The time stamp given to the frame being pushed is behind nothing in its pipeline.
LEMMA StampChain == ASSUME Inv, Stamp PROVE ChainInv'
<1> USE VideoAssumption
<1>1. lastPts \in Int /\ lastPts' \in Int /\ lastPts < lastPts' /\ pts' = lastPts'
  BY DEF Inv, TypeOK, SenderTypeOK, PushTypeOK, Stamp, Mapped, Larger
<1> SUFFICES ASSUME NEW p \in owned PROVE Chain(p)'
  BY DEF ChainInv, Stamp, gstVars
<1>2. p \in Pipelines /\ Chain(p)
  BY DEF Inv, ChainInv, TypeOK, GstTypeOK
<1>3. UNCHANGED <<input, raw, encoded, frame, source>> /\ pushPc = "copying" /\ pushPc' = "stamped"
  BY DEF Stamp, gstVars
<1> QED BY <1>1, <1>2, <1>3, FrameInts DEF Inv, TypeOK, Chain, Holds, Before, Pending

\* A push that begins has a higher number than any frame in the pipelines.
LEMMA BeginChain == ASSUME Inv, PushBegin PROVE ChainInv'
<1> USE VideoAssumption
<1>1. frame \in Int /\ frame' = frame + 1 /\ pushPc' = "copying"
  BY DEF Inv, TypeOK, PushTypeOK, PushBegin
<1> SUFFICES ASSUME NEW p \in owned PROVE Chain(p)'
  BY DEF ChainInv, PushBegin, gstVars
<1>2. p \in Pipelines /\ Chain(p)
  BY DEF Inv, ChainInv, TypeOK, GstTypeOK
<1>3. UNCHANGED <<input, raw, encoded, lastPts>>
  BY DEF PushBegin, gstVars, history, implVars
<1> QED BY <1>1, <1>2, <1>3, FrameInts DEF Inv, TypeOK, Chain, Holds, Before, Pending

\* The frame that enters the appsrc comes after what is in its pipeline.
LEMMA EnterChain == ASSUME Inv, PushOk PROVE FrameTypeOK' /\ ChainInv'
<1> USE VideoAssumption
<1>1. Current \in Frames
  BY DEF Current, Frames, Inv, TypeOK, PushTypeOK
<1>2. source \in owned /\ source \in Pipelines /\ Pending(source) /\ pushPc' = "idle"
  BY DEF Inv, TypeOK, PushTypeOK, OwnInv, PipelinesAccountedFor, PushOk, Pending
<1>3. input'[source] = <<Current>> /\ \A q \in Pipelines \ {source} : input'[q] = input[q]
  BY <1>2 DEF PushOk, Inv, TypeOK, FrameTypeOK
<1>4. <<Current>> \in Seq(Frames) /\ <<Current>> # <<>> /\ Len(<<Current>>) = 1
      /\ <<Current>>[1] = Current
  BY <1>1, Single
<1>5. FrameTypeOK'
  <2>1. input' \in [Pipelines -> Seq(Frames)]
    BY <1>4 DEF PushOk, Inv, TypeOK, FrameTypeOK
  <2> QED BY <1>1, <2>1 DEF PushOk, Inv, TypeOK, FrameTypeOK
<1>6. UNCHANGED <<raw, encoded, frame, lastPts, pts, owned>>
  BY DEF PushOk, implVars
<1>7. ASSUME NEW p \in owned PROVE Chain(p)'
  <2>1. p \in Pipelines /\ Chain(p)
    BY DEF Inv, ChainInv, TypeOK, GstTypeOK
  <2>2. CASE p = source
    <3>1. Current.frame = frame /\ Current.pts = lastPts /\ Current.pipeline = p
      BY <1>2, <2>1, <2>2 DEF Current, Chain, PushOk
    <3>2. frame \in Int /\ lastPts \in Int
      BY DEF Inv, TypeOK, SenderTypeOK, PushTypeOK
    <3>3. input'[p] # <<>> /\ Len(input'[p]) = 1 /\ input'[p][1] = Current
      BY <1>3, <1>4, <2>2
    <3>4. Current.pipeline = p /\ Current.frame <= frame' /\ Current.pts <= lastPts'
      BY <1>6, <3>1, <3>2
    <3>5. (raw[p] # <<>> => Before(raw[p][1], Current)) /\ (encoded.pipeline = p => Before(encoded, Current))
      BY <1>2, <2>1, <2>2, <3>1 DEF Chain, Before, PushOk
    <3> QED BY <1>2, <1>6, <2>1, <3>3, <3>4, <3>5, <3>1, <3>2 DEF Chain, Holds, Before, Pending
  <2>3. CASE p # source
    BY <1>2, <1>3, <1>6, <2>1, <2>3 DEF Chain, Holds, Before, Pending
  <2> QED BY <2>2, <2>3
<1> QED BY <1>5, <1>6, <1>7 DEF ChainInv

\* Moving a frame into the leaky queue keeps the order.
LEMMA StreamChain == ASSUME Inv, NEW q \in Pipelines, Stream(q) PROVE FrameTypeOK' /\ ChainInv'
<1> USE VideoAssumption
<1>1. FrameTypeOK'
  <2>1. <<>> \in Seq(Frames)
    OBVIOUS
  <2> QED BY <2>1 DEF Stream, Inv, TypeOK, FrameTypeOK, history
<1>2. /\ raw'[q] = input[q] /\ input'[q] = <<>> /\ input[q] # <<>>
      /\ \A p \in Pipelines \ {q} : raw'[p] = raw[p] /\ input'[p] = input[p]
  BY DEF Stream, Inv, TypeOK, FrameTypeOK
<1>3. UNCHANGED <<encoded, frame, lastPts, pts, pushPc, source, owned>>
  BY DEF Stream, implVars, pushVars, history
<1>4. ASSUME NEW p \in owned PROVE Chain(p)'
  <2>1. p \in Pipelines /\ Chain(p)
    BY DEF Inv, ChainInv, TypeOK, GstTypeOK
  <2>2. Len(<<>>) = 0
    OBVIOUS
  <2> QED BY <1>2, <1>3, <2>1, <2>2 DEF Chain, Holds, Before, Pending
<1> QED BY <1>1, <1>3, <1>4 DEF ChainInv

\* The encoder takes the oldest frame of its pipeline, later than the one before.
LEMMA EncodeChain ==
  ASSUME Inv, NEW q \in Pipelines, Encode(q)
  PROVE  FrameTypeOK' /\ ChainInv' /\ LatestInv'
<1> USE VideoAssumption
<1>1. raw[q] # <<>> /\ encoded' = raw[q][1] /\ encoded' \in Frames /\ q \in owned
  BY FrameInts DEF Encode, Inv, TypeOK, OwnInv, PipelinesAccountedFor
<1>2. FrameTypeOK'
  <2>1. <<>> \in Seq(Frames)
    OBVIOUS
  <2> QED BY <1>1, <2>1 DEF Encode, Inv, TypeOK, FrameTypeOK
<1>3. raw'[q] = <<>> /\ \A p \in Pipelines \ {q} : raw'[p] = raw[p]
  BY DEF Encode, Inv, TypeOK, FrameTypeOK
<1>4. UNCHANGED <<input, entered, frame, lastPts, pts, pushPc, source, owned>>
  BY DEF Encode, implVars, pushVars
<1>5. encoded'.pipeline = q /\ Chain(q)
  BY <1>1 DEF Inv, ChainInv, Chain, Holds
<1>6. ASSUME NEW p \in owned PROVE Chain(p)'
  <2>1. p \in Pipelines /\ Chain(p)
    BY DEF Inv, ChainInv, TypeOK, GstTypeOK
  <2>2. Len(<<>>) = 0
    OBVIOUS
  <2>3. CASE p = q
    BY <1>1, <1>3, <1>4, <1>5, <2>2, <2>3 DEF Chain, Holds, Before, Pending
  <2>4. CASE p # q
    BY <1>3, <1>4, <1>5, <2>1, <2>4 DEF Chain, Holds, Before, Pending
  <2> QED BY <2>3, <2>4
<1>7. ASSUME NEW p \in owned
      PROVE  /\ entered.pipeline = p =>
                  IF input[p] # <<>> THEN input[p] = <<entered>>
                  ELSE IF raw'[p] # <<>> THEN raw'[p] = <<entered>>
                  ELSE entered = encoded'
             /\ entered.pipeline # p => input[p] = <<>> /\ raw'[p] = <<>>
  <2>1. p \in Pipelines
    BY DEF Inv, TypeOK, GstTypeOK
  <2>2. raw[q] = <<entered>> => encoded' = entered
    BY <1>1
  <2>3. CASE p = q
    BY <1>1, <1>3, <2>2, <2>3 DEF Inv, LatestInv
  <2>4. CASE p # q /\ entered.pipeline = p
    BY <1>1, <1>3, <2>1, <2>4 DEF Inv, LatestInv
  <2>5. CASE p # q /\ entered.pipeline # p
    BY <1>3, <2>1, <2>5 DEF Inv, LatestInv
  <2> QED BY <2>3, <2>4, <2>5
<1> QED BY <1>2, <1>4, <1>6, <1>7 DEF ChainInv, LatestInv

\* Steps that leave every frame where it is.
LEMMA QuietStep ==
  ASSUME Inv, StartFails \/ StopDetaches \/ PollBusError \/ PushGivesUp \/ PushRefused \/ Tick
           \/ \E p \in Pipelines : Fail(p)
  PROVE  Inv'
<1> USE VideoAssumption DEF Inv, TypeOK, implVars, pushVars, gstVars, history, None, CanStart
<1>1. CASE StartFails
  <2>1. SenderTypeOK' /\ PushTypeOK'
    BY <1>1 DEF StartFails, SenderTypeOK, PushTypeOK
  <2>2. GstTypeOK'
    BY <1>1 DEF StartFails, GstTypeOK
  <2>3. OwnInv'
    BY <1>1 DEF StartFails, SenderTypeOK, PushTypeOK, GstTypeOK, Pipelines, OwnInv, PipelinesAccountedFor
  <2>4. FrameTypeOK' /\ StampInv' /\ ChainInv' /\ LatestInv' /\ EmptyInv' /\ Fresh'
    BY <1>1, FramesKept DEF StartFails, GstTypeOK
  <2> QED BY <2>1, <2>2, <2>3, <2>4
<1>2. CASE StopDetaches
  <2>1. SenderTypeOK' /\ PushTypeOK'
    BY <1>2 DEF StopDetaches, SenderTypeOK, PushTypeOK
  <2>2. GstTypeOK'
    BY <1>2 DEF StopDetaches, GstTypeOK
  <2>3. OwnInv'
    BY <1>2 DEF StopDetaches, SenderTypeOK, PushTypeOK, GstTypeOK, Pipelines, OwnInv, PipelinesAccountedFor
  <2>4. FrameTypeOK' /\ StampInv' /\ ChainInv' /\ LatestInv' /\ EmptyInv' /\ Fresh'
    BY <1>2, FramesKept DEF StopDetaches, GstTypeOK
  <2> QED BY <2>1, <2>2, <2>3, <2>4
<1>3. CASE PollBusError
  <2>1. SenderTypeOK' /\ PushTypeOK'
    BY <1>3 DEF PollBusError, SenderTypeOK, PushTypeOK
  <2>2. GstTypeOK'
    BY <1>3 DEF PollBusError, GstTypeOK
  <2>3. OwnInv'
    BY <1>3 DEF PollBusError, SenderTypeOK, PushTypeOK, GstTypeOK, Pipelines, OwnInv, PipelinesAccountedFor
  <2>4. FrameTypeOK' /\ StampInv' /\ ChainInv' /\ LatestInv' /\ EmptyInv' /\ Fresh'
    BY <1>3, FramesKept DEF PollBusError, GstTypeOK
  <2> QED BY <2>1, <2>2, <2>3, <2>4
<1>4. CASE PushGivesUp
  <2>1. SenderTypeOK' /\ PushTypeOK'
    BY <1>4 DEF PushGivesUp, SenderTypeOK, PushTypeOK
  <2>2. GstTypeOK'
    BY <1>4 DEF PushGivesUp, GstTypeOK
  <2>3. OwnInv'
    BY <1>4 DEF PushGivesUp, SenderTypeOK, PushTypeOK, GstTypeOK, Pipelines, OwnInv, PipelinesAccountedFor
  <2>4. FrameTypeOK' /\ StampInv' /\ ChainInv' /\ LatestInv' /\ EmptyInv' /\ Fresh'
    BY <1>4, FramesKept DEF PushGivesUp, GstTypeOK
  <2> QED BY <2>1, <2>2, <2>3, <2>4
<1>5. CASE PushRefused
  <2>1. SenderTypeOK' /\ PushTypeOK'
    BY <1>5 DEF PushRefused, SenderTypeOK, PushTypeOK
  <2>2. GstTypeOK'
    BY <1>5 DEF PushRefused, GstTypeOK
  <2>3. OwnInv'
    BY <1>5 DEF PushRefused, SenderTypeOK, PushTypeOK, GstTypeOK, Pipelines, OwnInv, PipelinesAccountedFor
  <2>4. FrameTypeOK' /\ StampInv' /\ ChainInv' /\ LatestInv' /\ EmptyInv' /\ Fresh'
    BY <1>5, FramesKept DEF PushRefused, GstTypeOK
  <2> QED BY <2>1, <2>2, <2>3, <2>4
<1>6. CASE Tick
  <2>1. SenderTypeOK' /\ PushTypeOK'
    BY <1>6 DEF Tick, SenderTypeOK, PushTypeOK
  <2>2. GstTypeOK'
    BY <1>6 DEF Tick, GstTypeOK
  <2>3. OwnInv'
    BY <1>6 DEF Tick, SenderTypeOK, PushTypeOK, GstTypeOK, Pipelines, OwnInv, PipelinesAccountedFor
  <2>4. FrameTypeOK' /\ StampInv' /\ ChainInv' /\ LatestInv' /\ EmptyInv' /\ Fresh'
    BY <1>6, FramesKept DEF Tick, GstTypeOK
  <2> QED BY <2>1, <2>2, <2>3, <2>4
<1>7. ASSUME NEW p \in Pipelines, Fail(p) PROVE Inv'
  <2>1. SenderTypeOK' /\ PushTypeOK'
    BY <1>7 DEF Fail, SenderTypeOK, PushTypeOK
  <2>2. GstTypeOK'
    BY <1>7 DEF Fail, GstTypeOK
  <2>3. OwnInv'
    BY <1>7 DEF Fail, SenderTypeOK, PushTypeOK, GstTypeOK, Pipelines, OwnInv, PipelinesAccountedFor
  <2>4. FrameTypeOK' /\ StampInv' /\ ChainInv' /\ LatestInv' /\ EmptyInv' /\ Fresh'
    BY <1>7, FramesKept DEF Fail, GstTypeOK
  <2> QED BY <2>1, <2>2, <2>3, <2>4
<1> QED BY <1>1, <1>2, <1>3, <1>4, <1>5, <1>6, <1>7

\* A new pipeline is empty and nothing refers to it yet.
LEMMA StartStep == ASSUME Inv, Start PROVE Inv'
<1> USE VideoAssumption DEF Inv, TypeOK, pushVars, None, CanStart
<1>1. SenderTypeOK' /\ PushTypeOK' /\ GstTypeOK' /\ FrameTypeOK'
  <2>1. SenderTypeOK' /\ PushTypeOK'
    BY DEF Start, SenderTypeOK, PushTypeOK, GstTypeOK, Pipelines
  <2>2. GstTypeOK'
    BY DEF Start, GstTypeOK, Pipelines
  <2> QED BY <2>1, <2>2 DEF Start, FrameTypeOK
<1>2. OwnInv'
  BY DEF Start, SenderTypeOK, PushTypeOK, GstTypeOK, Pipelines, OwnInv, PipelinesAccountedFor
<1>3. owned = {} /\ owned' = {built + 1} /\ built + 1 \in Pipelines
  BY DEF Start, OwnInv, PipelinesAccountedFor, GstTypeOK, Pipelines
<1>4. /\ encoded.pipeline # built + 1 /\ entered.pipeline # built + 1
      /\ input[built + 1] = <<>> /\ raw[built + 1] = <<>>
  <2>1. encoded.pipeline \in Nat /\ entered.pipeline \in Nat /\ built \in Nat
    BY DEF FrameTypeOK, Frames, Pipelines, GstTypeOK
  <2> QED BY <1>3, <2>1 DEF Fresh, EmptyInv
<1>5. ChainInv' /\ LatestInv'
  <2>1. PICK n \in Pipelines : n = built + 1
    BY <1>3
  <2>2. /\ input'[n] = <<>> /\ raw'[n] = <<>> /\ Len(input'[n]) <= 1 /\ Len(raw'[n]) <= 1
        /\ encoded'.pipeline # n /\ entered'.pipeline # n
    BY <1>4, <2>1 DEF Start
  <2>3. owned' = {n}
    BY <1>3, <2>1
  <2>4. ~Pending(n)'
    BY <2>1 DEF Start, OwnInv, Pending, GstTypeOK, PushTypeOK, Pipelines
  <2>5. Chain(n)'
    BY ONLY <2>2, <2>4 DEF Chain
  <2> QED BY ONLY <2>2, <2>3, <2>5 DEF ChainInv, LatestInv
<1>6. StampInv' /\ EmptyInv'
  BY <1>3 DEF Start, StampInv, EmptyInv, PushTypeOK, OwnInv
<1>7. Fresh'
  <2>1. encoded.pipeline \in Nat /\ entered.pipeline \in Nat /\ built \in Nat
    BY DEF FrameTypeOK, Frames, Pipelines, GstTypeOK
  <2> QED BY <2>1 DEF Start, Fresh
<1> QED BY <1>1, <1>2, <1>5, <1>6, <1>7

\* The pipeline that is let go of has been emptied.
LEMMA TearDownStep == ASSUME Inv, StopTearsDown PROVE Inv'
<1> USE VideoAssumption DEF Inv, TypeOK, implVars, pushVars, history, None
<1>1. SenderTypeOK' /\ PushTypeOK' /\ GstTypeOK'
  BY DEF StopTearsDown, SenderTypeOK, PushTypeOK, GstTypeOK
<1>2. FrameTypeOK'
  <2>1. <<>> \in Seq(Frames)
    OBVIOUS
  <2> QED BY <2>1 DEF StopTearsDown, FrameTypeOK
<1>3. OwnInv' /\ owned = {doomed} /\ owned' = {}
  BY DEF StopTearsDown, SenderTypeOK, PushTypeOK, GstTypeOK, Pipelines, OwnInv, PipelinesAccountedFor
<1>4. StampInv' /\ ChainInv' /\ LatestInv' /\ Fresh'
  BY <1>3 DEF StopTearsDown, StampInv, ChainInv, LatestInv, Fresh
<1>5. EmptyInv'
  BY <1>3 DEF StopTearsDown, EmptyInv, FrameTypeOK
<1> QED BY <1>1, <1>2, <1>3, <1>4, <1>5

\* Steps of push that concern a frame.
LEMMA PushStep == ASSUME Inv, PushBegin \/ Stamp \/ PushOk PROVE Inv'
<1> USE VideoAssumption DEF Inv, TypeOK, implVars, gstVars, history, None
<1>1. CASE PushBegin
  <2>1. SenderTypeOK' /\ PushTypeOK' /\ GstTypeOK' /\ FrameTypeOK'
    BY <1>1 DEF PushBegin, SenderTypeOK, PushTypeOK, GstTypeOK, FrameTypeOK
  <2>2. OwnInv'
    BY <1>1 DEF PushBegin, SenderTypeOK, GstTypeOK, Pipelines, OwnInv, PipelinesAccountedFor
  <2>3. StampInv'
    BY <1>1 DEF PushBegin, StampInv, SenderTypeOK, PushTypeOK
  <2>4. LatestInv' /\ EmptyInv' /\ Fresh'
    BY <1>1 DEF PushBegin, LatestInv, EmptyInv, Fresh
  <2> QED BY <1>1, <2>1, <2>2, <2>3, <2>4, BeginChain
<1>2. CASE Stamp
  <2>1. SenderTypeOK' /\ PushTypeOK'
    BY <1>2 DEF Stamp, SenderTypeOK, PushTypeOK, Mapped, Larger
  <2>2. GstTypeOK' /\ FrameTypeOK'
    BY <1>2 DEF Stamp, GstTypeOK, FrameTypeOK
  <2>3. OwnInv'
    BY <1>2 DEF Stamp, OwnInv, PipelinesAccountedFor
  <2>4. StampInv'
    BY <1>2 DEF Stamp, StampInv, SenderTypeOK, PushTypeOK, Mapped, Larger
  <2>5. LatestInv' /\ EmptyInv' /\ Fresh'
    BY <1>2 DEF Stamp, LatestInv, EmptyInv, Fresh
  <2> QED BY <1>2, <2>1, <2>2, <2>3, <2>4, <2>5, StampChain
<1>3. CASE PushOk
  <2>1. SenderTypeOK' /\ PushTypeOK' /\ GstTypeOK'
    BY <1>3 DEF PushOk, SenderTypeOK, PushTypeOK, GstTypeOK
  <2>2. OwnInv' /\ source \in owned
    BY <1>3 DEF PushOk, PushTypeOK, OwnInv, PipelinesAccountedFor
  <2>3. StampInv'
    BY <1>3 DEF PushOk, StampInv
  <2>4. Current.pipeline = source
    BY DEF Current
  <2>5. Fresh'
    BY <1>3, <2>4 DEF PushOk, Fresh, OwnInv
  <2>6. EmptyInv'
    BY <1>3, <2>2 DEF PushOk, EmptyInv, FrameTypeOK
  <2>7. LatestInv'
    <3>1. owned = {source}
      BY <2>2 DEF OwnInv, PipelinesAccountedFor
    <3>2. input'[source] = <<Current>> /\ <<Current>> # <<>>
      BY <1>3, <2>2 DEF PushOk, GstTypeOK, FrameTypeOK
    <3> QED BY <1>3, <2>4, <3>1, <3>2 DEF PushOk, LatestInv
  <2> QED BY <1>3, <2>1, <2>2, <2>3, <2>5, <2>6, <2>7, EnterChain
<1> QED BY <1>1, <1>2, <1>3

\* Steps of the streaming threads.
LEMMA QueueStep == ASSUME Inv, NEW q \in Pipelines, Stream(q) \/ Encode(q) PROVE Inv'
<1> USE VideoAssumption DEF Inv, TypeOK, implVars, pushVars, history, None
<1>1. CASE Stream(q)
  <2>1. SenderTypeOK' /\ PushTypeOK' /\ GstTypeOK'
    BY <1>1 DEF Stream, SenderTypeOK, PushTypeOK, GstTypeOK
  <2>2. OwnInv' /\ StampInv' /\ Fresh' /\ q \in owned
    BY <1>1 DEF Stream, OwnInv, PipelinesAccountedFor, StampInv, Fresh
  <2>3. EmptyInv'
    BY <1>1, <2>2 DEF Stream, EmptyInv, FrameTypeOK
  <2>4. LatestInv'
    BY <1>1, <2>2 DEF Stream, LatestInv, FrameTypeOK, GstTypeOK
  <2> QED BY <1>1, <2>1, <2>2, <2>3, <2>4, StreamChain
<1>2. CASE Encode(q)
  <2>1. SenderTypeOK' /\ PushTypeOK' /\ GstTypeOK'
    BY <1>2 DEF Encode, SenderTypeOK, PushTypeOK, GstTypeOK
  <2>2. OwnInv' /\ StampInv' /\ q \in owned
    BY <1>2 DEF Encode, OwnInv, PipelinesAccountedFor, StampInv
  <2>3. EmptyInv'
    BY <1>2, <2>2 DEF Encode, EmptyInv, FrameTypeOK
  <2>4. Fresh'
    BY <1>2, <2>2 DEF Encode, ChainInv, Chain, Holds, OwnInv, Fresh
  <2> QED BY <1>2, <2>1, <2>2, <2>3, <2>4, EncodeChain
<1> QED BY <1>1, <1>2

\* Each step keeps the invariant.
LEMMA StepInv == Inv /\ [Next]_vars => Inv'
<1> SUFFICES ASSUME Inv, [Next]_vars PROVE Inv'
  OBVIOUS
<1>1. CASE Main \/ Pusher \/ Tick
  BY <1>1, StartStep, TearDownStep, PushStep, QuietStep DEF Main, Pusher
<1>2. CASE GStreamer
  BY <1>2, QueueStep, QuietStep DEF GStreamer
<1>3. CASE UNCHANGED vars
  BY <1>3 DEF vars, implVars, pushVars, gstVars, history, Inv, TypeOK, SenderTypeOK, PushTypeOK,
       GstTypeOK, FrameTypeOK, OwnInv, PipelinesAccountedFor, StampInv, ChainInv, Chain, Holds,
       Before, Pending, LatestInv, EmptyInv, Fresh
<1> QED BY <1>1, <1>2, <1>3 DEF Next

\* The invariant always holds.
LEMMA InvAlways == SafeSpec => []Inv
BY InitInv, StepInv, PTL DEF SafeSpec

\* The variables of the sender, of push and of the pipelines keep their types.
THEOREM TypeCorrect == SafeSpec => []TypeOK
<1>1. Inv => TypeOK
  BY DEF Inv
<1> QED BY <1>1, InvAlways, PTL

\* start, push and stop never leave a pipeline behind or use one that is gone.
THEOREM NoPipelineLeaks == SafeSpec => []PipelinesAccountedFor
<1>1. Inv => PipelinesAccountedFor
  BY DEF Inv, OwnInv
<1> QED BY <1>1, InvAlways, PTL

\* Time stamps stay with the acquisition times they come from.
THEOREM TimeStampsDoNotDrift == SafeSpec => []PtsFollowsAcquisition
<1>1. Inv => PtsFollowsAcquisition
  BY DEF Inv, StampInv, PtsFollowsAcquisition
<1> QED BY <1>1, InvAlways, PTL

\* Only the encoder changes what the encoder has taken.
LEMMA OnlyEncodeEncodes ==
  ASSUME Next, encoded' # encoded
  PROVE  \E q \in Pipelines : Encode(q)
BY DEF Next, Main, Pusher, GStreamer, Start, StartFails, StopDetaches, StopTearsDown,
     PollBusError, PushBegin, PushGivesUp, Stamp, PushOk, PushRefused, Stream, Fail, Tick, history

\* The encoder of a pipeline sees frames in order, with increasing time stamps.
THEOREM TimeStampsIncrease == SafeSpec => EncoderSeesIncreasingPts
<1>1. Inv /\ [Next]_vars =>
        [encoded' # encoded /\ encoded'.pipeline = encoded.pipeline =>
           encoded'.frame > encoded.frame /\ encoded'.pts > encoded.pts]_vars
  <2> SUFFICES ASSUME Inv, Next, encoded' # encoded, encoded'.pipeline = encoded.pipeline
               PROVE  encoded'.frame > encoded.frame /\ encoded'.pts > encoded.pts
    BY DEF vars, history
  <2>1. PICK q \in Pipelines : Encode(q)
    BY OnlyEncodeEncodes
  <2>2. q \in owned /\ raw[q] # <<>> /\ encoded' = raw[q][1]
    BY <2>1 DEF Inv, OwnInv, PipelinesAccountedFor, Encode
  <2>3. Chain(q) /\ encoded.pipeline = q
    BY <2>2 DEF Inv, ChainInv, Chain, Holds
  <2>4. Before(encoded, encoded')
    BY <2>2, <2>3 DEF Chain
  <2> QED BY <2>2, <2>4, FrameInts DEF Before, Inv, TypeOK
<1> QED BY <1>1, InvAlways, PTL DEF SafeSpec, EncoderSeesIncreasingPts

\* At most one frame newer than the one the encoder takes waits in its pipeline.
THEOREM QueueIsLatestOnly == SafeSpec => EncoderLag
<1>1. Inv /\ [Next]_vars =>
        [encoded' # encoded =>
           \A p \in Pipelines : encoded'.pipeline = p /\ entered.pipeline = p =>
             entered = encoded' \/ input[p] = <<entered>>]_vars
  <2> SUFFICES ASSUME Inv, Next, encoded' # encoded, NEW p \in Pipelines,
                      encoded'.pipeline = p, entered.pipeline = p
               PROVE  entered = encoded' \/ input[p] = <<entered>>
    BY DEF vars, history
  <2>1. PICK q \in Pipelines : Encode(q)
    BY OnlyEncodeEncodes
  <2>2. q \in owned /\ raw[q] # <<>> /\ encoded' = raw[q][1]
    BY <2>1 DEF Inv, OwnInv, PipelinesAccountedFor, Encode
  <2>3. q = p
    BY <2>2 DEF Inv, ChainInv, Chain, Holds
  <2>4. raw[q] = <<entered>> => raw[q][1] = entered
    OBVIOUS
  <2> QED BY <2>2, <2>3, <2>4 DEF Inv, LatestInv
<1> QED BY <1>1, InvAlways, PTL DEF SafeSpec, EncoderLag

\* Time stamps increase at the encoder and do not drift from the acquisition.
THEOREM TimeStampsAreUsable == SafeSpec => TimeStampsAreSound
BY TimeStampsDoNotDrift, TimeStampsIncrease, PTL DEF TimeStampsAreSound

-------------------------------------------------------------------------------
(* EncoderPreflight. *)

\* Where a child and a pipe exist, by the place of the thread.
Idle == {"try", "factories", "return", "done"}
Polling == {"read", "wait", "check"}
Ending == {"terminate", "kill"}

ChildInv ==
  /\ pc \in Idle => child \in {"none", "reaped"} /\ ~pipeOpen
  /\ pc \in Polling \cup Ending => child \in {"running", "zombie"}
  /\ pc = "drain" => child = "reaped"

\* How the test ended: the child exited by itself, or was told to, never both.
EndInv ==
  /\ pc \in Polling => ~exited /\ ~killed /\ ~told
  /\ pc \in Ending => ~exited /\ killed /\ told
  /\ pc \in {"drain", "return"} => (exited <=> ~killed) /\ (killed <=> told)

\* What select_encoder knows of the encoders it has left behind.
SelectInv ==
  /\ outcome = "none" <=> pc # "done"
  /\ kind = "omx" => Option # "x264"
  /\ Option = "auto" /\ kind = "x264" => \E b \in blamed : b[1] = "omx"
  /\ outcome = "cancelled" => stop

PreflightInv == PreflightTypeOK /\ ChildInv /\ EndInv /\ SelectInv /\ ChosenPassed

\* The invariant holds at first.
LEMMA PreflightInitInv == PreflightInit => PreflightInv
<1> USE PreflightAssumption
<1> SUFFICES ASSUME PreflightInit PROVE PreflightInv
  OBVIOUS
<1>0. 0 \in 0 .. PipeRoom /\ 0 \in 0 .. TailRoom /\ 0 \in 0 .. MaxOutput
  OBVIOUS
<1>1. PreflightTypeOK
  BY <1>0 DEF PreflightInit, PreflightTypeOK, Encoders
<1>2. ChildInv /\ EndInv
  BY DEF PreflightInit, ChildInv, EndInv, Idle, Polling, Ending
<1>3. SelectInv /\ ChosenPassed
  BY DEF PreflightInit, SelectInv, ChosenPassed, Encoders
<1> QED BY <1>1, <1>2, <1>3 DEF PreflightInv

\* Going on to the next encoder, or giving up, after one was blamed.
LEMMA BlameStep ==
  ASSUME PreflightInv, pc \in {"factories", "return"}, UNCHANGED stop,
         NEW reason \in {"missing", "exit", "timeout"}, Blame(reason)
  PROVE  /\ kind' \in Encoders /\ outcome' \in {"none", "failed"}
         /\ pc' \in {"try", "done"}
         /\ blamed' \subseteq Encoders \X {"missing", "exit", "timeout"}
         /\ SelectInv'
<1> USE PreflightAssumption
<1>1. <<kind, reason>> \in Encoders \X {"missing", "exit", "timeout"}
  BY DEF PreflightInv, PreflightTypeOK
<1>2. blamed' \subseteq Encoders \X {"missing", "exit", "timeout"}
  BY <1>1 DEF PreflightInv, PreflightTypeOK, Blame
<1>3. <<kind, reason>> \in blamed' /\ <<kind, reason>>[1] = kind
  BY DEF Blame
<1>4. CASE Option = "auto" /\ kind = "omx"
  BY <1>2, <1>3, <1>4 DEF Blame, PreflightInv, PreflightTypeOK, SelectInv, Encoders
<1>5. CASE ~(Option = "auto" /\ kind = "omx")
  <2>1. Option = "auto" => \E b \in blamed' : b[1] = "omx"
    BY <1>5 DEF Blame, PreflightInv, PreflightTypeOK, SelectInv, Encoders
  <2> QED BY <1>2, <1>5, <2>1 DEF Blame, PreflightInv, PreflightTypeOK, SelectInv, Encoders
<1> QED BY <1>4, <1>5

\* Steps of select_encoder and smoke_encoder.
LEMMA SelectStep == ASSUME PreflightInv, Select PROVE PreflightInv'
<1> USE PreflightAssumption DEF PreflightInv, ChildInv, EndInv, SelectInv, ChosenPassed, Encoders, Idle,
        Polling, Ending
<1>1. CASE Try
  BY <1>1 DEF Try, EndWith, runVars, childVars, PreflightTypeOK
<1>2. CASE FactoryMissing
  BY <1>2, BlameStep DEF FactoryMissing, runVars, childVars, PreflightTypeOK
<1>3. CASE RunRefused
  BY <1>3 DEF RunRefused, EndWith, runVars, childVars, PreflightTypeOK
<1>4. CASE SpawnFails
  BY <1>4 DEF SpawnFails, EndWith, runVars, childVars, PreflightTypeOK
<1>5. CASE Spawn
  <2>0. 0 \in 0 .. PipeRoom /\ 0 \in 0 .. TailRoom /\ 0 \in 0 .. MaxOutput
    OBVIOUS
  <2>1. PreflightTypeOK'
    BY <1>5, <2>0 DEF Spawn, PreflightTypeOK
  <2>2. ChildInv' /\ EndInv'
    BY <1>5 DEF Spawn
  <2>3. outcome = "none" /\ SelectInv' /\ ChosenPassed'
    BY <1>5 DEF Spawn
  <2> QED BY <2>1, <2>2, <2>3
<1>6. CASE Return
  <2>1. CASE Passed
    BY <1>6, <2>1 DEF Return, Passed, EndWith, runVars, childVars, PreflightTypeOK
  <2>2. CASE ~Passed /\ stop
    BY <1>6, <2>2 DEF Return, EndWith, runVars, childVars, PreflightTypeOK
  <2>3. CASE ~Passed /\ ~stop
    <3>1. Blame(IF killed THEN "timeout" ELSE "exit") /\ pc = "return" /\ UNCHANGED stop
      BY <1>6, <2>3 DEF Return
    <3> QED BY <1>6, <3>1, BlameStep DEF Return, runVars, childVars, PreflightTypeOK
  <2> QED BY <2>1, <2>2, <2>3
<1> QED BY <1>1, <1>2, <1>3, <1>4, <1>5, <1>6 DEF Select

\* Steps of run_bounded.
LEMMA RunStep == ASSUME PreflightInv, RunBounded PROVE PreflightInv'
<1> USE PreflightAssumption DEF PreflightInv, ChildInv, EndInv, SelectInv, ChosenPassed, Encoders, Idle,
        Polling, Ending
<1>0. TakeChunk => pipe' \in 0 .. PipeRoom /\ tail' \in 0 .. TailRoom
  BY DEF TakeChunk, Min2, PreflightTypeOK
<1>1. CASE Read
  BY <1>0, <1>1 DEF Read, PreflightTypeOK
<1>2. CASE Wait
  BY <1>2 DEF Wait, PreflightTypeOK
<1>3. CASE Check
  BY <1>3 DEF Check, PreflightTypeOK
<1>4. CASE Terminate
  BY <1>4 DEF Terminate, PreflightTypeOK
<1>5. CASE Kill
  BY <1>5 DEF Kill, runVars, PreflightTypeOK
<1>6. CASE DrainSome
  BY <1>0, <1>6 DEF DrainSome, PreflightTypeOK
<1>7. CASE DrainEnds
  BY <1>7 DEF DrainEnds, childVars, PreflightTypeOK
<1> QED BY <1>1, <1>2, <1>3, <1>4, <1>5, <1>6, <1>7 DEF RunBounded

\* Steps of the child, the clock and the stop token.
LEMMA OutsideStep == ASSUME PreflightInv, Outside PROVE PreflightInv'
<1> USE PreflightAssumption DEF PreflightInv, ChildInv, EndInv, SelectInv, ChosenPassed, Encoders, Idle,
        Polling, Ending
<1>1. CASE ChildWrites
  BY <1>1 DEF ChildWrites, runVars, PreflightTypeOK
<1>2. CASE ChildExits
  BY <1>2 DEF ChildExits, runVars, PreflightTypeOK
<1>3. CASE RequestStop
  BY <1>3 DEF RequestStop, runVars, childVars, PreflightTypeOK
<1>4. CASE DeadlinePasses
  BY <1>4 DEF DeadlinePasses, runVars, childVars, PreflightTypeOK
<1> QED BY <1>1, <1>2, <1>3, <1>4 DEF Outside

\* Each step keeps the invariant.
LEMMA PreflightStepInv == PreflightInv /\ [PreflightNext]_preflightVars => PreflightInv'
<1> SUFFICES ASSUME PreflightInv, [PreflightNext]_preflightVars PROVE PreflightInv'
  OBVIOUS
<1>1. CASE PreflightNext
  BY <1>1, SelectStep, RunStep, OutsideStep DEF PreflightNext
<1>2. CASE UNCHANGED preflightVars
  BY <1>2 DEF preflightVars, runVars, childVars, PreflightInv, PreflightTypeOK, ChildInv, EndInv, SelectInv, ChosenPassed,
       Passed
<1> QED BY <1>1, <1>2

\* The invariant always holds.
LEMMA PreflightInvAlways == PreflightSafeSpec => []PreflightInv
BY PreflightInitInv, PreflightStepInv, PTL DEF PreflightSafeSpec

\* The variables of the encoder test keep their types; the tail of the output stays
\* within its limit.
THEOREM PreflightTypeCorrect == PreflightSafeSpec => []PreflightTypeOK
<1>1. PreflightInv => PreflightTypeOK
  BY DEF PreflightInv
<1> QED BY <1>1, PreflightInvAlways, PTL

\* No test of run_bounded leaves a running child, a zombie or an open pipe behind.
THEOREM TestsLeaveNothing == PreflightSafeSpec => []NothingLeftBehind
<1>1. PreflightInv => NothingLeftBehind
  BY DEF PreflightInv, ChildInv, Idle, NothingLeftBehind
<1> QED BY <1>1, PreflightInvAlways, PTL

\* select_encoder returns only an encoder whose test ended by itself with status
\* zero.
THEOREM ChosenEncoderPassed == PreflightSafeSpec => []ChosenPassed
<1>1. PreflightInv => ChosenPassed
  BY DEF PreflightInv
<1> QED BY <1>1, PreflightInvAlways, PTL

\* Encoders are blamed for their own failures only, and the software encoder
\* follows a failure of the hardware one.
THEOREM OnlyFaultyEncodersBlamed == PreflightSafeSpec => []BlameIsDeserved
<1>1. PreflightInv => BlameIsDeserved
  <2> SUFFICES ASSUME PreflightInv PROVE BlameIsDeserved
    OBVIOUS
  <2>1. \A b \in blamed : b[2] # "stop"
    BY DEF PreflightInv, PreflightTypeOK
  <2>2. Option = "auto" /\ outcome = "x264" => \E b \in blamed : b[1] = "omx"
    BY DEF PreflightInv, SelectInv, ChosenPassed, Encoders
  <2> QED BY <2>1, <2>2 DEF BlameIsDeserved, PreflightInv, SelectInv
<1> QED BY <1>1, PreflightInvAlways, PTL

\* run_bounded signals its child only while that has not been reaped.
THEOREM OnlyOwnChildSignalled == PreflightSafeSpec => SignalsOwnChild
<1>1. PreflightInv /\ [PreflightNext]_preflightVars =>
        [(killed' /\ ~killed) \/ (pc = "kill" /\ pc' # "kill") =>
           child \in {"running", "zombie"}]_preflightVars
  <2> SUFFICES ASSUME PreflightInv, PreflightNext, (killed' /\ ~killed) \/ (pc = "kill" /\ pc' # "kill")
               PROVE  child \in {"running", "zombie"}
    BY DEF preflightVars, runVars
  <2>1. pc = "kill" \/ pc = "check"
    BY DEF PreflightNext, Select, RunBounded, Outside, Try, FactoryMissing, RunRefused, SpawnFails, Spawn,
         Return, Read, Wait, Check, Terminate, Kill, DrainSome, DrainEnds, ChildWrites,
         ChildExits, RequestStop, DeadlinePasses, runVars
  <2> QED BY <2>1 DEF PreflightInv, ChildInv, Polling, Ending
<1> QED BY <1>1, PreflightInvAlways, PTL DEF PreflightSafeSpec, SignalsOwnChild

\* select_encoder returns what its tests showed.
THEOREM SelectionIsDeserved == PreflightSafeSpec => []OutcomeIsDeserved
<1>1. ChosenPassed /\ BlameIsDeserved => OutcomeIsDeserved
  BY DEF OutcomeIsDeserved
<1> QED BY <1>1, ChosenEncoderPassed, OnlyFaultyEncodersBlamed, PTL

\* run_bounded owns its child from the spawn to the reaping and no longer.
THEOREM ChildIsOwnedThroughout == PreflightSafeSpec => ChildIsOwned
BY TestsLeaveNothing, OnlyOwnChildSignalled, PTL DEF ChildIsOwned
===============================================================================
