----------------------------- MODULE Hdmi_proofs ------------------------------
(***************************************************************************)
(* Proofs about KmsDisplay, for any number of pictures in any places, and  *)
(* about HdmiProgram, which uses it: what its exit code means, and that    *)
(* the worker ends before what it refers to.                               *)
(***************************************************************************)
EXTENDS KmsDisplay, HdmiProgram, TLAPS

\* Places of the constructor and of teardown.
Making == {"create", "addFb", "map"}
Early == {"card", "master", "planes"}
Blending == {"g_alpha_en", "alpha", "present"}
Closed == {"terminalBack", "closed"}
Destroying == {"destroy", "close"} \cup Closed

\* Which of the card and the buffers exist.
MemoryInv ==
  /\ cardOpen <=> pc \notin {"card"} \cup Closed
  /\ master => cardOpen
  /\ pc = "destroy" /\ current # "fb0" =>
       "fb0" \notin allocated \cup framed \cup mapped
  /\ pc = "destroy" /\ current = "graphics" =>
       "fb1" \notin allocated \cup framed \cup mapped
  /\ pc \in Early \cup {"close"} \cup Closed => allocated = {} /\ framed = {} /\ mapped = {}

\* The buffers that a plane is going to show are framebuffers.
FramedInv ==
  /\ pc \in Early => current = "fb0"
  /\ pc = "saveBlending" => current = "graphics"
  /\ pc = "map" => current \in framed
  /\ pc \in Making /\ current # "fb0" => "fb0" \in framed
  /\ pc \in Making /\ current = "graphics" => "fb1" \in framed
  /\ pc \in Blending \cup {"saveBlending", "setCrtc", "terminal", "ready", "flip"} =>
       FrameBuffers \subseteq framed
  /\ pc = "setCrtc" /\ plane = "overlay" => "graphics" \in framed

TerminalInv ==
  /\ "raw" \in terminal <=> stdinRaw
  /\ "nonblock" \in terminal <=> flagsSaved
  /\ pc = "closed" => ~stdinRaw /\ ~flagsSaved

\* The graphics plane shows what it did, or a buffer of ours, until the CRTC is back
\* or cannot be restored.
CrtcInv ==
  /\ crtcFb \in framed \/ crtcFb = before \/ "crtc" \in lost
  /\ pc \notin {"card"} \cup Destroying => crtcSaved \/ "crtc" \in lost
  /\ pc \in Destroying => crtcFb = before \/ before = Nothing \/ "crtc" \in lost

\* The overlay plane shows a buffer of ours only if there is one and until it is off.
OverlayInv ==
  /\ plane = "overlay" /\ pc \in Making \cup Blending
       \cup {"saveBlending", "setCrtc", "terminal", "ready", "flip"} => hasOverlay
  /\ overlayFb \in FrameBuffers => hasOverlay
  /\ pc \in {"restoreBlending", "restoreCrtc"} \cup Destroying =>
       overlayFb \notin FrameBuffers \/ "overlay" \in lost

AlphaInv ==
  /\ ourAlpha \subseteq savedAlpha \cup lost
  /\ pc \in Early => savedAlpha = {}
  /\ pc \in Early \cup Making \cup {"saveBlending", "setCrtc"} => ourAlpha = {}
  /\ pc \in {"restoreCrtc"} \cup Destroying => savedAlpha = {}

\* The next picture goes to a buffer that is on neither plane.
FrameInv ==
  /\ pc \in Early \cup Making \cup Blending \cup {"saveBlending", "setCrtc"} =>
       frame = "fb0" /\ overlayFb \notin FrameBuffers
  /\ pc \in Blending => crtcFb = IF plane = "overlay" THEN "graphics" ELSE "fb0"
  /\ pc \in {"terminal", "ready", "flip"} => ~OnScreen(frame)
  /\ pc \in {"terminal", "ready", "flip"} /\ plane = "overlay" => crtcFb = "graphics"
  /\ plane = "primary" => overlayFb \notin FrameBuffers

\* Both buffers are black outside the place of the latest picture.
PaintInv == \A b \in FrameBuffers : painted[b] \subseteq {contentRect}

Inv ==
  /\ TypeOK /\ MemoryInv /\ FramedInv /\ TerminalInv /\ CrtcInv /\ OverlayInv /\ AlphaInv
  /\ FrameInv /\ PaintInv

\* The invariant holds at first.
LEMMA InitInv == Init => Inv
<1> SUFFICES ASSUME Init PROVE Inv
  OBVIOUS
<1> USE KmsAssumption DEF Init, FrameBuffers, Buffers, Nothing, Theirs, Places, Making, Early, Blending,
     Closed, Destroying
<1>1. TypeOK
  <2>1. FlagsOK
    BY Zenon DEF FlagsOK
  <2>2. StateOK
    BY DEF StateOK
  <2> QED BY <2>1, <2>2 DEF TypeOK
<1>2. MemoryInv /\ FramedInv /\ TerminalInv /\ CrtcInv /\ OverlayInv /\ AlphaInv
  BY DEF MemoryInv, FramedInv, TerminalInv, CrtcInv, OverlayInv, AlphaInv
<1>3. FrameInv /\ PaintInv
  BY DEF FrameInv, PaintInv, OnScreen
<1> QED BY <1>1, <1>2, <1>3 DEF Inv

\* Steps of the constructor.
LEMMA ConstructStep == ASSUME Inv, Construct PROVE Inv'
<1> USE KmsAssumption DEF Inv, FrameBuffers, Buffers, Nothing, Theirs, Places, Making, Early, Blending,
     Closed, Destroying, device, memory, pictures, console, found, Throw
<1>1. CASE CardFound
  <2>1. TypeOK'
    <3>1. FlagsOK'
      BY <1>1, Zenon DEF CardFound, TypeOK, FlagsOK
    <3>2. StateOK'
      BY <1>1 DEF CardFound, TypeOK, StateOK
    <3> QED BY <3>1, <3>2 DEF TypeOK
  <2>2. MemoryInv' /\ FramedInv' /\ TerminalInv'
    BY <1>1 DEF CardFound, TypeOK, StateOK, MemoryInv, FramedInv, TerminalInv
  <2>3. CrtcInv' /\ OverlayInv' /\ AlphaInv'
    BY <1>1 DEF CardFound, TypeOK, StateOK, MemoryInv, FramedInv, CrtcInv, OverlayInv, AlphaInv
  <2>4. FrameInv' /\ PaintInv'
    BY <1>1 DEF CardFound, TypeOK, StateOK, MemoryInv, FramedInv, FrameInv, PaintInv, OnScreen
  <2> QED BY <2>1, <2>2, <2>3, <2>4
<1>2. CASE NoCard
  <2>1. TypeOK'
    <3>1. FlagsOK'
      BY <1>2, Zenon DEF NoCard, TypeOK, FlagsOK
    <3>2. StateOK'
      BY <1>2 DEF NoCard, TypeOK, StateOK
    <3> QED BY <3>1, <3>2 DEF TypeOK
  <2>2. MemoryInv' /\ FramedInv' /\ TerminalInv'
    BY <1>2 DEF NoCard, TypeOK, StateOK, MemoryInv, FramedInv, TerminalInv
  <2>3. CrtcInv' /\ OverlayInv' /\ AlphaInv'
    BY <1>2 DEF NoCard, TypeOK, StateOK, MemoryInv, FramedInv, CrtcInv, OverlayInv, AlphaInv, FrameInv, OnScreen
  <2>4. FrameInv' /\ PaintInv'
    BY <1>2 DEF NoCard, TypeOK, StateOK, MemoryInv, FramedInv, FrameInv, PaintInv, OnScreen
  <2> QED BY <2>1, <2>2, <2>3, <2>4
<1>3. CASE BecomeMaster
  <2>1. TypeOK'
    <3>1. FlagsOK'
      BY <1>3, Zenon DEF BecomeMaster, TypeOK, FlagsOK
    <3>2. StateOK'
      BY <1>3 DEF BecomeMaster, TypeOK, StateOK
    <3> QED BY <3>1, <3>2 DEF TypeOK
  <2>2. MemoryInv' /\ FramedInv' /\ TerminalInv'
    BY <1>3 DEF BecomeMaster, TypeOK, StateOK, MemoryInv, FramedInv, TerminalInv
  <2>3. CrtcInv'
    BY <1>3 DEF BecomeMaster, TypeOK, StateOK, MemoryInv, FramedInv, CrtcInv
  <2>4. OverlayInv'
    BY <1>3 DEF BecomeMaster, TypeOK, StateOK, MemoryInv, FramedInv, OverlayInv
  <2>5. AlphaInv'
    BY <1>3 DEF BecomeMaster, TypeOK, StateOK, MemoryInv, FramedInv, AlphaInv
  <2>6. FrameInv'
    BY <1>3 DEF BecomeMaster, TypeOK, StateOK, MemoryInv, FramedInv, FrameInv, OnScreen
  <2>7. PaintInv'
    BY <1>3 DEF BecomeMaster, TypeOK, StateOK, MemoryInv, FramedInv, PaintInv
  <2> QED BY <2>1, <2>2, <2>3, <2>4, <2>5, <2>6, <2>7
<1>4. CASE MasterRefused
  <2>1. TypeOK'
    <3>1. FlagsOK'
      BY <1>4, Zenon DEF MasterRefused, TypeOK, FlagsOK
    <3>2. StateOK'
      BY <1>4 DEF MasterRefused, TypeOK, StateOK
    <3> QED BY <3>1, <3>2 DEF TypeOK
  <2>2. MemoryInv' /\ FramedInv' /\ TerminalInv'
    BY <1>4 DEF MasterRefused, TypeOK, StateOK, MemoryInv, FramedInv, TerminalInv
  <2>3. CrtcInv' /\ OverlayInv' /\ AlphaInv'
    BY <1>4 DEF MasterRefused, TypeOK, StateOK, MemoryInv, FramedInv, CrtcInv, OverlayInv, AlphaInv
  <2>4. FrameInv' /\ PaintInv'
    BY <1>4 DEF MasterRefused, TypeOK, StateOK, MemoryInv, FramedInv, FrameInv, PaintInv, OnScreen
  <2> QED BY <2>1, <2>2, <2>3, <2>4
<1>5. CASE SelectPlanes
  <2>1. TypeOK'
    <3>1. FlagsOK'
      BY <1>5, Zenon DEF SelectPlanes, TypeOK, FlagsOK
    <3>2. StateOK'
      BY <1>5 DEF SelectPlanes, TypeOK, StateOK
    <3> QED BY <3>1, <3>2 DEF TypeOK
  <2>2. MemoryInv' /\ FramedInv' /\ TerminalInv'
    BY <1>5 DEF SelectPlanes, TypeOK, StateOK, MemoryInv, FramedInv, TerminalInv
  <2>3. CrtcInv' /\ OverlayInv' /\ AlphaInv'
    BY <1>5 DEF SelectPlanes, TypeOK, StateOK, MemoryInv, FramedInv, CrtcInv, OverlayInv, AlphaInv, FrameInv, OnScreen
  <2>4. FrameInv' /\ PaintInv'
    BY <1>5 DEF SelectPlanes, TypeOK, StateOK, MemoryInv, FramedInv, FrameInv, PaintInv, OnScreen
  <2> QED BY <2>1, <2>2, <2>3, <2>4
<1>6. CASE CreateDumb
  <2>1. TypeOK'
    <3>1. FlagsOK'
      BY <1>6, Zenon DEF CreateDumb, TypeOK, FlagsOK
    <3>2. StateOK'
      BY <1>6 DEF CreateDumb, TypeOK, StateOK
    <3> QED BY <3>1, <3>2 DEF TypeOK
  <2>2. MemoryInv' /\ FramedInv' /\ TerminalInv'
    BY <1>6 DEF CreateDumb, TypeOK, StateOK, MemoryInv, FramedInv, TerminalInv
  <2>3. CrtcInv' /\ OverlayInv' /\ AlphaInv'
    BY <1>6 DEF CreateDumb, TypeOK, StateOK, MemoryInv, FramedInv, CrtcInv, OverlayInv, AlphaInv
  <2>4. FrameInv' /\ PaintInv'
    BY <1>6 DEF CreateDumb, TypeOK, StateOK, MemoryInv, FramedInv, FrameInv, PaintInv, OnScreen
  <2> QED BY <2>1, <2>2, <2>3, <2>4
<1>7. CASE AddFb
  <2>1. TypeOK'
    <3>1. FlagsOK'
      BY <1>7, Zenon DEF AddFb, TypeOK, FlagsOK
    <3>2. StateOK'
      BY <1>7 DEF AddFb, TypeOK, StateOK
    <3> QED BY <3>1, <3>2 DEF TypeOK
  <2>2. MemoryInv' /\ FramedInv' /\ TerminalInv'
    BY <1>7 DEF AddFb, TypeOK, StateOK, MemoryInv, FramedInv, TerminalInv
  <2>3. CrtcInv' /\ OverlayInv' /\ AlphaInv'
    BY <1>7 DEF AddFb, TypeOK, StateOK, MemoryInv, FramedInv, CrtcInv, OverlayInv, AlphaInv
  <2>4. FrameInv' /\ PaintInv'
    BY <1>7 DEF AddFb, TypeOK, StateOK, MemoryInv, FramedInv, FrameInv, PaintInv, OnScreen
  <2> QED BY <2>1, <2>2, <2>3, <2>4
<1>8. CASE MapDumb
  <2>1. TypeOK'
    <3>1. FlagsOK'
      BY <1>8, Zenon DEF MapDumb, TypeOK, FlagsOK
    <3>2. StateOK'
      BY <1>8 DEF MapDumb, TypeOK, StateOK
    <3> QED BY <3>1, <3>2 DEF TypeOK
  <2>2. MemoryInv' /\ FramedInv' /\ TerminalInv'
    BY <1>8 DEF MapDumb, TypeOK, StateOK, MemoryInv, FramedInv, TerminalInv
  <2>3. CrtcInv' /\ OverlayInv' /\ AlphaInv'
    BY <1>8 DEF MapDumb, TypeOK, StateOK, MemoryInv, FramedInv, CrtcInv, OverlayInv, AlphaInv
  <2>4. FrameInv' /\ PaintInv'
    BY <1>8 DEF MapDumb, TypeOK, StateOK, MemoryInv, FramedInv, FrameInv, PaintInv, OnScreen
  <2> QED BY <2>1, <2>2, <2>3, <2>4
<1>9. CASE CreateFails
  <2>1. TypeOK'
    <3>1. FlagsOK'
      BY <1>9, Zenon DEF CreateFails, TypeOK, FlagsOK
    <3>2. StateOK'
      BY <1>9 DEF CreateFails, TypeOK, StateOK
    <3> QED BY <3>1, <3>2 DEF TypeOK
  <2>2. MemoryInv' /\ FramedInv' /\ TerminalInv'
    BY <1>9 DEF CreateFails, TypeOK, StateOK, MemoryInv, FramedInv, TerminalInv
  <2>3. CrtcInv' /\ OverlayInv' /\ AlphaInv'
    BY <1>9 DEF CreateFails, TypeOK, StateOK, MemoryInv, FramedInv, CrtcInv, OverlayInv, AlphaInv
  <2>4. FrameInv' /\ PaintInv'
    BY <1>9 DEF CreateFails, TypeOK, StateOK, MemoryInv, FramedInv, FrameInv, PaintInv, OnScreen
  <2> QED BY <2>1, <2>2, <2>3, <2>4
<1>10. CASE SaveBlending
  <2>1. TypeOK'
    <3>1. FlagsOK'
      BY <1>10, Zenon DEF SaveBlending, TypeOK, FlagsOK
    <3>2. StateOK'
      BY <1>10 DEF SaveBlending, TypeOK, StateOK
    <3> QED BY <3>1, <3>2 DEF TypeOK
  <2>2. MemoryInv' /\ FramedInv' /\ TerminalInv'
    BY <1>10 DEF SaveBlending, TypeOK, StateOK, MemoryInv, FramedInv, TerminalInv
  <2>3. CrtcInv' /\ OverlayInv' /\ AlphaInv'
    BY <1>10 DEF SaveBlending, TypeOK, StateOK, MemoryInv, FramedInv, CrtcInv, OverlayInv, AlphaInv
  <2>4. FrameInv' /\ PaintInv'
    BY <1>10 DEF SaveBlending, TypeOK, StateOK, MemoryInv, FramedInv, FrameInv, PaintInv, OnScreen
  <2> QED BY <2>1, <2>2, <2>3, <2>4
<1>11. CASE SetCrtc
  <2>1. TypeOK'
    <3>1. FlagsOK'
      BY <1>11, Zenon DEF SetCrtc, TypeOK, FlagsOK
    <3>2. StateOK'
      BY <1>11 DEF SetCrtc, TypeOK, StateOK
    <3> QED BY <3>1, <3>2 DEF TypeOK
  <2>2. MemoryInv' /\ FramedInv' /\ TerminalInv'
    BY <1>11 DEF SetCrtc, TypeOK, StateOK, MemoryInv, FramedInv, TerminalInv
  <2>3. CrtcInv' /\ OverlayInv' /\ AlphaInv'
    BY <1>11 DEF SetCrtc, TypeOK, StateOK, MemoryInv, FramedInv, CrtcInv, OverlayInv, AlphaInv
  <2>4. FrameInv' /\ PaintInv'
    BY <1>11 DEF SetCrtc, TypeOK, StateOK, MemoryInv, FramedInv, FrameInv, PaintInv, OnScreen
  <2> QED BY <2>1, <2>2, <2>3, <2>4
<1>12. CASE ApplyBlending
  <2>1. TypeOK'
    <3>1. FlagsOK'
      BY <1>12, Zenon DEF ApplyBlending, TypeOK, FlagsOK
    <3>2. StateOK'
      BY <1>12 DEF ApplyBlending, TypeOK, StateOK
    <3> QED BY <3>1, <3>2 DEF TypeOK
  <2>2. MemoryInv' /\ FramedInv' /\ TerminalInv'
    BY <1>12 DEF ApplyBlending, TypeOK, StateOK, MemoryInv, FramedInv, TerminalInv
  <2>3. CrtcInv' /\ OverlayInv' /\ AlphaInv'
    BY <1>12 DEF ApplyBlending, TypeOK, StateOK, MemoryInv, FramedInv, CrtcInv, OverlayInv, AlphaInv
  <2>4. FrameInv' /\ PaintInv'
    BY <1>12 DEF ApplyBlending, TypeOK, StateOK, MemoryInv, FramedInv, FrameInv, PaintInv, OnScreen
  <2> QED BY <2>1, <2>2, <2>3, <2>4
<1>13. CASE DeviceRefuses
  <2>1. TypeOK'
    <3>1. FlagsOK'
      BY <1>13, Zenon DEF DeviceRefuses, TypeOK, FlagsOK
    <3>2. StateOK'
      BY <1>13 DEF DeviceRefuses, TypeOK, StateOK
    <3> QED BY <3>1, <3>2 DEF TypeOK
  <2>2. MemoryInv' /\ FramedInv' /\ TerminalInv'
    BY <1>13 DEF DeviceRefuses, TypeOK, StateOK, MemoryInv, FramedInv, TerminalInv
  <2>3. CrtcInv' /\ OverlayInv' /\ AlphaInv'
    BY <1>13 DEF DeviceRefuses, TypeOK, StateOK, MemoryInv, FramedInv, CrtcInv, OverlayInv, AlphaInv
  <2>4. FrameInv' /\ PaintInv'
    BY <1>13 DEF DeviceRefuses, TypeOK, StateOK, MemoryInv, FramedInv, FrameInv, PaintInv, OnScreen
  <2> QED BY <2>1, <2>2, <2>3, <2>4
<1>14. CASE UsePlane
  <2>1. TypeOK'
    <3>1. FlagsOK'
      BY <1>14, Zenon DEF UsePlane, TypeOK, FlagsOK
    <3>2. StateOK'
      BY <1>14 DEF UsePlane, TypeOK, StateOK
    <3> QED BY <3>1, <3>2 DEF TypeOK
  <2>2. MemoryInv' /\ FramedInv' /\ TerminalInv'
    BY <1>14 DEF UsePlane, TypeOK, StateOK, MemoryInv, FramedInv, TerminalInv
  <2>3. CrtcInv' /\ OverlayInv' /\ AlphaInv'
    BY <1>14 DEF UsePlane, TypeOK, StateOK, MemoryInv, FramedInv, CrtcInv, OverlayInv, AlphaInv
  <2>4. FrameInv' /\ PaintInv'
    BY <1>14 DEF UsePlane, TypeOK, StateOK, MemoryInv, FramedInv, FrameInv, PaintInv, OnScreen
  <2> QED BY <2>1, <2>2, <2>3, <2>4
<1>15. CASE SetupTerminal
  <2>1. TypeOK'
    <3>1. FlagsOK'
      BY <1>15, Zenon DEF SetupTerminal, TypeOK, FlagsOK
    <3>2. StateOK'
      BY <1>15 DEF SetupTerminal, TypeOK, StateOK
    <3> QED BY <3>1, <3>2 DEF TypeOK
  <2>2. MemoryInv' /\ FramedInv' /\ TerminalInv'
    BY <1>15 DEF SetupTerminal, TypeOK, StateOK, MemoryInv, FramedInv, TerminalInv
  <2>3. CrtcInv' /\ OverlayInv' /\ AlphaInv'
    BY <1>15 DEF SetupTerminal, TypeOK, StateOK, MemoryInv, FramedInv, CrtcInv, OverlayInv, AlphaInv
  <2>4. FrameInv' /\ PaintInv'
    BY <1>15 DEF SetupTerminal, TypeOK, StateOK, MemoryInv, FramedInv, FrameInv, PaintInv, OnScreen
  <2> QED BY <2>1, <2>2, <2>3, <2>4
<1> QED BY ONLY Construct, <1>1, <1>2, <1>3, <1>4, <1>5, <1>6, <1>7, <1>8, <1>9, <1>10, <1>11, <1>12, <1>13, <1>14, <1>15 DEF Construct

\* Steps of teardown.
LEMMA TeardownStep == ASSUME Inv, Teardown PROVE Inv'
<1> USE KmsAssumption DEF Inv, FrameBuffers, Buffers, Nothing, Theirs, Places, Making, Early, Blending,
     Closed, Destroying, device, memory, pictures, console, found, Throw
<1>1. CASE OverlayOff
  <2>1. TypeOK'
    <3>1. FlagsOK'
      BY <1>1, Zenon DEF OverlayOff, TypeOK, FlagsOK
    <3>2. StateOK'
      BY <1>1 DEF OverlayOff, TypeOK, StateOK
    <3> QED BY <3>1, <3>2 DEF TypeOK
  <2>2. MemoryInv' /\ FramedInv' /\ TerminalInv'
    BY <1>1 DEF OverlayOff, TypeOK, StateOK, MemoryInv, FramedInv, TerminalInv
  <2>3. CrtcInv'
    BY <1>1 DEF OverlayOff, TypeOK, StateOK, MemoryInv, FramedInv, CrtcInv
  <2>4. OverlayInv'
    BY <1>1 DEF OverlayOff, TypeOK, StateOK, MemoryInv, FramedInv, OverlayInv
  <2>5. AlphaInv'
    BY <1>1 DEF OverlayOff, TypeOK, StateOK, MemoryInv, FramedInv, AlphaInv
  <2>6. FrameInv'
    BY <1>1 DEF OverlayOff, TypeOK, StateOK, MemoryInv, FramedInv, FrameInv, OnScreen
  <2>7. PaintInv'
    BY <1>1 DEF OverlayOff, TypeOK, StateOK, MemoryInv, FramedInv, PaintInv
  <2> QED BY <2>1, <2>2, <2>3, <2>4, <2>5, <2>6, <2>7
<1>2. CASE RestoreBlending
  <2>1. TypeOK'
    <3>1. FlagsOK'
      BY <1>2, Zenon DEF RestoreBlending, TypeOK, FlagsOK
    <3>2. StateOK'
      BY <1>2 DEF RestoreBlending, TypeOK, StateOK
    <3> QED BY <3>1, <3>2 DEF TypeOK
  <2>2. MemoryInv' /\ FramedInv' /\ TerminalInv'
    BY <1>2 DEF RestoreBlending, TypeOK, StateOK, MemoryInv, FramedInv, TerminalInv
  <2>3. CrtcInv' /\ OverlayInv' /\ AlphaInv'
    BY <1>2 DEF RestoreBlending, TypeOK, StateOK, MemoryInv, FramedInv, CrtcInv, OverlayInv, AlphaInv
  <2>4. FrameInv' /\ PaintInv'
    BY <1>2 DEF RestoreBlending, TypeOK, StateOK, MemoryInv, FramedInv, FrameInv, PaintInv, OnScreen
  <2> QED BY <2>1, <2>2, <2>3, <2>4
<1>3. CASE RestoreCrtc
  <2>1. TypeOK'
    <3>1. FlagsOK'
      BY <1>3, Zenon DEF RestoreCrtc, TypeOK, FlagsOK
    <3>2. StateOK'
      BY <1>3 DEF RestoreCrtc, TypeOK, StateOK
    <3> QED BY <3>1, <3>2 DEF TypeOK
  <2>2. MemoryInv' /\ FramedInv' /\ TerminalInv'
    BY <1>3 DEF RestoreCrtc, TypeOK, StateOK, MemoryInv, FramedInv, TerminalInv
  <2>3. CrtcInv' /\ OverlayInv' /\ AlphaInv'
    BY <1>3 DEF RestoreCrtc, TypeOK, StateOK, MemoryInv, FramedInv, CrtcInv, OverlayInv, AlphaInv
  <2>4. FrameInv' /\ PaintInv'
    BY <1>3 DEF RestoreCrtc, TypeOK, StateOK, MemoryInv, FramedInv, FrameInv, PaintInv, OnScreen
  <2> QED BY <2>1, <2>2, <2>3, <2>4
<1>4. CASE DestroyDumb
  <2>1. TypeOK'
    <3>1. FlagsOK'
      BY <1>4, Zenon DEF DestroyDumb, DestroyNext, Without, TypeOK, FlagsOK
    <3>2. StateOK'
      BY <1>4 DEF DestroyDumb, DestroyNext, Without, TypeOK, StateOK
    <3> QED BY <3>1, <3>2 DEF TypeOK
  <2>2. MemoryInv' /\ FramedInv' /\ TerminalInv'
    BY <1>4 DEF DestroyDumb, DestroyNext, Without, TypeOK, StateOK, MemoryInv, FramedInv, TerminalInv
  <2>3. CrtcInv' /\ OverlayInv' /\ AlphaInv'
    BY <1>4 DEF DestroyDumb, DestroyNext, Without, TypeOK, StateOK, MemoryInv, FramedInv, CrtcInv, OverlayInv, AlphaInv
  <2>4. FrameInv' /\ PaintInv'
    BY <1>4 DEF DestroyDumb, DestroyNext, Without, TypeOK, StateOK, MemoryInv, FramedInv, FrameInv, PaintInv, OnScreen
  <2> QED BY <2>1, <2>2, <2>3, <2>4
<1>5. CASE CloseCard
  <2>1. TypeOK'
    <3>1. FlagsOK'
      BY <1>5, Zenon DEF CloseCard, TypeOK, FlagsOK
    <3>2. StateOK'
      BY <1>5 DEF CloseCard, TypeOK, StateOK
    <3> QED BY <3>1, <3>2 DEF TypeOK
  <2>2. MemoryInv' /\ FramedInv' /\ TerminalInv'
    BY <1>5 DEF CloseCard, TypeOK, StateOK, MemoryInv, FramedInv, TerminalInv
  <2>3. CrtcInv' /\ OverlayInv' /\ AlphaInv'
    BY <1>5 DEF CloseCard, TypeOK, StateOK, MemoryInv, FramedInv, CrtcInv, OverlayInv, AlphaInv
  <2>4. FrameInv' /\ PaintInv'
    BY <1>5 DEF CloseCard, TypeOK, StateOK, MemoryInv, FramedInv, FrameInv, PaintInv, OnScreen
  <2> QED BY <2>1, <2>2, <2>3, <2>4
<1>6. CASE RestoreTerminal
  <2>1. TypeOK'
    <3>1. FlagsOK'
      BY <1>6, Zenon DEF RestoreTerminal, TypeOK, FlagsOK
    <3>2. StateOK'
      BY <1>6 DEF RestoreTerminal, TypeOK, StateOK
    <3> QED BY <3>1, <3>2 DEF TypeOK
  <2>2. MemoryInv' /\ FramedInv' /\ TerminalInv'
    BY <1>6 DEF RestoreTerminal, TypeOK, StateOK, MemoryInv, FramedInv, TerminalInv
  <2>3. CrtcInv' /\ OverlayInv' /\ AlphaInv'
    BY <1>6 DEF RestoreTerminal, TypeOK, StateOK, MemoryInv, FramedInv, CrtcInv, OverlayInv, AlphaInv
  <2>4. FrameInv' /\ PaintInv'
    BY <1>6 DEF RestoreTerminal, TypeOK, StateOK, MemoryInv, FramedInv, FrameInv, PaintInv, OnScreen
  <2> QED BY <2>1, <2>2, <2>3, <2>4
<1> QED BY ONLY Teardown, <1>1, <1>2, <1>3, <1>4, <1>5, <1>6 DEF Teardown

\* Steps of show, poll and the destructor.
LEMMA UseStep == ASSUME Inv, Use PROVE Inv'
<1> USE KmsAssumption DEF Inv, FrameBuffers, Buffers, Nothing, Theirs, Places, Making, Early, Blending,
     Closed, Destroying, device, memory, pictures, console, found, Throw
<1>1. CASE Flip
  <2>1. TypeOK'
    <3>1. FlagsOK'
      BY <1>1, Zenon DEF Flip, ReadKeys, Other, TypeOK, FlagsOK
    <3>2. StateOK'
      BY <1>1 DEF Flip, ReadKeys, Other, TypeOK, StateOK
    <3> QED BY <3>1, <3>2 DEF TypeOK
  <2>2. MemoryInv' /\ FramedInv' /\ TerminalInv'
    BY <1>1 DEF Flip, ReadKeys, Other, TypeOK, StateOK, MemoryInv, FramedInv, TerminalInv
  <2>3. CrtcInv' /\ OverlayInv' /\ AlphaInv'
    BY <1>1 DEF Flip, ReadKeys, Other, TypeOK, StateOK, MemoryInv, FramedInv, CrtcInv, OverlayInv, AlphaInv
  <2>4. FrameInv' /\ PaintInv'
    BY <1>1 DEF Flip, ReadKeys, Other, TypeOK, StateOK, MemoryInv, FramedInv, FrameInv, PaintInv, OnScreen
  <2> QED BY <2>1, <2>2, <2>3, <2>4
<1>2. CASE FlipFails
  <2>1. TypeOK'
    <3>1. FlagsOK'
      BY <1>2, Zenon DEF FlipFails, TypeOK, FlagsOK
    <3>2. StateOK'
      BY <1>2 DEF FlipFails, TypeOK, StateOK
    <3> QED BY <3>1, <3>2 DEF TypeOK
  <2>2. MemoryInv' /\ FramedInv' /\ TerminalInv'
    BY <1>2 DEF FlipFails, TypeOK, StateOK, MemoryInv, FramedInv, TerminalInv
  <2>3. CrtcInv'
    BY <1>2 DEF FlipFails, TypeOK, StateOK, MemoryInv, FramedInv, CrtcInv
  <2>4. OverlayInv'
    BY <1>2 DEF FlipFails, TypeOK, StateOK, MemoryInv, FramedInv, OverlayInv
  <2>5. AlphaInv'
    BY <1>2 DEF FlipFails, TypeOK, StateOK, MemoryInv, FramedInv, AlphaInv
  <2>6. FrameInv'
    BY <1>2 DEF FlipFails, TypeOK, StateOK, MemoryInv, FramedInv, FrameInv, OnScreen
  <2>7. PaintInv'
    BY <1>2 DEF FlipFails, TypeOK, StateOK, MemoryInv, FramedInv, PaintInv
  <2> QED BY <2>1, <2>2, <2>3, <2>4, <2>5, <2>6, <2>7
<1>3. CASE Poll
  <2>1. TypeOK'
    <3>1. FlagsOK'
      BY <1>3, Zenon DEF Poll, ReadKeys, TypeOK, FlagsOK
    <3>2. StateOK'
      BY <1>3 DEF Poll, ReadKeys, TypeOK, StateOK
    <3> QED BY <3>1, <3>2 DEF TypeOK
  <2>2. MemoryInv' /\ FramedInv' /\ TerminalInv'
    BY <1>3 DEF Poll, ReadKeys, TypeOK, StateOK, MemoryInv, FramedInv, TerminalInv
  <2>3. CrtcInv' /\ OverlayInv' /\ AlphaInv'
    BY <1>3 DEF Poll, ReadKeys, TypeOK, StateOK, MemoryInv, FramedInv, CrtcInv, OverlayInv, AlphaInv
  <2>4. FrameInv' /\ PaintInv'
    BY <1>3 DEF Poll, ReadKeys, TypeOK, StateOK, MemoryInv, FramedInv, FrameInv, PaintInv, OnScreen
  <2> QED BY <2>1, <2>2, <2>3, <2>4
<1>4. CASE Destroy
  <2>1. TypeOK'
    <3>1. FlagsOK'
      BY <1>4, Zenon DEF Destroy, TypeOK, FlagsOK
    <3>2. StateOK'
      BY <1>4 DEF Destroy, TypeOK, StateOK
    <3> QED BY <3>1, <3>2 DEF TypeOK
  <2>2. MemoryInv' /\ FramedInv' /\ TerminalInv'
    BY <1>4 DEF Destroy, TypeOK, StateOK, MemoryInv, FramedInv, TerminalInv
  <2>3. CrtcInv' /\ OverlayInv' /\ AlphaInv'
    BY <1>4 DEF Destroy, TypeOK, StateOK, MemoryInv, FramedInv, CrtcInv, OverlayInv, AlphaInv
  <2>4. FrameInv' /\ PaintInv'
    BY <1>4 DEF Destroy, TypeOK, StateOK, MemoryInv, FramedInv, FrameInv, PaintInv, OnScreen
  <2> QED BY <2>1, <2>2, <2>3, <2>4
<1>5. ASSUME NEW rect \in Rects, Draw(rect) PROVE Inv'
  <2>1. TypeOK'
    <3>1. FlagsOK'
      BY <1>5, Zenon DEF Draw, TypeOK, FlagsOK
    <3>2. StateOK'
      BY <1>5 DEF Draw, TypeOK, StateOK
    <3> QED BY <3>1, <3>2 DEF TypeOK
  <2>2. MemoryInv' /\ FramedInv' /\ TerminalInv'
    BY <1>5 DEF Draw, TypeOK, StateOK, MemoryInv, FramedInv, TerminalInv
  <2>3. CrtcInv' /\ OverlayInv' /\ AlphaInv'
    BY <1>5 DEF Draw, TypeOK, StateOK, MemoryInv, FramedInv, CrtcInv, OverlayInv, AlphaInv
  <2>4. FrameInv' /\ PaintInv'
    BY <1>5 DEF Draw, TypeOK, StateOK, MemoryInv, FramedInv, FrameInv, PaintInv, OnScreen
  <2> QED BY <2>1, <2>2, <2>3, <2>4
<1> QED BY ONLY Use, <1>1, <1>2, <1>3, <1>4, <1>5 DEF Use

\* Each step keeps the invariant.
LEMMA StepInv == Inv /\ [Next]_vars => Inv'
<1> SUFFICES ASSUME Inv, [Next]_vars PROVE Inv'
  OBVIOUS
<1>1. CASE UNCHANGED vars
  BY <1>1 DEF Inv, vars, device, memory, pictures, console, found, TypeOK, FlagsOK, StateOK, MemoryInv, FramedInv,
     TerminalInv, CrtcInv, OverlayInv, AlphaInv, FrameInv, OnScreen, PaintInv
<1> QED BY <1>1, ConstructStep, UseStep, TeardownStep DEF Next

\* The invariant always holds.
LEMMA InvAlways == Spec => []Inv
BY InitInv, StepInv, PTL DEF Spec

\* The variables of the display keep their types.
THEOREM TypeCorrect == Spec => []TypeOK
<1>1. Inv => TypeOK
  BY DEF Inv
<1> QED BY <1>1, InvAlways, PTL

\* teardown gives back exactly what exists, from wherever the set-up had got to.
THEOREM ConsoleIsRestored == Spec => []ConsoleRestored
<1>1. Inv => ConsoleRestored
  <2> SUFFICES ASSUME Inv, pc = "closed" PROVE ConsoleRestored
    BY DEF ConsoleRestored
  <2> USE DEF Closed, Destroying
  <2>1. allocated = {} /\ framed = {} /\ mapped = {} /\ ~cardOpen /\ ~master
    BY DEF Inv, MemoryInv
  <2>2. terminal = {}
    BY DEF Inv, TypeOK, StateOK, TerminalInv
  <2>3. "crtc" \in lost \/ crtcFb = before
    BY <2>1 DEF Inv, CrtcInv
  <2>4. ourAlpha \subseteq lost
    BY DEF Inv, AlphaInv
  <2> QED BY <2>1, <2>2, <2>3, <2>4 DEF ConsoleRestored
<1> QED BY <1>1, InvAlways, PTL

\* No picture leaves anything of an older one beside it.
THEOREM NothingStaleOnScreen == Spec => []NoStaleBorder
<1>1. Inv => NoStaleBorder
  BY DEF Inv, PaintInv, NoStaleBorder
<1> QED BY <1>1, InvAlways, PTL

\* Only show draws, and it draws into the buffer that is on neither plane.
THEOREM PicturesDrawnOffScreen == Spec => DrawsOffScreen
<1>1. Inv /\ [Next]_vars =>
        [\A b \in FrameBuffers : picture'[b] # picture[b] => ~OnScreen(b)]_vars
  <2> SUFFICES ASSUME Inv, Next, NEW b \in FrameBuffers, picture'[b] # picture[b]
               PROVE  ~OnScreen(b)
    BY DEF vars, pictures
  <2>1. PICK rect \in Rects : Draw(rect)
    BY DEF Next, Construct, Use, Teardown, pictures, CardFound, NoCard, BecomeMaster,
       MasterRefused, SelectPlanes, CreateDumb, AddFb, MapDumb, CreateFails, SaveBlending,
       SetCrtc, ApplyBlending, DeviceRefuses, UsePlane, SetupTerminal, Flip, FlipFails, Poll,
       Destroy, OverlayOff, RestoreBlending, RestoreCrtc, DestroyDumb, CloseCard, RestoreTerminal
  <2>2. b = frame /\ pc = "ready"
    BY <2>1 DEF Draw, Inv, TypeOK, StateOK
  <2> QED BY <2>2 DEF Inv, FrameInv
<1> QED BY <1>1, InvAlways, PTL DEF Spec, DrawsOffScreen

\* teardown switches planes over before it removes what they show.
THEOREM NothingRemovedOnScreen == Spec => BuffersOutliveScanOut
<1>1. Inv /\ [Next]_vars =>
        [\A b \in framed \ framed' :
           /\ crtcFb = b => "crtc" \in lost \/ before = Nothing
           /\ overlayFb = b => "overlay" \in lost]_vars
  <2> SUFFICES ASSUME Inv, Next, NEW b \in framed \ framed'
               PROVE  /\ crtcFb = b => "crtc" \in lost \/ before = Nothing
                      /\ overlayFb = b => "overlay" \in lost
    BY DEF vars, memory
  <2>1. DestroyDumb
    BY DEF Next, Construct, Use, Teardown, memory, CardFound, NoCard, BecomeMaster,
       MasterRefused, SelectPlanes, CreateDumb, AddFb, MapDumb, CreateFails, SaveBlending,
       SetCrtc, ApplyBlending, DeviceRefuses, UsePlane, SetupTerminal, Draw, Flip, FlipFails, Poll,
       Destroy, OverlayOff, RestoreBlending, RestoreCrtc, CloseCard, RestoreTerminal
  <2>2. pc \in Destroying /\ b \in Buffers
    BY <2>1 DEF DestroyDumb, Destroying, Inv, TypeOK, StateOK
  <2>3. crtcFb = b => "crtc" \in lost \/ before = Nothing
    BY <2>2 DEF Inv, TypeOK, StateOK, CrtcInv, Buffers, FrameBuffers, Theirs, Nothing
  <2>4. overlayFb = b => "overlay" \in lost
    BY <2>2 DEF Inv, TypeOK, StateOK, OverlayInv, Buffers, FrameBuffers, Theirs, Nothing
  <2> QED BY <2>3, <2>4
<1> QED BY <1>1, InvAlways, PTL DEF Spec, BuffersOutliveScanOut

\* What is on the screen is neither drawn into nor removed.
THEOREM ScanOutIsUndisturbed == Spec => ScanOutIsSafe
BY PicturesDrawnOffScreen, NothingRemovedOnScreen, PTL DEF ScanOutIsSafe

-------------------------------------------------------------------------------
(* HdmiProgram. *)

\* Where the worker can be, and when its camera streams.
OwnInv ==
  /\ gpc \in {"display", "spawn"} => wpc = "none"
  /\ gpc \in {"check", "close", "done"} => wpc \in {"none", "done"}
  /\ camera => wpc \notin {"none", "start", "device", "end", "done"}

\* An exception of the worker becomes its error, and only that does.
ErrorInv ==
  /\ raised => wpc \in {"leave", "end", "done"}
  /\ workerError => raised
  /\ wpc \in {"end", "done"} => workerError = raised
  /\ raised <=> faults \cap WorkerFaults # {}

\* The hand-off is stopped before main joins; without a worker it stays empty.
SlotInv ==
  /\ gpc \in {"join", "check"} => slot = "stopped"
  /\ wpc = "none" => slot # "full"
  /\ gpc \in {"close", "done"} => slot # "full"

\* What is thrown in main accounts for the faults.
ThrownInv ==
  /\ gpc \notin {"close", "done"} => (thrown <=> faults \cap MainFaults # {})
  /\ gpc = "check" => ~thrown
  /\ gpc \in {"close", "done"} =>
       /\ thrown => faults # {}
       /\ ~thrown => faults \cap MainFaults = {} /\ (raised => signal)
  /\ exit = "error" => thrown /\ gpc = "done"
  /\ exit = "ok" => ~thrown /\ gpc = "done"

ProgramInv == ProgramTypeOK /\ OwnInv /\ ErrorInv /\ SlotInv /\ ThrownInv

\* The invariant holds at first.
LEMMA ProgramInitInv == ProgramInit => ProgramInv
BY DEF ProgramInit, ProgramInv, ProgramTypeOK, OwnInv, ErrorInv, SlotInv, ThrownInv, WorkerFaults, MainFaults

\* Steps of the worker.
LEMMA WorkerStep == ASSUME ProgramInv, Worker PROVE ProgramInv'
<1> USE DEF ProgramInv, ProgramTypeOK, OwnInv, ErrorInv, SlotInv, ThrownInv, WorkerFaults, MainFaults, options,
            mainVars, workerVars, Leave, Raise
<1>1. CASE WorkerStarts
  BY <1>1 DEF WorkerStarts
<1>2. CASE NoDevice
  BY <1>2 DEF NoDevice
<1>3. CASE CameraStarts
  BY <1>3 DEF CameraStarts
<1>4. CASE CameraFails
  BY <1>4 DEF CameraFails
<1>5. CASE WarmedUp
  BY <1>5 DEF WarmedUp
<1>6. CASE WorkerGoesOn
  BY <1>6 DEF WorkerGoesOn
<1>7. CASE WorkerStops
  BY <1>7 DEF WorkerStops
<1>8. CASE NoFrameYet
  BY <1>8 DEF NoFrameYet
<1>9. CASE FrameReady
  BY <1>9 DEF FrameReady
<1>10. CASE InferenceFails
  BY <1>10 DEF InferenceFails
<1>11. CASE WorkerPublishes
  BY <1>11 DEF WorkerPublishes
<1>12. CASE WorkerLeaves
  <2>1. ProgramTypeOK'
    <3>1. camera' = FALSE
      BY <1>12, Zenon DEF WorkerLeaves
    <3>2. camera' \in BOOLEAN
      BY ONLY <3>1, Zenon
    <3> QED BY <1>12, <3>2 DEF WorkerLeaves
  <2>2. OwnInv' /\ SlotInv'
    BY <1>12 DEF WorkerLeaves
  <2>3. ErrorInv'
    BY <1>12 DEF WorkerLeaves
  <2>4. ThrownInv'
    BY <1>12 DEF WorkerLeaves
  <2> QED BY <2>1, <2>2, <2>3, <2>4
<1>13. CASE WorkerEnds
  <2>1. ProgramTypeOK'
    <3>1. running' = FALSE
      BY <1>13, Zenon DEF WorkerEnds
    <3>2. running' \in BOOLEAN
      BY ONLY <3>1, Zenon
    <3> QED BY <1>13, <3>2 DEF WorkerEnds
  <2>2. OwnInv' /\ SlotInv'
    BY <1>13 DEF WorkerEnds
  <2>3. ErrorInv'
    BY <1>13 DEF WorkerEnds
  <2>4. ThrownInv'
    BY <1>13 DEF WorkerEnds
  <2> QED BY <2>1, <2>2, <2>3, <2>4
<1> QED BY ONLY Worker, <1>1, <1>2, <1>3, <1>4, <1>5, <1>6, <1>7, <1>8, <1>9, <1>10, <1>11,
             <1>12, <1>13 DEF Worker

\* Steps of main.
LEMMA MainStep == ASSUME ProgramInv, Main PROVE ProgramInv'
<1> USE DEF ProgramInv, ProgramTypeOK, OwnInv, ErrorInv, SlotInv, ThrownInv, WorkerFaults, MainFaults, options,
            mainVars, workerVars
<1>1. CASE OpenDisplay
  BY <1>1 DEF OpenDisplay
<1>2. CASE NoDisplay
  BY <1>2 DEF NoDisplay
<1>3. CASE Spawn
  BY <1>3 DEF Spawn
<1>4. CASE NoThread
  BY <1>4 DEF NoThread
<1>5. CASE GuiStops
  BY <1>5 DEF GuiStops
<1>6. CASE GuiGoesOn
  BY <1>6 DEF GuiGoesOn
<1>7. CASE TryPop
  BY <1>7 DEF TryPop
<1>8. CASE Shown
  BY <1>8 DEF Shown
<1>9. CASE UserCloses
  BY <1>9 DEF UserCloses
<1>10. CASE ShowFails
  BY <1>10 DEF ShowFails
<1>11. CASE StopWorker
  <2>1. ProgramTypeOK'
    <3>1. running' = FALSE
      BY <1>11, Zenon DEF StopWorker
    <3>2. running' \in BOOLEAN
      BY ONLY <3>1, Zenon
    <3> QED BY <1>11, <3>2 DEF StopWorker
  <2>2. OwnInv' /\ SlotInv'
    BY <1>11 DEF StopWorker
  <2>3. ErrorInv'
    BY <1>11 DEF StopWorker
  <2>4. ThrownInv'
    BY <1>11 DEF StopWorker
  <2> QED BY <2>1, <2>2, <2>3, <2>4
<1>12. CASE Join
  BY <1>12 DEF Join
<1>13. CASE Check
  BY <1>13 DEF Check
<1>14. CASE CloseDisplay
  BY <1>14 DEF CloseDisplay
<1> QED BY ONLY Main, <1>1, <1>2, <1>3, <1>4, <1>5, <1>6, <1>7, <1>8, <1>9, <1>10, <1>11, <1>12,
             <1>13, <1>14 DEF Main

\* Each step keeps the invariant.
LEMMA ProgramStepInv == ProgramInv /\ [ProgramNext]_programVars => ProgramInv'
<1> SUFFICES ASSUME ProgramInv, [ProgramNext]_programVars PROVE ProgramInv'
  OBVIOUS
<1> USE DEF ProgramInv, ProgramTypeOK, OwnInv, ErrorInv, SlotInv, ThrownInv, options, mainVars, workerVars
<1>1. CASE Signal
  BY <1>1 DEF Signal
<1>2. CASE TimePasses
  BY <1>2 DEF TimePasses
<1>3. CASE UNCHANGED programVars
  BY <1>3 DEF programVars
<1> QED BY ONLY ProgramInv, [ProgramNext]_programVars, <1>1, <1>2, <1>3, WorkerStep, MainStep DEF ProgramNext, Outside, Done

\* The invariant always holds.
LEMMA ProgramInvAlways == ProgramSafeSpec => []ProgramInv
BY ProgramInitInv, ProgramStepInv, PTL DEF ProgramSafeSpec

\* The variables of the program keep their types.
THEOREM ProgramTypeCorrect == ProgramSafeSpec => []ProgramTypeOK
<1>1. ProgramInv => ProgramTypeOK
  BY DEF ProgramInv
<1> QED BY <1>1, ProgramInvAlways, PTL

\* main leaves the scope the worker refers to, on any way out, only after it has ended.
THEOREM WorkerOutlivesNothing == ProgramSafeSpec => []WorkerEndsFirst
<1>1. ProgramInv => WorkerEndsFirst
  BY DEF ProgramInv, ProgramTypeOK, OwnInv, ErrorInv, SlotInv, WorkerEndsFirst
<1> QED BY <1>1, ProgramInvAlways, PTL

\* Exit code 1 has a fault behind it; exit code 0 hides none but the worker's after a
\* signal.
THEOREM ExitCodeIsHonest == ProgramSafeSpec => []ExitIsHonest
<1>1. ProgramInv => ExitIsHonest
  <2> SUFFICES ASSUME ProgramInv PROVE ExitIsHonest
    OBVIOUS
  <2>1. faults \subseteq WorkerFaults \cup MainFaults
    BY DEF ProgramInv, ProgramTypeOK
  <2>2. exit = "ok" => faults \cap MainFaults = {} /\ (faults \cap WorkerFaults # {} => signal)
    BY DEF ProgramInv, ThrownInv, ErrorInv
  <2>3. exit = "error" => faults # {}
    BY DEF ProgramInv, ThrownInv
  <2> QED BY <2>1, <2>2, <2>3 DEF ExitIsHonest
<1> QED BY <1>1, ProgramInvAlways, PTL
===============================================================================
