------------------------------ MODULE KmsDisplay ------------------------------
(***************************************************************************)
(* KmsDisplay of yolov26_kms_display.cpp: from the constructor, whose every *)
(* call may fail, over show and poll to teardown, which the constructor's  *)
(* catch block and the destructor share.                                   *)
(*                                                                         *)
(* The object is used by one thread.  What makes it hard is the device: the *)
(* controller scans out a buffer all the time, other calls than the last   *)
(* one may fail, and the console has to be back at the end, from wherever  *)
(* the set-up had got to.  DRM, the terminal and the kernel are external.  *)
(***************************************************************************)
EXTENDS Integers

CONSTANTS
  Rects,     \* places of the picture on the screen
  NoRect,    \* content_rect_ before the first picture
  MaxShow    \* bound: pictures drawn

ASSUME KmsAssumption == NoRect \notin Rects /\ MaxShow \in Nat

FrameBuffers == {"fb0", "fb1"}            \* frame_fbs_
Buffers == FrameBuffers \cup {"graphics"} \* and primary_fb_
Nothing == "nothing"                      \* no framebuffer
Theirs == "theirs"                        \* what was there before

VARIABLES
  pc,           \* the next call; "ready" between calls, "closed" at the end
  plane,        \* plane_: "primary" or "overlay"
  current,      \* the buffer of create_dumb or destroy_dumb
  cardOpen,     \* fd_ >= 0
  crtcSaved,    \* saved_crtc_
  hasOverlay,   \* overlay_plane_id_
  savedAlpha,   \* blending_: the properties that were read
  allocated,    \* buffers with a handle
  framed,       \* buffers with an fb_id
  mapped,       \* buffers with a map
  frame,        \* frame_index_, as the buffer it selects
  contentRect,  \* content_rect_
  windowOpen,   \* window_open_
  stdinRaw,     \* stdin_raw_
  flagsSaved,   \* saved_stdin_flags_ >= 0
  master,       \* external: the process is DRM master
  before,       \* external: what the controller showed at first
  crtcFb,       \* external: what the graphics plane scans out
  overlayFb,    \* external: what the overlay plane scans out
  ourAlpha,     \* external: blending properties that have the program's value
  terminal,     \* external: settings of the terminal that were changed
  painted,      \* per frame buffer: the places that are not black
  picture,      \* per frame buffer: number of the picture in it
  shown,        \* pictures drawn
  lost          \* history: what could not be saved or restored

device == <<master, before, crtcFb, overlayFb, ourAlpha>>
memory == <<allocated, framed, mapped>>
pictures == <<frame, contentRect, painted, picture, shown>>
console == <<windowOpen, stdinRaw, flagsSaved, terminal>>
found == <<plane, crtcSaved, hasOverlay, savedAlpha>>
vars == <<pc, current, cardOpen, lost, device, memory, pictures, console, found>>

Init ==
  /\ pc = "card" /\ plane \in {"primary", "overlay"} /\ current = "fb0"
  /\ cardOpen = FALSE /\ crtcSaved = FALSE /\ hasOverlay = FALSE /\ savedAlpha = {}
  /\ allocated = {} /\ framed = {} /\ mapped = {}
  /\ frame = "fb0" /\ contentRect = NoRect
  /\ windowOpen = TRUE /\ stdinRaw = FALSE /\ flagsSaved = FALSE
  /\ master = FALSE
  /\ before \in {Theirs, Nothing} /\ crtcFb = before
  /\ overlayFb \in {Theirs, Nothing}
  /\ ourAlpha = {} /\ terminal = {}
  /\ painted = [b \in FrameBuffers |-> {}] /\ picture = [b \in FrameBuffers |-> 0]
  /\ shown = 0 /\ lost = {}

-------------------------------------------------------------------------------
(* The constructor.  A call that throws leads to teardown. *)

Throw == pc' = "overlayOff"

\* open_card up to the client capability; without a card there is nothing to undo.
CardFound ==
  /\ pc = "card"
  /\ cardOpen' = TRUE
  /\ \E saved \in BOOLEAN :
       /\ crtcSaved' = saved
       /\ lost' = IF saved THEN lost ELSE lost \cup {"crtc"}
  /\ pc' = "master"
  /\ UNCHANGED <<plane, hasOverlay, savedAlpha, current, device, memory, pictures, console>>

NoCard ==
  /\ pc = "card"
  /\ pc' = "terminalBack"
  /\ UNCHANGED <<current, cardOpen, lost, device, memory, pictures, console, found>>

BecomeMaster ==
  /\ pc = "master"
  /\ master' = TRUE
  /\ pc' = "planes"
  /\ UNCHANGED <<current, cardOpen, lost, before, crtcFb, overlayFb, ourAlpha, memory, pictures,
                 console, found>>

\* No universal planes, or the X server is the master.
MasterRefused ==
  /\ pc = "master"
  /\ Throw
  /\ UNCHANGED <<current, cardOpen, lost, device, memory, pictures, console, found>>

\* The overlay plane is remembered also when it is the primary one that is missing.
SelectPlanes ==
  /\ pc = "planes"
  /\ hasOverlay' \in BOOLEAN
  /\ \/ pc' = "create" /\ (plane = "overlay" => hasOverlay')
     \/ Throw
  /\ UNCHANGED <<plane, crtcSaved, savedAlpha, current, cardOpen, lost, device, memory, pictures,
                 console>>

\* create_dumb: a handle, then a framebuffer, then a mapping.
CreateDumb ==
  /\ pc = "create"
  /\ allocated' = allocated \cup {current}
  /\ pc' = "addFb"
  /\ UNCHANGED <<current, cardOpen, lost, device, framed, mapped, pictures, console, found>>

AddFb ==
  /\ pc = "addFb"
  /\ framed' = framed \cup {current}
  /\ pc' = "map"
  /\ UNCHANGED <<current, cardOpen, lost, device, allocated, mapped, pictures, console, found>>

\* The buffer is mapped and cleared; what is next depends on the buffer.
MapDumb ==
  /\ pc = "map"
  /\ mapped' = mapped \cup {current}
  /\ \/ current = "fb0" /\ current' = "fb1" /\ pc' = "create"
     \/ current = "fb1" /\ current' = "graphics" /\ pc' = "saveBlending"
     \/ current = "graphics" /\ pc' = "setCrtc" /\ UNCHANGED current
  /\ UNCHANGED <<cardOpen, lost, device, allocated, framed, pictures, console, found>>

CreateFails ==
  /\ pc \in {"create", "addFb", "map"}
  /\ Throw
  /\ UNCHANGED <<current, cardOpen, lost, device, memory, pictures, console, found>>

SaveBlending ==
  /\ pc = "saveBlending"
  /\ savedAlpha' \in SUBSET {"g_alpha_en", "alpha"}
  /\ pc' = IF plane = "overlay" THEN "create" ELSE "setCrtc"
  /\ UNCHANGED <<plane, crtcSaved, hasOverlay, current, cardOpen, lost, device, memory, pictures,
                 console>>

SetCrtc ==
  /\ pc = "setCrtc"
  /\ crtcFb' = IF plane = "overlay" THEN "graphics" ELSE "fb0"
  /\ pc' = "g_alpha_en"
  /\ UNCHANGED <<current, cardOpen, lost, master, before, overlayFb, ourAlpha, memory, pictures,
                 console, found>>

\* apply_blending: first g_alpha_en, then alpha, each if the plane has it.
ApplyBlending ==
  /\ pc \in {"g_alpha_en", "alpha"}
  /\ ourAlpha' = ourAlpha \cup ({pc} \cap savedAlpha)
  /\ pc' = IF pc = "g_alpha_en" THEN "alpha" ELSE "present"
  /\ UNCHANGED <<current, cardOpen, lost, master, before, crtcFb, overlayFb, memory, pictures,
                 console, found>>

DeviceRefuses ==
  /\ pc = "setCrtc" \/ pc \in savedAlpha
  /\ Throw
  /\ UNCHANGED <<current, cardOpen, lost, device, memory, pictures, console, found>>

\* MUTANT of UsePlane: drawing starts with the buffer that was bound.
UsePlaneFromFirst ==
  /\ pc = "present"
  /\ IF plane = "primary"
     THEN overlayFb' \in {overlayFb} \cup (IF hasOverlay THEN {Nothing} ELSE {})
     ELSE UNCHANGED overlayFb
  /\ pc' = "terminal"
  /\ UNCHANGED <<current, cardOpen, lost, master, before, crtcFb, ourAlpha, memory, frame,
                 contentRect, painted, picture, shown, console, found>>

\* On the primary plane the first buffer is bound already, so drawing starts with
\* the second, and the overlay, if there is one, is switched off or refuses.
UsePlane ==
  /\ pc = "present"
  /\ IF plane = "primary"
     THEN /\ frame' = "fb1"
          /\ overlayFb' \in {overlayFb} \cup (IF hasOverlay THEN {Nothing} ELSE {})
     ELSE UNCHANGED <<frame, overlayFb>>
  /\ pc' = "terminal"
  /\ UNCHANGED <<current, cardOpen, lost, master, before, crtcFb, ourAlpha, memory, contentRect,
                 painted, picture, shown, console, found>>

\* setup_terminal throws nothing.  A terminal may refuse raw mode.
SetupTerminal ==
  /\ pc = "terminal"
  /\ stdinRaw' \in BOOLEAN /\ flagsSaved' \in BOOLEAN
  /\ stdinRaw' => flagsSaved'
  /\ terminal' = (IF stdinRaw' THEN {"raw"} ELSE {}) \cup (IF flagsSaved' THEN {"nonblock"} ELSE {})
  /\ pc' = "ready"
  /\ UNCHANGED <<current, cardOpen, lost, device, memory, pictures, windowOpen, found>>

Construct ==
  \/ CardFound \/ NoCard \/ BecomeMaster \/ MasterRefused \/ SelectPlanes
  \/ CreateDumb \/ AddFb \/ MapDumb \/ CreateFails
  \/ SaveBlending \/ SetCrtc \/ ApplyBlending \/ DeviceRefuses \/ UsePlane \/ SetupTerminal

-------------------------------------------------------------------------------
(* show and poll *)

\* MUTANT of Draw: a new place clears only the buffer that is drawn.
DrawClearsOne(rect) ==
  /\ pc = "ready" /\ windowOpen /\ shown < MaxShow
  /\ painted' = [painted EXCEPT ![frame] = IF rect = contentRect THEN @ \cup {rect} ELSE {rect}]
  /\ contentRect' = rect
  /\ picture' = [picture EXCEPT ![frame] = shown + 1]
  /\ shown' = shown + 1
  /\ pc' = "flip"
  /\ UNCHANGED <<current, cardOpen, lost, device, memory, frame, console, found>>

\* show up to compose_kms_frame; a picture in a new place clears both buffers.
Draw(rect) ==
  /\ pc = "ready" /\ windowOpen /\ shown < MaxShow
  /\ painted' = [b \in FrameBuffers |->
       (IF rect = contentRect THEN painted[b] ELSE {}) \cup (IF b = frame THEN {rect} ELSE {})]
  /\ contentRect' = rect
  /\ picture' = [picture EXCEPT ![frame] = shown + 1]
  /\ shown' = shown + 1
  /\ pc' = "flip"
  /\ UNCHANGED <<current, cardOpen, lost, device, memory, frame, console, found>>

\* poll_keys; without raw mode no key is read.
ReadKeys == windowOpen' \in {windowOpen} \cup (IF stdinRaw THEN {FALSE} ELSE {})

Other(b) == IF b = "fb0" THEN "fb1" ELSE "fb0"

Flip ==
  /\ pc = "flip"
  /\ IF plane = "overlay" THEN overlayFb' = frame /\ UNCHANGED crtcFb
                          ELSE crtcFb' = frame /\ UNCHANGED overlayFb
  /\ frame' = Other(frame)
  /\ ReadKeys
  /\ pc' = "ready"
  /\ UNCHANGED <<current, cardOpen, lost, master, before, ourAlpha, memory, contentRect, painted,
                 picture, shown, stdinRaw, flagsSaved, terminal, found>>

\* show throws and the object stays as it is.
FlipFails ==
  /\ pc = "flip"
  /\ pc' = "ready"
  /\ UNCHANGED <<current, cardOpen, lost, device, memory, pictures, console, found>>

Poll ==
  /\ pc = "ready"
  /\ ReadKeys
  /\ UNCHANGED <<pc, current, cardOpen, lost, device, memory, pictures, stdinRaw, flagsSaved,
                 terminal, found>>

Destroy ==
  /\ pc = "ready"
  /\ pc' = "overlayOff"
  /\ UNCHANGED <<current, cardOpen, lost, device, memory, pictures, console, found>>

Use == (\E rect \in Rects : Draw(rect)) \/ Flip \/ FlipFails \/ Poll \/ Destroy

-------------------------------------------------------------------------------
(* teardown: calls that fail are reported and passed over. *)

\* MUTANT of OverlayOff: the overlay stays on.
OverlayLeftOn ==
  /\ pc = "overlayOff"
  /\ pc' = "restoreBlending"
  /\ UNCHANGED <<current, cardOpen, lost, device, memory, pictures, console, found>>

OverlayOff ==
  /\ pc = "overlayOff"
  /\ \/ hasOverlay /\ master /\ overlayFb' = Nothing /\ UNCHANGED lost
     \/ /\ lost' = IF hasOverlay THEN lost \cup {"overlay"} ELSE lost
        /\ UNCHANGED overlayFb
  /\ pc' = "restoreBlending"
  /\ UNCHANGED <<current, cardOpen, master, before, crtcFb, ourAlpha, memory, pictures, console,
                 found>>

RestoreBlending ==
  /\ pc = "restoreBlending"
  /\ \E refused \in SUBSET savedAlpha :
       /\ ourAlpha' = ourAlpha \ (savedAlpha \ refused)
       /\ lost' = lost \cup refused
  /\ savedAlpha' = {}
  /\ pc' = "restoreCrtc"
  /\ UNCHANGED <<plane, crtcSaved, hasOverlay, current, cardOpen, master, before, crtcFb, overlayFb,
                 memory, pictures, console>>

\* The CRTC is only set again if it was in use.
RestoreCrtc ==
  /\ pc = "restoreCrtc"
  /\ IF crtcSaved /\ before # Nothing
     THEN \/ master /\ crtcFb' = before /\ UNCHANGED lost
          \/ lost' = lost \cup {"crtc"} /\ UNCHANGED crtcFb
     ELSE UNCHANGED <<crtcFb, lost>>
  /\ crtcSaved' = FALSE
  /\ current' = "fb0"
  /\ pc' = "destroy"
  /\ UNCHANGED <<plane, hasOverlay, savedAlpha, cardOpen, master, before, overlayFb, ourAlpha,
                 memory, pictures, console>>

\* The kernel switches a plane off whose framebuffer is removed.
Without(fb, b) == IF fb = b THEN Nothing ELSE fb

\* The next buffer to be destroyed, or the card once all are.
DestroyNext ==
  \/ current = "fb0" /\ current' = "fb1" /\ UNCHANGED pc
  \/ current = "fb1" /\ current' = "graphics" /\ UNCHANGED pc
  \/ current = "graphics" /\ pc' = "close" /\ UNCHANGED current

\* MUTANT of DestroyDumb: a buffer without a mapping counts as never made.
DestroyMapped ==
  /\ pc = "destroy"
  /\ IF current \in mapped
     THEN /\ framed' = framed \ {current}
          /\ crtcFb' = Without(crtcFb, current) /\ overlayFb' = Without(overlayFb, current)
          /\ mapped' = mapped \ {current}
          /\ allocated' = allocated \ {current}
     ELSE UNCHANGED <<memory, crtcFb, overlayFb>>
  /\ DestroyNext
  /\ UNCHANGED <<cardOpen, lost, master, before, ourAlpha, pictures, console, found>>

\* destroy_dumb takes back each of the three that exists.
DestroyDumb ==
  /\ pc = "destroy"
  /\ framed' = framed \ {current}
  /\ crtcFb' = Without(crtcFb, current) /\ overlayFb' = Without(overlayFb, current)
  /\ mapped' = mapped \ {current}
  /\ allocated' = allocated \ {current}
  /\ DestroyNext
  /\ UNCHANGED <<cardOpen, lost, master, before, ourAlpha, pictures, console, found>>

CloseCard ==
  /\ pc = "close"
  /\ cardOpen' = FALSE /\ master' = FALSE
  /\ pc' = "terminalBack"
  /\ UNCHANGED <<current, lost, before, crtcFb, overlayFb, ourAlpha, memory, pictures, console,
                 found>>

RestoreTerminal ==
  /\ pc = "terminalBack"
  /\ terminal' = terminal \ ((IF stdinRaw THEN {"raw"} ELSE {})
                             \cup (IF flagsSaved THEN {"nonblock"} ELSE {}))
  /\ stdinRaw' = FALSE /\ flagsSaved' = FALSE
  /\ pc' = "closed"
  /\ UNCHANGED <<current, cardOpen, lost, device, memory, pictures, windowOpen, found>>

Teardown ==
  OverlayOff \/ RestoreBlending \/ RestoreCrtc \/ DestroyDumb \/ CloseCard \/ RestoreTerminal

-------------------------------------------------------------------------------
Next == Construct \/ Use \/ Teardown

Spec == Init /\ [][Next]_vars

-------------------------------------------------------------------------------
Places == {"card", "master", "planes", "create", "addFb", "map", "saveBlending", "setCrtc",
           "g_alpha_en", "alpha", "present", "terminal", "ready", "flip", "overlayOff",
           "restoreBlending", "restoreCrtc", "destroy", "close", "terminalBack", "closed"}

FlagsOK ==
  /\ cardOpen \in BOOLEAN /\ crtcSaved \in BOOLEAN /\ hasOverlay \in BOOLEAN
  /\ windowOpen \in BOOLEAN /\ stdinRaw \in BOOLEAN /\ flagsSaved \in BOOLEAN
  /\ master \in BOOLEAN

StateOK ==
  /\ pc \in Places /\ plane \in {"primary", "overlay"} /\ current \in Buffers
  /\ savedAlpha \subseteq {"g_alpha_en", "alpha"} /\ ourAlpha \subseteq {"g_alpha_en", "alpha"}
  /\ allocated \subseteq Buffers /\ framed \subseteq Buffers /\ mapped \subseteq Buffers
  /\ frame \in FrameBuffers /\ contentRect \in Rects \cup {NoRect}
  /\ before \in {Theirs, Nothing}
  /\ crtcFb \in Buffers \cup {Theirs, Nothing} /\ overlayFb \in FrameBuffers \cup {Theirs, Nothing}
  /\ terminal \subseteq {"raw", "nonblock"}
  /\ painted \in [FrameBuffers -> SUBSET Rects] /\ picture \in [FrameBuffers -> 0 .. MaxShow]
  /\ shown \in 0 .. MaxShow /\ lost \subseteq {"crtc", "overlay", "g_alpha_en", "alpha"}

TypeOK == FlagsOK /\ StateOK

\* From wherever the set-up had got to, a display that is closed has given back its
\* buffers, the mastership, the card and the terminal, and the console shows what it
\* showed before with the blending it had, but for what the device itself refused.
ConsoleRestored ==
  pc = "closed" =>
    /\ allocated = {} /\ framed = {} /\ mapped = {}
    /\ ~cardOpen /\ ~master
    /\ terminal = {}
    /\ "crtc" \in lost \/ crtcFb = before
    /\ ourAlpha \subseteq lost

OnScreen(b) == b \in {crtcFb, overlayFb}

\* A picture is never drawn into the buffer that is being scanned out, on either
\* plane and from the first picture on.
DrawsOffScreen ==
  [][\A b \in FrameBuffers : picture'[b] # picture[b] => ~OnScreen(b)]_vars

\* What is on the screen lies where the latest picture lies: a picture of another
\* size or place leaves nothing of older ones beside the new one, in either buffer.
NoStaleBorder ==
  \A b \in FrameBuffers : OnScreen(b) => painted[b] \subseteq {contentRect}

\* A framebuffer is removed under a running plane only where the device refused to
\* show something else, or nothing was shown before.
BuffersOutliveScanOut ==
  [][\A b \in framed \ framed' :
       /\ crtcFb = b => "crtc" \in lost \/ before = Nothing
       /\ overlayFb = b => "overlay" \in lost]_vars

\* What the controller scans out is neither drawn into nor removed under it.
ScanOutIsSafe == DrawsOffScreen /\ BuffersOutliveScanOut
===============================================================================
