\* Two renderer threads and a polling thread share the hand-off and two
\* threads stop it: more sharing than any of the programs has.
SPECIFICATION Spec
CONSTANTS
  Waiters = {w1, w2}
  Pollers = {p1}
  Stoppers = {s1, s2}
  MaxFrame = 4
INVARIANTS
  FramesAccountedFor
  NoLostWakeup
PROPERTIES
  StopReleasesWaiters
  ImplementsFairLatestFrame
CHECK_DEADLOCK FALSE
