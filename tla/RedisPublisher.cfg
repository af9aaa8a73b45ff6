\* Two addresses, two sockets, two commands in two pieces each, a peer that answers
\* late or never, closes, or sends junk, more of it than the limit allows.  A reply
\* just fits the limit.
SPECIFICATION Spec
CONSTANTS
  Candidates = 2
  CommandLength = 2
  ReplyLimit = 2
  RecvMax = 2
  MaxCalls = 2
  MaxSockets = 2
  MaxJunk = 3
INVARIANTS
  StreamsInStep
  AckedRunsOnceInOrder
  NothingPilesUp
PROPERTIES
  CallsReturn
