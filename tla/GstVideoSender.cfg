\* One restart, three frames, acquisition times in any order, an encoder that may
\* hang for ever.
SPECIFICATION Spec
CONSTANTS
  MaxFrame = 3
  MaxPipeline = 2
  MaxTime = 2
  MaxBase = 1
INVARIANTS
  PipelinesAccountedFor
PROPERTIES
  TimeStampsAreSound
  EncoderLag
  StopReleasesPush
CHECK_DEADLOCK FALSE
