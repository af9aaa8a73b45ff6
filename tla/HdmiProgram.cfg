\* With and without camera and duration; every fault, the user and signals at any
\* moment.
SPECIFICATION ProgramSpec
INVARIANTS
  WorkerEndsFirst
  ExitIsHonest
PROPERTIES
  EndsWhenAsked
