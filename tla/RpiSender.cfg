\* With and without a duration; every fault, and signals, at any moment.
SPECIFICATION Spec
INVARIANTS
  NothingLeftBehind
  ExitIsHonest
  OnlyVideoFaultsEndCapture
PROPERTIES
  EndsWhenAsked
