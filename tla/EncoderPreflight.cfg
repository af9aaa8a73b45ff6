\* Hardware first, then software; the child writes more than the pipe or the tail
\* holds.
SPECIFICATION PreflightSpec
CONSTANTS
  Option = "auto"
  PipeRoom = 2
  TailRoom = 2
  MaxOutput = 4
INVARIANTS
  OutcomeIsDeserved
PROPERTIES
  ChildIsOwned
  SelectReturns
CHECK_DEADLOCK FALSE
