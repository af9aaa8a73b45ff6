SPECIFICATION Spec
CONSTANTS
  Room = 1
  MaxCount = 3
INVARIANTS RendererEndsFirst ExitIsHonest WindowAccounts
PROPERTY EndsWhenOver
