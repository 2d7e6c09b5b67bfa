CONSTANTS
  NumBufs = 2
  NumClientBufs = 2
  Posted = 2
  Kinds = {"client", "runt", "unfit"}
  MaxFrames = 3
  MaxErrors = 1
SPECIFICATION Spec
INVARIANTS TypeOK BuffersOwned InOrder
PROPERTY Drains
CHECK_DEADLOCK FALSE
