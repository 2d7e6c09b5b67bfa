SPECIFICATION Runs
CONSTANTS NumBufs = 2
          DriverCap = 2
          Kinds = {"frame", "empty"}
          MaxFrames = 3
INVARIANTS TypeCorrect Received BuffersOwned InOrder
PROPERTY KeepsEmptying
CHECK_DEADLOCK FALSE
