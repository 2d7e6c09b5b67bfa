SPECIFICATION Runs
CONSTANTS Capacity = 1
          MaxTransfers = 2
          MaxCommands = 3
          Errors = TRUE
          NoteSlots = 2
          Ids = 2
          Width = 2
          Height = 1
          Page = {1}
          MaxResources = 1
          DmaCells = 2
          RegionCells = 1
          Lone <- MCLone
INVARIANTS TypeCorrect OneExchange FrameShown Settled
PROPERTY Answered
CHECK_DEADLOCK FALSE
