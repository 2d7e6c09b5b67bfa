SPECIFICATION Runs
CONSTANTS Word = 8
          Capacity = 4
          Item = {a, b}
          Form = {"shared", "local"}
          NumClients = 1
          ClientCap = 2
          DriverCap = 2
          MaxLine = 1
          BeginLen = 0
          Numbers = 2
          Strict = FALSE
INVARIANTS RingTypeOK NoSlotRace NoPanic InOrder Flushed
PROPERTY ImplementsFifo
CHECK_DEADLOCK FALSE
