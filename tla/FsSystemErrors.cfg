SPECIFICATION FairSpec
CONSTANTS Capacity = 1
          MaxTransfers = 1
          MaxCommands = 2
          Errors = TRUE
PROPERTY ExchangeReturns
CHECK_DEADLOCK FALSE
