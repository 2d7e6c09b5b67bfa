SPECIFICATION Runs
CONSTANTS MaxCothreads = 5
          Semaphore = {s1, s2}
INVARIANTS TypeCorrect Queues WaiterChains
PROPERTY RunsAndReturns
CHECK_DEADLOCK FALSE
