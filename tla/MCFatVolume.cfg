SPECIFICATION Runs
CONSTANTS Name = {config, f, g}
          Config = config
          Clusters = 4
          Slots = 3
          SectorLen = 1
          Letter = {"a"}
          Interruptible = {}
SYMMETRY Names
INVARIANTS TypeCorrect AlwaysFaithful ClustersOwned OpenFollows
CHECK_DEADLOCK TRUE
