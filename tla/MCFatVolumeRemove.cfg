SPECIFICATION Spec
CONSTANTS Name = {config, f, g}
          Config = config
          Clusters = 4
          Slots = 3
          SectorLen = 1
          Letter = {"a", "b"}
          Interruptible = {"remove"}
INVARIANT Faithful
CHECK_DEADLOCK TRUE
