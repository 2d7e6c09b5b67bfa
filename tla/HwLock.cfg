SPECIFICATION Spec
CONSTANTS
    Procs = {p1, p2}
    MaxInodes = 3
    MaxDeaths = 1
INVARIANT OneHolder
CHECK_DEADLOCK FALSE
