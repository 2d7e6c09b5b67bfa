SPECIFICATION Spec
INVARIANTS TypeOK RingsKept  Concludes
PROPERTIES OnlyAsked Served
CHECK_DEADLOCK FALSE
