SPECIFICATION Spec
INVARIANTS TypeOK NothingLeftOpen ReportsTruly Answers Builds
PROPERTY ComesBack
CHECK_DEADLOCK FALSE
