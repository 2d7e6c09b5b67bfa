CONSTANTS
  Word = 4
  Capacity = 2
  Item = {0, 1}
  Form = {"shared"}
SPECIFICATION FreeSpec
INVARIANT ProducerOwnsTail
CHECK_DEADLOCK FALSE
