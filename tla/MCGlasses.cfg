\* A modem that fails in every way, and may calm down.
CONSTANTS
  Commands <- TwoCommands
  Retries = 1
  RxLimit = 2
  Backlog = 2
SPECIFICATION FairSpec
INVARIANTS TypeOK OwnTurn
PROPERTIES StaysInStep Resync KeepsGoing Posts
CHECK_DEADLOCK FALSE
