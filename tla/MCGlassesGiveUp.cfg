\* The last retry succeeds and the program gives up.
CONSTANTS
  Commands <- OneCommand
  Retries = 3
  RxLimit = 2
  Backlog = 2
SPECIFICATION Spec
INVARIANT GivesUpOnlyUnconnected
CHECK_DEADLOCK FALSE
