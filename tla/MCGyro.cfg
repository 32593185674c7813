\* A still or turning head, failing transfers and rates of mixed samples.
CONSTANTS
  Sample <- AllSamples
  Samples = 3
SPECIFICATION FairSpec
INVARIANTS TypeOK NoGhostTurn
PROPERTIES Implements TurnIsSeen EachCounts
