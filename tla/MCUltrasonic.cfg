\* The sensor's times in units of 7 ms, rounded up: limit 20 ms, 400 cm 23 ms,
\* pause 50 ms or more.  Near would be 1 (0.1 ms); it is 2, so that there is an
\* echo shorter than the nearest valid one.
CONSTANTS
  Limit = 3
  Near  = 2
  Far   = 4
  Delay = 1
  Echo  <- EdgeEchoes
  Pause = 7
SPECIFICATION FairSpec
INVARIANTS TypeOK StartsQuiet Bounded
PROPERTIES Exact Returns
