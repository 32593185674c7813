\* On a road too long for the sensor an armed car halts.
CONSTANTS
  Distance <- RoadDistances
  Commands <- ForwardAndStop
  MaxParams = 1
SPECIFICATION FairSpec
PROPERTY KeepsMoving
