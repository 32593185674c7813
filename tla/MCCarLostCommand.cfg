\* A command served while the loop halts the car is lost.
CONSTANTS
  Distance <- BoundaryDistances
  Commands <- ForwardAndStop
  MaxParams = 1
SPECIFICATION FairSpec
PROPERTY ObstacleStops
