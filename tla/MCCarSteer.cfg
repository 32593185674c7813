\* The motor commands, the lamp and the buzzer under the fairness of the
\* scheduler, on a road with an obstacle, with one just beyond reach, or out of
\* the sensor's range.
CONSTANTS
  Distance <- RoadDistances
  Commands <- SteerCommands
  MaxParams = 1
SPECIFICATION FairSpec
INVARIANTS SteersAsFlagged
PROPERTIES ObstacleHalts Heals
