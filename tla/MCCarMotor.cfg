\* Every motor command and the commands that leave the lamp alone, in requests
\* of one or two parameters, on a road with an obstacle, with one just beyond
\* reach, or out of the sensor's range.
CONSTANTS
  Distance <- RoadDistances
  Commands <- RoadCommands
  MaxParams = 2
SPECIFICATION Spec
INVARIANTS TypeOK Armed WholeCall LampTells BeepsAtRest DutyInRange
PROPERTIES ClearReadingStarts MainNeverReverses DriveOK
