\* The offset of one axis does not calibrate another.
CONSTANTS
  Sample <- StillSamples
  Samples = 1
SPECIFICATION Spec
INVARIANT StillReadsZero
