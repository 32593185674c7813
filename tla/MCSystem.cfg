\* Readings of the eye on both sides of the threshold, one command on its way.
CONSTANTS
  Reading <- EdgeReadings
  Unposted = 1
SPECIFICATION FairSpec
INVARIANTS TypeOK AsTold
PROPERTIES Alternates EyeStops RoundTrips Leaves
