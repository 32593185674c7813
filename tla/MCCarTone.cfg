\* An interrupt inside the update of the level leaves the tone on.
CONSTANTS
  Distance <- BoundaryDistances
  Commands <- ForwardAndStop
  MaxParams = 1
SPECIFICATION Spec
INVARIANT OffAfterSound
