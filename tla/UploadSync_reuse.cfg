CONSTANTS
  Items = {i1, i2}
  Sweepers = {w1}
  MaxRow = 2
  MaxBlob = 2
  MaxObject = 2
  MaxFaults = 0
SPECIFICATION Spec
INVARIANT SyncedFromOwnFile
SYMMETRY Symmetry
\* blobs, objects and faults are bounded, so the instance runs dry
CHECK_DEADLOCK FALSE
