CONSTANTS
  Items = {i1}
  Sweepers = {w1, w2}
  MaxRow = 2
  MaxBlob = 3
  MaxObject = 4
  MaxFaults = 1
SPECIFICATION MCSpec
INVARIANTS Inductive ClaimExclusive UploadedOnce AcceptedFilesKept
  EveryChangeIsMarked CacheIsTransient
PROPERTIES KeepsFiles PendingIsSettled
\* blobs, objects and faults are bounded, so the instance runs dry
CHECK_DEADLOCK FALSE
