CONSTANTS
  Uploads = {u1}
  Files <- LongerFile
  ChunkSize = 2
  MaxSize = 5
  NoUpload = NoUpload
SPECIFICATION Spec
INVARIANT AnyHandedOverIsWhole
CHECK_DEADLOCK FALSE
