CONSTANTS
  Uploads = {u1, u2}
  Files <- BoundaryFiles
  ChunkSize = 2
  MaxSize = 5
  NoUpload = NoUpload
SPECIFICATION MCSpec
INVARIANTS TypeOK HandedOverIsWhole HandedPartsAreWhole AnswersAreTrue
PROPERTIES OpenPartsStay SweptInTheEnd EveryUploadEnds
CHECK_DEADLOCK FALSE
