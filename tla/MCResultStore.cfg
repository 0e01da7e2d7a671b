\* Offsets an extension gets to by reading on.
CONSTANTS
  Byte = {"a", "b"}
  Ref = {r1, r2}
  NoRef = NoRef
  Contents <- StoredContents
  Chunks <- AnsweredChunks
  Meta = {"json"}
  MaxResultBytes = 3
  MaxResultReadBytes = 2
  MaxResultPageItems = 1
  IntWidth = 4
  Offsets <- NearOffsets
SPECIFICATION Spec
INVARIANTS
  CompleteIsConsistent
  HonestIsAccepted
  DigestPinsContents
PROPERTIES
  ReadingEnds
