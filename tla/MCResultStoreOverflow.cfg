\* Any offset the validation lets through.
CONSTANTS
  Byte = {"a", "b"}
  Ref = {r1}
  NoRef = NoRef
  Contents <- StoredContents
  Chunks <- AnsweredChunks
  Meta = {"json", "text"}
  MaxResultBytes = 3
  MaxResultReadBytes = 2
  MaxResultPageItems = 1
  IntWidth = 4
  Offsets <- AllOffsets
SPECIFICATION Spec
INVARIANTS
  ChunkWithinResult
