CONSTANTS
  Radix = 16
  WordBytes = 2
  MemWords = 5
  ByteXor <- MCXor
  Binaries <- MCBinaries
  ChunkSize = 2
  MaxLost = 1
  Backlog = 2
SPECIFICATION Spec
INVARIANT TypeOK
PROPERTIES OkMeansLoaded RejectsOnlyLosses NeverHangs
