SPECIFICATION LogSpec
CONSTANTS
  MaxSize = 3
  MaxLine = 2
  ReadChunk = 2
  MaxUnits = 8
  MaxLogFaults = 2
  NoFile = NoFile
INVARIANTS KeepsRecentLines StreamIsExact
