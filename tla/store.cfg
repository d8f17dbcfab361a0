SPECIFICATION Spec
CONSTANTS
  d1 = d1
  d2 = d2
  d3 = d3
  BleSeries <- MCBle
  OneWireSeries <- MCOneWire
  Settings <- MCSettings
  TableSize = 3
  ViewSize = 3
  Wrap = 3
  PayloadSize = 20
  LineLength <- MCLineLength
  RevisionInterval = 2
  RetentionMin = 0
  RetentionMax = 2
  CountMax = 3
  MaxNow = 4
  MaxSamples = 4
  MaxConfigures = 1
  Free = Free
INVARIANT PayloadIsComplete
PROPERTIES AveragesAreFresh ViewIsExact LosesOnlyForAReason
SYMMETRY Twins
