SPECIFICATION BusSpec
CONSTANTS
  RomBits = 5
  BusDevices <- MCDevices
  Ds18b20s <- Sensors
  Capacity = 3
  MaxChanges = 4
INVARIANTS SearchIsComplete FoundIsConnected
