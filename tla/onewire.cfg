SPECIFICATION Spec
CONSTANTS
  SlotCount = 2
  BusCount = 2
  DeviceLimit = 1
  DeviceTableSize = 2
  Roms = {r1, r2}
  Nothing = Nothing
INVARIANTS OneRequestAtATime AnswersTheRequest
PROPERTIES KeepsPresentSensors CycleEnds DisabledGoesAbsent
