SPECIFICATION Spec
CONSTANTS
  short = short
  long = long
  broken = broken
  m1 = m1
  m2 = m2
  m3 = m3
  d1 = d1
  d2 = d2
  NoWord = NoWord
  Words = {NoWord, short, long, broken}
  Length <- MCLength
  FirstLine <- MCFirstLine
  LineRoom = 16
  PasswordMin = 8
  DefaultSsid = short
  RetentionMin = 1
  RetentionMax = 2
  RetentionDefault = 2
  PollMin = 1
  PollMax = 2
  PollDefault = 2
  Macs = {m1, m2}
  BadMac = BadMac
  AllowedMax = 2
  Devices = {d1, d2}
  NamesMax = 1
  Forms <- MCForms
  Typed <- MCTyped
  Edits <- MCEdits
  MaxFaults = 1
  Missing = Missing
  Absent = Absent
INVARIANTS ListsAreSound SavedSurvivesReboot
PROPERTIES OnlyCutsLockOut Boots
