SPECIFICATION Spec
CONSTANTS
  short = short
  long = long
  broken = broken
  m1 = m1
  m2 = m2
  m3 = m3
  d1 = d1
  d2 = d2
  NoWord = NoWord
  Words = {NoWord, short, long, broken}
  Length <- MCLength
  FirstLine <- MCUnbroken
  LineRoom = 16
  PasswordMin = 8
  DefaultSsid = short
  RetentionMin = 1
  RetentionMax = 3
  RetentionDefault = 3
  PollMin = 1
  PollMax = 3
  PollDefault = 1
  Macs = {m1, m2, m3}
  BadMac = BadMac
  AllowedMax = 1
  Devices = {d1, d2}
  NamesMax = 1
  Forms <- MCForms
  Typed <- MCTyped
  Edits <- MCEdits
  MaxFaults = 0
  Missing = Missing
  Absent = Absent
INVARIANT InForceIsStored
