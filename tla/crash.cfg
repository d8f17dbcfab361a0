SPECIFICATION Spec
CONSTANTS
  f0 = f0
  f1 = f1
  f2 = f2
  f3 = f3
  f4 = f4
  Files = {f0, f1, f2, f3, f4}
  SoundFiles = {f0, f1, f2, f3}
  BootableFiles = {f0, f1, f3, f4}
  ImageSize <- MCImageSize
  Factory = f0
  PageSize = 2
  SectorSize = 4
  RegionSize = 8
  Erased = Erased
  Torn = Torn
  Browsers = {b1}
  NoFile = NoFile
  NoImage = NoImage
  MaxUpsets = 2
INVARIANTS WritesInPlace StartsIntactImage Recoverable ProgramsErasedFlash UploadedIsApplicable
PROPERTIES InstallSpec PendingIsInstalled
