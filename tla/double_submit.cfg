SPECIFICATION Spec
CONSTANTS
  f0 = f0
  f1 = f1
  f2 = f2
  f3 = f3
  f4 = f4
  Files = {f0, f2}
  SoundFiles = {f0, f2}
  BootableFiles = {f0, f2}
  ImageSize <- MCImageSize
  Factory = f0
  PageSize = 2
  SectorSize = 4
  RegionSize = 4
  Erased = Erased
  Torn = Torn
  Browsers = {b1, b2}
  NoFile = NoFile
  NoImage = NoImage
  MaxUpsets = 0
SYMMETRY BrowserSymmetry
INVARIANT UploadedIsApplicable
