CONSTANTS
  Task = {"load", "transpose", "display"}
  IocTask = "load"
  UserBuffer = {"buf_in", "buf_out"}
  KernelBuffer = {"fb"}
  FrameBuffer = "fb"
  NbBlocks = 2
  NSide = 2
  NImages = 3
  BlankPixel <- Black
  Block <- Lines
  Disk <- Images
  Outcomes = {"SUCCESS", "ERROR"}
SPECIFICATION Spec
INVARIANTS
  TypeOK
  BuffersHeld
  FramesInOrder
PROPERTIES
  AllDisplayed
