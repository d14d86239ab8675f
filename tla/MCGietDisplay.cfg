CONSTANTS
  Task = {"main"}
  IocTask = "main"
  UserBuffer = {"tab"}
  KernelBuffer = {"fb"}
  FrameBuffer = "fb"
  NbBlocks = 2
  NImages = 2
  Block = {"a0", "a1", "b0", "b1"}
  Disk <- TwoImages
  Outcomes = {"SUCCESS"}
SPECIFICATION Spec
INVARIANTS
  BufferFree
