CONSTANTS
  c1 = c1
  c2 = c2
  Nevent = 2
  PointerProc = {c1, c2}
  MouseKey = {"right", "control"}
  MaxPut = 4
  WmEvent = 2
  WmLength = {0, 1}
  WmChan = {c1, c2}
  MaxTrack = 2
  MaxWmRef = 2
  ConsProc = {c1, c2}
  LineSize = 2
  KbdqSize = 1
  ReadSize = 1
  MaxTyped = 3
  KeyProc = {c1, c2}
  MaxKeys = 3
  SnarfChan = {c1, c2}
  Letter = {"a"}
  SnarfSize = 3
  MaxTexts = 2
  KprintProc = {c1, c2}
  KprintSize = 1
  Width = {9, 16}
  HostWidth = {14, 40}
  Option = {"unset", "grey4", "xrgb32"}
  MaxAttach = 3
  Region = {1, 2}
  MaxCursor = 2
  AudioProc = {c1, c2}
  Setting = {1}
  MaxFd = 2
  MaxBytes = 2
  ArchProc = {c1, c2}
  ArchChan = {c1, c2}
  Cpus = 1
  ApmProc = {c1, c2}
  ApmUser = {c1, c2}
  Buttons = buttons
  Spot = {1}
  MaxPackets = 3
  VmThread = {c1, c2}
  VmBits = 3
  VmUnit = 2
  Vxprocs = 2
  Category = {drama}
  Letters = 3
  MaxRecords = 2
  Station = {c1, c2}
  Hours = 1
  Minute = {0, 20, 50}
  MaxFeed = 3
SPECIFICATION Spec
INVARIANTS
  MouseDelivered
  WmSizeTracked
  ConsFiles
  KeysDelivered
  ScreenShown
  AudioShared
  ArchClean
  HandheldServes
  VxrunServes
  IndexesFind
CHECK_DEADLOCK FALSE
SYMMETRY Symmetric
