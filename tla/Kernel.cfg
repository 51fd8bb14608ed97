CONSTANTS
  Frames = 11
  WordBits = 3
  FrameWords = 2
  BitmapFrame = 1
  MaxRun = 3
  Unset = 99
  Header = 2
  Pointer = 1
  Page = 8
  InitialSize = 16
  HeapEnd = 32
  Sizes = {1, 9}
  Alignments = {4}
  MemProcs = {1, 2}
  MemFirst = 1
  NFrames = 4
  MmapStart = 1
  Top = 4
  ShmNodes = {11}
  MaxShm = 1
  MaxBlocks = 2
  Lens = {1}
  FixedAt = {}
  Uses = {{"anon", "shm"}, {"anon", "file"}}
  Modules = {"ata", "dospart", "ext2"}
  Scripts <- ScriptNames
  ModKinds = {"ok", "bad", "gone"}
  Daemons = {d1, d2}
  Paths = {f1, f2, ld}
  Ld = ld
  Args = {1, 2}
  MaxArgs = 1
  MaxDepth = 4
SPECIFICATION Spec
INVARIANTS
  OwnedOnce
  PanicIsJustified
  MemoryIsOwned
  StartsAreRight
PROPERTIES
  GrantsAreFresh
CHECK_DEADLOCK FALSE
