CONSTANTS
  None = None
  Sleepers = {sleeper1, sleeper2, sleeper3}
  SleepNodes = {n1, n2, n3}
  MaxTime = 2
  Delays = {1, 2, 3}
  Calls = {read, write}
  Signals = {1, 2, 3}
  MaxDepth = 3
  MaxKills = 2
  FdProcs = {p1, p2, p3}
  Root = p1
  Fdts = {t1, t2, t3, t4}
  FdNodes = {node1, node2}
  CloExec = {node1}
  MaxTable = 2
  Vts = {0, 1}
  FKeys = {0, 1, 2}
  VtProcs = {p1, p2}
  MaxOut = 1
  Clients = {c1, c2}
  Acceptors = {a1, a2}
  MaxAccepted = 2
  MaxBacklog = 3
  Writers = {w1, w2}
  Reader = r1
  InitSize = 2
  MaxSize = 4
  MaxLen = 3
  MaxSent = 5
  Mods = {m1, m2}
  MaxHeaders = 2
  Main = prog
  Libs = {la, lb}
  MaxNeeds = 2
  Lines <- ScriptLines
  MaxLines = 3
  Children = {child1, child2}
  MaxKeys = 3
  Windows = {window1, window2}
  Screen <- SmallScreen
  Opened <- SmallWindow
  Least = 2
  MaxEvents = 7
  Sizes = {1, 2, 3}
  First = 1
  MaxWin = 2
  MaxResize = 2
  MaxOther = 2
SPECIFICATION Spec
INVARIANTS
  SleepersAreQueued
  RestartsAreHidden
  LinksAreExact
  SocketsDeliver
  LinkingIsConsistent
  ShellIsInControl
  SessionIsSound
PROPERTIES
  ScreenIsOwned
  DragIsTracked
CONSTRAINT Small
SYMMETRY Symmetry
CHECK_DEADLOCK FALSE
