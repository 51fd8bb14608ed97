CONSTANTS
  Procs = {p1, p2, p3}
  Root = p1
  Fdts = {t1, t2, t3, t4}
  Nodes = {n1, n2, n3}
  CloExec = {n1}
  Null = null
  MaxSize = 3
SPECIFICATION SpecDup2
INVARIANTS
  SlotExistsAfterDup2
