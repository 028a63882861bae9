SPECIFICATION Spec
CONSTANTS
  t1 = t1  t2 = t2
  main = main
  p1 = p1  p2 = p2
  Threads = {t1, t2}
  Procs = {p1, p2}
  ProcOf <- TwoProcesses
  Branches = {main}
  Paths = {k}
  Values = {v}
  Options <- AllKinds
  Absent = Absent
  NoRef = NoRef
  Git = Git
  ForceUnborn = FALSE
  MaxCommits = 2
INVARIANTS TypeOK NoOrphanedSlot AckedCommitStays
PROPERTIES HistoryOnlyGrows ImplementsStore
CHECK_DEADLOCK FALSE
