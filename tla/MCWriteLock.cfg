SPECIFICATION FairSpec
CONSTANTS
  a = a  b = b
  dirA = dirA  dirB = dirB
  Calls = {c1, c2, c3, c4}
  Repos = {a}
  Dirs = {dirA}
  DirOf <- Directories
  Root = Root
  None = None
INVARIANTS TypeOK OneHolder NoLostWakeup SlotIsFree NoSelfDeadlock
PROPERTIES FirstComeFirstServed Served
CHECK_DEADLOCK FALSE
