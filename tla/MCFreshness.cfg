SPECIFICATION Spec
CONSTANTS
  Sheets = {s1, s2}
  Ops = {o1, o2, o3}
  Readers = {r1}
  None = None
  OtherTree = OtherTree
  MaxHead = 3
SYMMETRY Interchangeable
INVARIANT TypeOK
PROPERTIES ReadsUseOneTree ReadYourWrites CommitsKeepSheetsFresh
CHECK_DEADLOCK FALSE
