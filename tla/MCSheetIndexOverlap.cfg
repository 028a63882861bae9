SPECIFICATION Spec
CONSTANTS
  k1 = k1  k2 = k2
  Clients = {c1, c2}
  Paths = {1}
  Keys = {k1}
  NoKey = NoKey
  None = None
PROPERTY ConflictNamesTwo
