CONSTANTS
  NullObject = NullObject
  p1 = p1
  p2 = p2
  o1 = o1
  o2 = o2
  Processes = {p1, p2}
  KernelObjects = {o1, o2}
  MAX_COUNT = 2
  GENERATION_LIMIT = 3
  MaxHandles = 2
SPECIFICATION Spec
SYMMETRY Symmetry
INVARIANTS
  TablesSound
  NothingLostInTransfer
PROPERTIES
  HandlesStable
