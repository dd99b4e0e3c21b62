CONSTANTS
  NoProcess = NoProcess
  NoBlock = NoBlock
  NoThread = NoThread
  p1 = p1
  p2 = p2
  t1 = t1
  t2 = t2
  s1 = s1
  s2 = s2
  Processes = {p1, p2}
  Threads = {t1, t2}
  Blocks = {s1, s2}
  HEAP_PAGES = 2
  APPLICATION_PAGES = 3
  BASE_PAGES = 2
  MAX_ADDRESS = 11
  TLS_ENTRIES = 1
  MaxSize = 2
  MaxBlocks = 2
  Permissions = {"Read", "ReadWrite"}
  Misuse = {}
SPECIFICATION Spec
SYMMETRY Symmetry
INVARIANTS
  TypeOK
  AreasTile
  Accounting
PROPERTIES
  ImplementsPageMap
