CONSTANTS
  NoProcess = NoProcess
  NoBlock = NoBlock
  NoThread = NoThread
  p1 = p1
  p2 = p2
  t1 = t1
  t2 = t2
  s1 = s1
  s2 = s2
  Processes = {p1}
  Threads = {t1}
  Blocks = {s1}
  HEAP_PAGES = 3
  APPLICATION_PAGES = 4
  BASE_PAGES = 2
  MAX_ADDRESS = 13
  TLS_ENTRIES = 1
  MaxSize = 2
  MaxBlocks = 1
  Permissions = {"Read", "ReadWrite"}
  Misuse = {}
SPECIFICATION Spec
INVARIANTS
  MergeableAreMerged
