CONSTANTS
  NoThread = NoThread
  t1 = t1
  t2 = t2
  t3 = t3
  p1 = p1
  p2 = p2
  m1 = m1
  m2 = m2
  s1 = s1
  e1 = e1
  e2 = e2
  k1 = k1
  a1 = a1
  x1 = x1
  Threads = {t1, t2, t3}
  NumCores = 2
  Processes = {p1, p2}
  Mutexes = {m1}
  Semaphores = {}
  Events = {}
  Timers = {}
  Arbiters = {}
  Addresses = {}
  ThreadPrioLowest = 3
  BoostFloor = 1
  CoreOf <- T2OnCore1
  OwnerOf <- TwoProcesses
  MainThread <- MainT1T3
  InitialPriority <- Descending
  ResetType <- Nothing
  MaxCount <- Nothing
  InitialCount <- Nothing
  PriorityBoost = FALSE
  SetPriorities = {}
  ReleaseCounts = {}
  WaitLists <- MutexJoin
  SelfJoin = FALSE
  Timeouts = {"finite"}
  ArbitrateCounts = {}
  Terminable = {p1}
  TerminatesRunning = FALSE
  Pluggable = {}
  MaxLockCount = 2
SPECIFICATION Spec
INVARIANTS
  NoLostWakeup
  ListsAndLocks
PROPERTIES
  ImplementsLock
  DeadStayDead
CHECK_DEADLOCK FALSE
