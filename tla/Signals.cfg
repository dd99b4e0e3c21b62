CONSTANTS
  NoThread = NoThread
  t1 = t1
  t2 = t2
  t3 = t3
  p1 = p1
  p2 = p2
  m1 = m1
  m2 = m2
  s1 = s1
  e1 = e1
  e2 = e2
  k1 = k1
  a1 = a1
  x1 = x1
  Threads = {t1, t2, t3}
  NumCores = 1
  Processes = {p1}
  Mutexes = {}
  Semaphores = {s1}
  Events = {e1}
  Timers = {}
  Arbiters = {a1}
  Addresses = {x1}
  ThreadPrioLowest = 3
  BoostFloor = 1
  CoreOf <- OneCore
  OwnerOf <- OneProcess
  MainThread <- MainT1
  InitialPriority <- Descending
  ResetType <- OneShot
  MaxCount <- OneSlot
  InitialCount <- OneSlot
  PriorityBoost = FALSE
  SetPriorities = {}
  ReleaseCounts = {0, 1}
  WaitLists <- SemaphoreEvent
  SelfJoin = FALSE
  Timeouts = {"zero", "finite"}
  ArbitrateCounts <- AllOrOne
  Terminable = {}
  TerminatesRunning = FALSE
  Pluggable = {}
  MaxLockCount = 2
SPECIFICATION Spec
INVARIANTS
  NoAssertionFails
  NoLostWakeup
  OutcomeTruthful
  NoStaleTimeout
  ArbiterListsMirror
