CONSTANTS
  NoThread = NoThread
  t1 = t1
  t2 = t2
  t3 = t3
  p1 = p1
  p2 = p2
  m1 = m1
  m2 = m2
  s1 = s1
  e1 = e1
  e2 = e2
  k1 = k1
  a1 = a1
  x1 = x1
  Threads = {t1, t2, t3}
  NumCores = 2
  Processes = {p1}
  Mutexes = {}
  Semaphores = {}
  Events = {}
  Timers = {k1}
  Arbiters = {}
  Addresses = {}
  ThreadPrioLowest = 3
  BoostFloor = 1
  CoreOf <- T3OnCore1
  OwnerOf <- OneProcess
  MainThread <- MainT1
  InitialPriority <- Descending
  ResetType <- Pulse
  MaxCount <- Nothing
  InitialCount <- Nothing
  PriorityBoost = TRUE
  SetPriorities = {}
  ReleaseCounts = {}
  WaitLists <- Singles
  SelfJoin = FALSE
  Timeouts = {"finite"}
  ArbitrateCounts = {}
  Terminable = {}
  TerminatesRunning = FALSE
  Pluggable = {t2}
  MaxLockCount = 2
SPECIFICATION Spec
INVARIANTS
  DispatchesBest
  OnlyRunningThreadsExecute
PROPERTIES
  PromptPreemption
