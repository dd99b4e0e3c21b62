CHECK_DEADLOCK FALSE
CONSTANTS
  wake = wake
  a = a
  NumCores = 2
  EventTypes = {wake}
  UserData = {a}
  MAX_SLICE_LENGTH = 2
  MaxEvents = 2
  MIN_DELAY = 1
  Overshoot = 1
  Delays = {0, 2}
  MaxTime = 2
SPECIFICATION Spec
INVARIANTS
  TypeOK
  SlicesFit
PROPERTIES
  StepsOfTime
  ImplementsSchedule
