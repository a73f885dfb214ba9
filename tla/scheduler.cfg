SPECIFICATION FairSpec
CONSTANTS
  Thread = {th1, th2}
  Task = {t1, t2}
  Delay = {0, 1}
  MaxId = 2
  MaxClock = 1
  NoTask = NoTask
INVARIANTS
  NeverEarly
  CancelledNeverRuns
  NoSilentDrop
  HeldIdIsExact
  OneLateStart
  SleepsNoLonger
PROPERTIES
  Drains
  ShutdownEndsWorker
  ImplementsService
CHECK_DEADLOCK FALSE
