SPECIFICATION FairSpec
CONSTANTS
  g1 = g1
  g2 = g2
  Game = {g1, g2}
  Task = {t1, t2}
  MaxId = 2
  MaxStart <- StartsOf
  NoGame = NoGame
  LuaInit = LuaInit
  NoTask = NoTask
INVARIANTS
  QuietStaysQuiet
  StopSilences
  EventsTracked
PROPERTIES
  FiredIsCalled
  StartCompletes
CHECK_DEADLOCK FALSE
