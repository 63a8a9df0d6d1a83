CONSTANTS
  t1 = t1
  t2 = t2
  Task <- MCTask
  Start <- MCStart
  NoTask = NoTask
  Duration = 1
  TimeOut = 1
  Cap = 2
  MaxTime = 4
  MaxChunks = 1
SPECIFICATION Spec
INVARIANT CompletedIsRemovable
