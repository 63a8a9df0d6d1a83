CONSTANTS
  cpu1 = cpu1  cpu2 = cpu2  block1 = block1  block2 = block2
  mutex1 = mutex1  heap1 = heap1  none1 = none1
  w1 = w1  m1 = m1  m2 = m2  k1 = k1  k2 = k2
  NoTask = NoTask
  Task <- MCTask
  Event <- MCEvent
  CreateTime <- MCCreate
  TaskDuration <- MCDur
  DumpPeriod <- MCPeriod
  MaxMinutes = 15
  SendCap = 1
  Watcher = {w1}
  Rate = {0, 9, 290, 1000}
  DefaultRate = 500
  RoundedDown = {290}
  Absent = Absent
  Bad = Bad
  NoConfig = NoConfig
  Meter = {m1, m2}
  Caller = {k1, k2}
  MaxInc <- MCInc
  Topic = {"meters"}
  QueueSize = 2
  MaxOffered = 3
SPECIFICATION PartsSpec
INVARIANTS OneCpuTask RatesFollowTasks OneResult AckedIsApplied CountsAreExact KafkaAccounted
PROPERTIES AcceptedIsSettled ConfigConverges RegisteredIsShown KafkaLoopsLive
CHECK_DEADLOCK FALSE
