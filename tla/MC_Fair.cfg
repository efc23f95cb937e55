SPECIFICATION SteadySpec
CONSTANTS
  t1 = t1
  t2 = t2
  Idle = Idle
  Tasks <- TwoTasks
  Unborn = {}
  Preempted = {}
  MAX_RT_PRIO = 3
  MAX_PRIO = 5
  MAX_BRR_BUCKET = 2
  RT_RUNTIME = 1
  RT_PERIOD = 3
  DEF_TIMESLICE = 2
  Garbage <- NoGarbage
  UserPolicies <- StockPolicies
  UserBuckets <- OwnBuckets
  StaticPrios = {4}
  DEFAULT_PRIO = 4
  PiPrios = {}
  RT_TIME_CAP = 3
  OVERRUN_CAP = 1
PROPERTIES ThrottlingEnds FairClassRuns
