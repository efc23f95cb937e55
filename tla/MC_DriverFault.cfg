SPECIFICATION Spec
CONSTANTS
  t1 = t1
  t2 = t2
  Idle = Idle
  Tasks <- TwoTasks
  Unborn = {}
  Preempted = {}
  MAX_RT_PRIO = 3
  MAX_PRIO = 5
  MAX_BRR_BUCKET = 2
  RT_RUNTIME = 1
  RT_PERIOD = 1
  DEF_TIMESLICE = 2
  Garbage <- NoGarbage
  UserPolicies <- BrrPolicies
  UserBuckets <- OwnBuckets
  StaticPrios = {4}
  DEFAULT_PRIO = 4
  PiPrios = {}
  RT_TIME_CAP = 1
  OVERRUN_CAP = 1
CHECK_DEADLOCK FALSE
INVARIANT NoFault
