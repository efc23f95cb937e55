SPECIFICATION Spec
CONSTANTS
  t1 = t1
  t2 = t2
  Idle = Idle
  Tasks <- TwoTasks
  Unborn <- OneUnborn
  Preempted <- OneCaller
  MAX_RT_PRIO = 3
  MAX_PRIO = 5
  MAX_BRR_BUCKET = 2
  RT_RUNTIME = 2
  RT_PERIOD = 2
  DEF_TIMESLICE = 2
  Garbage <- NoGarbage
  UserPolicies <- FifoPolicies
  UserBuckets <- OwnBuckets
  StaticPrios = {3, 4}
  DEFAULT_PRIO = 4
  PiPrios = {0, 1}
  RT_TIME_CAP = 3
  OVERRUN_CAP = 1
INVARIANTS CountsMatch PiHonoured NoFault
