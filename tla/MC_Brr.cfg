\* SCHED_BRR, inheritance and throttling: memory errors stop the system
SPECIFICATION Spec
CONSTANTS
  t1 = t1
  t2 = t2
  Idle = Idle
  Tasks <- TwoTasks
  Unborn = {}
  Preempted = {}
  MAX_RT_PRIO = 3
  MAX_PRIO = 5
  MAX_BRR_BUCKET = 2
  RT_RUNTIME = 1
  RT_PERIOD = 2
  DEF_TIMESLICE = 2
  Garbage <- SomeGarbage
  UserPolicies <- BrrPolicies
  UserBuckets <- BrrBuckets
  StaticPrios = {4}
  DEFAULT_PRIO = 4
  PiPrios = {0}
  RT_TIME_CAP = 2
  OVERRUN_CAP = 1
SYMMETRY Interchangeable
CHECK_DEADLOCK FALSE
INVARIANTS ArrayConsistent BucketsCounted ThrottleRecovers PreemptNotLost
