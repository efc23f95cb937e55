SPECIFICATION Spec
CONSTANTS
  t1 = t1
  t2 = t2
  t3 = t3
  CPUs <- TwoCPUs
  Tasks <- ThreeTasks
  MAX_RT_PRIO = 3
  Prios = {0, 2, 3}
  BootPrio <- Boot
  Adjustable <- First
  Pinnable <- First
  Sleepers <- Others
  Limited = {1}
  Masks <- OneOrAll
  PREEMPT = FALSE
  None = None
SYMMETRY Alike
INVARIANTS QueuesSound OffersSound NoDeadlock PreemptPending NoneLeftBehind
