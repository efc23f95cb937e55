SPECIFICATION Spec
CONSTANTS
  CPUs <- TwoCPUs
  Domains <- TwoDomains
  BootDomain = "root"
  BootRuntime = 2
  Runtimes = {2}
  Pluggable = {2}
  RT_PERIOD = 3
  RUNTIME_INF = 100
  RT_TIME_CAP = 3
  NR_CAP = 1
CHECK_DEADLOCK FALSE
INVARIANTS TypeOK
PROPERTIES RuntimeConserved BugMeansLeak DownStaysDisabled
