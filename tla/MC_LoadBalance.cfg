\* Two CPUs, three tasks; one is pinned, a lighter one sleeps and wakes.
SPECIFICATION Spec
CONSTANTS
    CPU = {0, 1}
    a = a
    b = b
    d = d
    Tasks = {a, b, d}
    Weight <- Weights
    Allowed <- Affinities
    Domains <- OneLevel
    Serialize = {}
    imbalance_pct = 125
    cache_nice_tries = 0
    sysctl_sched_nr_migrate = 2
    Sleepers = {d}
    None = None
INVARIANTS BalanceSound
PROPERTIES WorkConserving
