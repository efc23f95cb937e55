\* nohz
SPECIFICATION Spec
CONSTANTS
    NR = 3
    Pluggable = {2}
INVARIANTS OwnerTicks
PROPERTIES OwnerGivesUp AllSleep
