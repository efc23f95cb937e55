\* migration: two tasks, CPU 1 goes down once and comes back
SPECIFICATION Spec
CONSTANTS
    a = a
    b = b
    Tasks = {a, b}
    CPUs = {0, 1}
    HotCPU = 1
    Mortal <- JustA
    Masks <- Anywhere
    MaxCalls = 2
    MaxDowns = 1
    None = None
INVARIANTS RequestsSound AffinityPursued
PROPERTIES NotMovedWhileCurrent RequestServed
CHECK_DEADLOCK FALSE
