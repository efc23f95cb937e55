\* completions: 3 threads, a 3-bit counter, four complete and one complete_all
SPECIFICATION Spec
CONSTANTS
    a = a
    b = b
    c = c
    Waiters = {a, b, c}
    Timed <- TheTimed
    Interruptible <- TheInterruptible
    UINT_MAX = 7
    MaxComplete = 4
    MaxCompleteAll = 1
INVARIANTS NoLostCompletion
PROPERTIES CountsPermits WaitEnds
