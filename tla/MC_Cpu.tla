------------------------------- MODULE MC_Cpu -------------------------------
(* Instances of CpuSched for TLC: values for its constants. *)
EXTENDS CpuSched, TLC

CONSTANTS t1, t2

TwoTasks == {t1, t2}
OneUnborn == {t2}
OneCaller == {t1}

\* Which tasks are which does not matter when all of them exist at boot.
Interchangeable == Permutations(Tasks)

StockPolicies == {"NORMAL", "FIFO", "RR"}
FifoPolicies == {"NORMAL", "FIFO"}
BrrPolicies == {"NORMAL", "FIFO", "BRR"}

BrrBuckets == {-1, 0, 2}
OwnBuckets == {0, 1}

NoGarbage == [b \in Buckets |-> 0]
SomeGarbage == [b \in Buckets |-> IF b = 0 THEN 7 ELSE 0]
=============================================================================
