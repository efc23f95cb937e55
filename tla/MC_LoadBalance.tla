--------------------------- MODULE MC_LoadBalance ---------------------------
(* Two CPUs in one domain; three tasks, a pinned, d lighter than the others. *)
EXTENDS LoadBalance

CONSTANTS a, b, d

Weights == [t \in Tasks |-> IF t = d THEN 2 ELSE 4]
Affinities == [t \in Tasks |-> IF t = a THEN {0} ELSE CPU]
OneLevel == [c \in CPU |-> <<{{o} : o \in CPU}>>]
=============================================================================
