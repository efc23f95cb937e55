---------------------------- MODULE MC_PushPull ----------------------------
(* Instances of RtPushPull for TLC: values for its constants. *)
EXTENDS RtPushPull, TLC

CONSTANTS t1, t2, t3

TwoCPUs == 1 .. 2
ThreeTasks == {t1, t2, t3}
Boot == t1 :> 0 @@ t2 :> 1 @@ t3 :> 1
First == {t1}
Others == {t2, t3}
\* Nothing tells t2 and t3 apart.
Alike == Permutations(Others)
OneOrAll == {{1}, CPUs}
=============================================================================
