--------------------------- MODULE CompletionSpec ---------------------------
(***************************************************************************)
(* What a completion (struct completion, src/sched.c:5347-5560) promises   *)
(* its callers, whatever the queue of waiters and the scheduler do: a      *)
(* counter of permits.  A post adds permits, a wait that succeeds takes    *)
(* exactly one, a wait gives up only when there is none, and a permit does *)
(* not lie idle while somebody waits for it.                               *)
(***************************************************************************)
EXTENDS Integers

CONSTANTS
    Waiters,        \* the threads that wait
    Impatient,      \* those whose wait may end by a timeout or a signal
    All             \* the permits complete_all adds (UINT_MAX / 2)

VARIABLES
    permits,        \* posted and not yet taken
    waiting,        \* the threads in the middle of a wait
    result          \* what the last call of each thread returned

vars == <<permits, waiting, result>>

Init == permits = 0 /\ waiting = {} /\ result = [w \in Waiters |-> "none"]

Post    == permits' = permits + 1 /\ UNCHANGED <<waiting, result>>
PostAll == permits' = permits + All /\ UNCHANGED <<waiting, result>>

(* A wait begins when there is nothing to take. *)
Wait(w) ==
    /\ w \notin waiting /\ permits = 0
    /\ waiting' = waiting \union {w}
    /\ result' = [result EXCEPT ![w] = "none"]
    /\ UNCHANGED permits

(* A permit is taken by a waiter, or by a thread that finds one at once. *)
Take(w) ==
    /\ permits > 0
    /\ permits' = permits - 1
    /\ waiting' = waiting \ {w}
    /\ result' = [result EXCEPT ![w] = "done"]

(* A wait ends without a permit, or try_wait_for_completion finds none. *)
GiveUp(w) ==
    /\ permits = 0
    /\ w \in waiting => w \in Impatient
    /\ waiting' = waiting \ {w}
    /\ \E r \in {"timeout", "signal"} \union (IF w \in waiting THEN {} ELSE {"busy"}) :
            result' = [result EXCEPT ![w] = r]
    /\ UNCHANGED permits

Next == Post \/ PostAll \/ \E w \in Waiters : Wait(w) \/ Take(w) \/ GiveUp(w)

(* Weak fairness of a take by a waiter, its enabling condition spelt out:  *)
(* permits do not stay while the same waiters sleep on.                    *)
SomeTake == \E w \in Waiters : Take(w)
TakesGoOn == []<>(permits = 0 \/ waiting = {}) \/ []<><<SomeTake>>_vars

Spec == Init /\ [][Next]_vars /\ TakesGoOn
=============================================================================
