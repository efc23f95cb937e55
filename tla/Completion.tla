----------------------------- MODULE Completion -----------------------------
(***************************************************************************)
(* struct completion and the wait queue under it: complete, complete_all,  *)
(* wait_for_completion and its timeout, interruptible and killable forms,  *)
(* try_wait_for_completion (src/sched.c:5259-5560).  Every critical        *)
(* section of x->wait.lock is one step; between them the waiter and        *)
(* try_to_wake_up, the timer of schedule_timeout and a signal interleave.  *)
(***************************************************************************)
EXTENDS Integers, FiniteSets, SequencesExt

CONSTANTS
    Waiters,            \* the threads that may wait
    Timed,              \* those that call a _timeout form
    Interruptible,      \* those that wait in a state a signal ends
    UINT_MAX,           \* the largest value of the unsigned counter
    MaxComplete,        \* bound: calls of complete
    MaxCompleteAll      \* bound: calls of complete_all

ASSUME BoundsAssumption ==
    /\ UINT_MAX \in Nat /\ MaxComplete \in Nat /\ MaxCompleteAll \in Nat
    /\ MaxComplete + MaxCompleteAll * (UINT_MAX \div 2) <= UINT_MAX

VARIABLES
    done,       \* x->done
    queue,      \* x->wait.task_list, first to last; all entries exclusive
    state,      \* of each thread: "out" of the wait, "set" (has set its task
                \* state, still on a run queue), "asleep", "awake" (made
                \* TASK_RUNNING, about to retake x->wait.lock)
    expired,    \* the timed waits whose timeout has run down to 0
    signalled,  \* the threads with a pending signal their wait reacts to
    result,     \* what the thread's last call returned
    calls       \* calls of complete and complete_all so far

vars == <<done, queue, state, expired, signalled, result, calls>>

Unsigned(n) == n % (UINT_MAX + 1)

(* The queue is in use by whoever has an entry in it. *)
Queued == Range(queue)
Awake  == {w \in Queued : state[w] = "awake"}

Init ==
    /\ done = 0 /\ queue = <<>> /\ expired = {} /\ signalled = {}
    /\ state = [w \in Waiters |-> "out"]
    /\ result = [w \in Waiters |-> "none"]
    /\ calls = [complete |-> 0, complete_all |-> 0]

-----------------------------------------------------------------------------
(* try_to_wake_up(p, TASK_NORMAL) makes a sleeper or a thread that is only *)
(* about to sleep TASK_RUNNING; it returns nonzero for the sleeper alone.  *)
default_wake_function(w) == state[w] = "asleep"

(* Faulty variant: the scan stops after the n-th entry, woken or not. *)
WokenByPlace(n) == {i \in DOMAIN queue : n = 0 \/ i <= n}

(* The entries __wake_up_common visits: all of them, or up to the n-th     *)
(* whose wakeup succeeded.                                                 *)
Woken(n) ==
    {i \in DOMAIN queue :
        n = 0 \/ Cardinality({j \in 1..(i - 1) : default_wake_function(queue[j])}) < n}

__wake_up_common(n) ==
    LET hit == {queue[i] : i \in Woken(n)}
    IN  state' = [w \in Waiters |-> IF w \in hit THEN "awake" ELSE state[w]]

complete ==
    /\ calls.complete < MaxComplete
    /\ calls' = [calls EXCEPT !.complete = @ + 1]
    /\ done' = Unsigned(done + 1)
    /\ __wake_up_common(1)
    /\ UNCHANGED <<queue, expired, signalled, result>>

complete_all ==
    /\ calls.complete_all < MaxCompleteAll
    /\ calls' = [calls EXCEPT !.complete_all = @ + 1]
    /\ done' = Unsigned(done + UINT_MAX \div 2)
    /\ __wake_up_common(0)
    /\ UNCHANGED <<queue, expired, signalled, result>>

-----------------------------------------------------------------------------
(* What do_wait_for_common returns: with a permit taken, timeout ?: 1.     *)
Return(w, r) ==
    /\ state' = [state EXCEPT ![w] = "out"]
    /\ result' = [result EXCEPT ![w] = r]
    /\ expired' = expired \ {w}
    /\ UNCHANGED <<signalled, calls>>

(* Faulty variant: a permit taken as the timeout ran out is not reported. *)
TakesSilently(w) ==
    done' = done - 1 /\ Return(w, IF w \in expired THEN "timeout" ELSE "done")

TakeOne(w) == done' = done - 1 /\ Return(w, "done")

(* __remove_wait_queue, at the end of the loop however it ended. *)
Leave(w) == queue' = RemoveFirst(queue, w)

(* The body of the loop: a signal ends the wait, else the state is set and *)
(* the lock dropped.                                                       *)
LoopOnce(w) ==
    /\ w \notin signalled
    /\ state' = [state EXCEPT ![w] = "set"]
    /\ UNCHANGED <<done, result, expired, signalled, calls>>

wait_for_common(w) ==
    /\ state[w] = "out"
    /\ \/ done > 0 /\ TakeOne(w) /\ UNCHANGED queue
       \/ /\ done = 0 /\ w \notin signalled
          /\ state' = [state EXCEPT ![w] = "set"]
          /\ queue' = Append(queue, w)
          /\ result' = [result EXCEPT ![w] = "none"]
          /\ UNCHANGED <<done, expired, signalled, calls>>
       \/ done = 0 /\ w \in signalled /\ Return(w, "signal") /\ UNCHANGED <<done, queue>>

(* The thread has run through schedule_timeout and holds the lock again: a *)
(* permit is looked at before the timeout, and the timeout before a signal.*)
Relock(w) ==
    /\ state[w] = "awake"
    /\ \/ done > 0 /\ TakeOne(w) /\ Leave(w)
       \/ /\ done = 0 /\ w \in expired
          /\ Return(w, "timeout") /\ Leave(w) /\ UNCHANGED done
       \/ /\ done = 0 /\ w \notin expired /\ w \in signalled
          /\ Return(w, "signal") /\ Leave(w) /\ UNCHANGED done
       \/ done = 0 /\ w \notin expired /\ LoopOnce(w) /\ UNCHANGED queue

try_wait_for_completion(w) ==
    /\ state[w] = "out"
    /\ UNCHANGED queue
    /\ \/ done > 0 /\ TakeOne(w)
       \/ done = 0 /\ Return(w, "busy") /\ UNCHANGED done

-----------------------------------------------------------------------------
(* Faulty variant: schedule puts the thread to sleep with its signal pending. *)
SleepsOnSignal(w) ==
    /\ state[w] = "set"
    /\ state' = [state EXCEPT ![w] = "asleep"]
    /\ UNCHANGED <<done, queue, expired, signalled, result, calls>>

(* schedule(): the thread leaves its run queue, unless a signal is pending *)
(* for the state it set: then it stays TASK_RUNNING.                       *)
schedule(w) ==
    /\ state[w] = "set"
    /\ state' = [state EXCEPT ![w] = IF w \in signalled THEN "awake" ELSE "asleep"]
    /\ UNCHANGED <<done, queue, expired, signalled, result, calls>>

(* The timer of schedule_timeout: wake_up_process whatever the state is.   *)
(* The wakeup does nothing to a thread something else woke first, whose    *)
(* remaining time may reach 0 all the same before it reads the clock.      *)
process_timeout(w) ==
    /\ w \in Timed \ expired /\ state[w] # "out"
    /\ expired' = expired \union {w}
    /\ state' = [state EXCEPT ![w] = "awake"]
    /\ UNCHANGED <<done, queue, signalled, result, calls>>

(* A signal.  It wakes a thread whose task state is set; the one that comes *)
(* between the check of the loop and __set_current_state finds the thread  *)
(* TASK_RUNNING and only leaves the signal pending.                        *)
signal_wake_up(w) ==
    /\ w \in Interruptible \ signalled
    /\ signalled' = signalled \union {w}
    /\ \/ state[w] \in {"out", "set"} /\ UNCHANGED state
       \/ state[w] # "out" /\ state' = [state EXCEPT ![w] = "awake"]
    /\ UNCHANGED <<done, queue, expired, result, calls>>

(* Outside of the wait the thread handles its signal. *)
do_signal(w) ==
    /\ w \in signalled /\ state[w] = "out"
    /\ signalled' = signalled \ {w}
    /\ UNCHANGED <<done, queue, state, expired, result, calls>>

Next ==
    \/ complete \/ complete_all
    \/ \E w \in Waiters :
        \/ wait_for_common(w) \/ Relock(w) \/ try_wait_for_completion(w)
        \/ schedule(w) \/ process_timeout(w)
        \/ signal_wake_up(w) \/ do_signal(w)

(* A thread that is TASK_RUNNING gets to run, and a timer that was armed   *)
(* expires.  Nothing makes anybody post, signal or start a wait.           *)
Fairness ==
    \A w \in Waiters : WF_vars(Relock(w)) /\ WF_vars(schedule(w)) /\ WF_vars(process_timeout(w))

Spec == Init /\ [][Next]_vars /\ Fairness
-----------------------------------------------------------------------------
TypeOK ==
    /\ done \in 0..UINT_MAX
    /\ state \in [Waiters -> {"out", "set", "asleep", "awake"}]
    /\ result \in [Waiters -> {"none", "done", "timeout", "signal", "busy"}]
    /\ queue \in Seq(Waiters) /\ IsInjective(queue)
    /\ Queued = {w \in Waiters : state[w] # "out"}
    /\ expired \subseteq Timed /\ signalled \subseteq Interruptible

(* No completion is lost: there are as many threads on their way to the    *)
(* lock as there are permits, or every waiter is on its way.  A wakeup     *)
(* spent on a thread a timeout, a signal or an earlier complete had woken  *)
(* would break it; __wake_up_common goes on past such a thread.            *)
NoLostCompletion ==
    /\ TypeOK
    /\ Cardinality(Awake) >= done \/ Awake = Queued

(* What a caller relies on: the counting semaphore of CompletionSpec.      *)
(* Result and waiters are the code's, the permits are x->done.             *)
Permits == INSTANCE CompletionSpec WITH
    Impatient <- Timed \union Interruptible, All <- UINT_MAX \div 2,
    permits <- done, waiting <- Queued

(* Every step of the code is a step of the semaphore or none of its        *)
(* business: a timeout or a signal never discards a permit, a permit is    *)
(* never consumed twice nor by a call that reports failure, and permits do *)
(* not stay while the waiters sleep.                                       *)
CountsPermits == Permits!Spec

(* A wait whose timeout ran out or whose signal arrived ends, also when    *)
(* the signal came just before the thread set its state.                   *)
WaitEnds ==
    \A w \in Waiters : (w \in expired \union signalled) ~> (state[w] = "out")
=============================================================================
