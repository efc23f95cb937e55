------------------------------ MODULE CpuSched ------------------------------
(***************************************************************************)
(* The scheduler core of one CPU (sched.c) over its real-time run queue    *)
(* (RtQueue.tla): the system calls, wakeups, forks, ticks, the bandwidth   *)
(* timer and schedule().  Each handler runs under rq->lock with interrupts *)
(* off, so it is one action; everything may happen between two handlers.   *)
(* The one value read before the lock and used under it, the prev_class of *)
(* __sched_setscheduler, is read by an action of its own.  On one CPU the  *)
(* caller of a system call is the running task.                            *)
(*                                                                         *)
(* The priority-inheritance waiters of a task (kernel/rtmutex.c, not in    *)
(* this repository) are an environment: pi[t] is the priority of t's top   *)
(* waiter, or MAX_PRIO for none.  The choices of the fair class among its  *)
(* own tasks are nondeterministic.                                         *)
(***************************************************************************)
EXTENDS RtQueue

CONSTANTS
  UserPolicies,   \* policies handed to sched_setscheduler
  UserBuckets,    \* bucket ids handed to sched_setscheduler with SCHED_BRR
  StaticPrios,    \* static priorities that nice values map to
  DEFAULT_PRIO,   \* the static priority of nice 0
  PiPrios,        \* priorities of tasks that may wait for a mutex
  Unborn,         \* tasks that do not exist at boot
  Preempted,      \* bound: tasks that may be preempted inside a call of
                  \* sched_setscheduler on themselves
  RT_TIME_CAP,    \* bound: no tick is charged to a larger rt_time
  OVERRUN_CAP     \* bound: periods the timer interrupt may be late by, plus 1

ASSUME PoliciesAssumption == UserPolicies \subseteq Policies
ASSUME UserBucketsAssumption == UserBuckets \subseteq Int
ASSUME StaticPriosAssumption ==
  StaticPrios \subseteq TaskPrios \ RtPrios /\ DEFAULT_PRIO \in StaticPrios
ASSUME PiPriosAssumption == PiPrios \subseteq TaskPrios
ASSUME UnbornAssumption == Unborn \subseteq Tasks /\ Preempted \subseteq Tasks
ASSUME CapAssumption == RT_TIME_CAP \in Nat /\ OVERRUN_CAP \in Nat \ {0}

VARIABLES
  task,   \* the task_structs
  rq,     \* the run queue
  pi,     \* top PI waiter of each task, MAX_PRIO when there is none
  fault,  \* "none", or the memory error after which nothing is specified
  prev_class  \* of a task inside __sched_setscheduler, the class it has read

vars == <<task, rq, pi, fault, prev_class>>

-----------------------------------------------------------------------------
(* Class dispatch.  A step that may have several outcomes (the fair class  *)
(* decides) is the set of its outcomes.                                    *)

\* Writes outside array->queue or numInBucket that the enqueue would do.
EnqueueFault(tk, q, t) ==
  CASE tk[t].class = "brr" /\ ChooseBucket(q, tk[t].bid) \notin Buckets -> "bucket_index"
    [] tk[t].class # "fair" /\ ~ rt_prio(tk[t].prio) -> "array_index"
    [] OTHER -> "none"

enqueue_task(tk, q, t) ==
  LET new == [q EXCEPT !.on_rq = @ \cup {t}] IN
  CASE tk[t].class = "fair" -> [new EXCEPT !.cfs = @ \cup {t}]
    [] tk[t].class = "rt" -> enqueue_rt_entity(tk, new, t)
    [] tk[t].class = "brr" -> enqueue_rt_entity_brr(tk, new, t)

dequeue_task(tk, q, t) ==
  LET new == [q EXCEPT !.on_rq = @ \ {t}]
      charged == update_curr_rt(tk, new, 0) IN
  CASE tk[t].class = "fair" -> [new EXCEPT !.cfs = @ \ {t}]
    [] tk[t].class = "rt" -> dequeue_rt_entity(tk, charged, t)
    [] tk[t].class = "brr" -> dequeue_rt_entity_brr(tk, charged, t)

activate_task(tk, q, t) ==
  LET new == enqueue_task(tk, q, t) IN [new EXCEPT !.nr_running = @ + 1]

deactivate_task(tk, q, t) ==
  LET new == dequeue_task(tk, q, t) IN [new EXCEPT !.nr_running = @ - 1]

\* put_prev_task of the class of t, the running task.
put_prev_task(tk, q, t) ==
  IF t # Idle /\ tk[t].class # "fair" THEN update_curr_rt(tk, q, 0) ELSE q

\* p->sched_class->put_prev_task when p is running, else nothing.
PutIfRunning(tk, q, t) == IF q.curr = t THEN put_prev_task(tk, q, t) ELSE q

\* rq->curr->sched_class->check_preempt_curr(rq, t).
NoPreempt(tk, q, t) == {q}
PreemptsOnlyIdle(tk, q, t) == {ReschedIf(CurrClass(tk, q) = "idle", q)}
check_preempt_curr(tk, q, t) ==
  LET curr == resched_task(q, q.curr) IN
  CASE CurrClass(tk, q) = "idle" -> {curr}
    [] CurrClass(tk, q) \in {"rt", "brr"} ->
         {ReschedIf(tk[t].prio < CurrPrio(tk, q), q)}
    [] CurrClass(tk, q) = "fair" ->
         IF rt_prio(tk[t].prio) THEN {curr}
         ELSE IF tk[t].class # "fair" \/ t = q.curr THEN {q}
         ELSE {q, curr}

\* check_class_changed: switched_to of a new class, prio_changed of the old.
check_class_changed(tk, q, t, prevClass, oldprio) ==
  LET running == q.curr = t
      lower == {ReschedIf(tk[t].prio < CurrPrio(tk, q), q)} IN
  CASE tk[t].class # "fair" /\ prevClass # tk[t].class ->
         IF running THEN {q} ELSE lower
    [] tk[t].class # "fair" /\ prevClass = tk[t].class ->
         IF running THEN {ReschedIf(oldprio < tk[t].prio, q)} ELSE lower
    [] tk[t].class = "fair" ->
         IF running
         THEN {ReschedIf(prevClass # "fair" \/ oldprio < tk[t].prio, q)}
         ELSE check_preempt_curr(tk, q, t)

\* The end of a handler that enqueues a task: the memory error of the enqueue,
\* or the tasks and one of the run queues it may leave.
Commit(err, tk, outcomes) ==
  /\ fault' = err
  /\ IF err # "none"
     THEN UNCHANGED <<task, rq>>
     ELSE task' = tk /\ rq' \in outcomes

\* The end of a handler whose task is not queued.
Keep(tk, q) == task' = tk /\ rq' = q /\ fault' = "none"

-----------------------------------------------------------------------------
(* Priorities.                                                             *)

normal_prio(rec) ==
  IF rt_policy(rec.policy) THEN MAX_RT_PRIO - 1 - rec.rt_priority
  ELSE rec.static_prio

\* effective_prio: refreshes normal_prio, keeps a real-time prio.
effective_prio(rec) ==
  LET normal == normal_prio(rec)
  IN [rec EXCEPT !.normal_prio = normal,
                 !.prio = IF rt_prio(@) THEN @ ELSE normal]

\* rt_mutex_getprio (external).
rt_mutex_getprio(rec, waiter) == Lesser(waiter, rec.normal_prio)

ClassOf(pol) ==
  CASE pol = "BRR" -> "brr"
    [] pol \in {"FIFO", "RR"} -> "rt"
    [] pol = "NORMAL" -> "fair"

\* __setscheduler.
DropsBoost(rec, pol, rtprio, bucket, waiter) ==
  LET new == [rec EXCEPT !.policy = pol, !.class = ClassOf(pol),
                         !.rt_priority = rtprio,
                         !.bid = IF pol = "BRR" THEN bucket ELSE @]
      normal == [new EXCEPT !.normal_prio = normal_prio(new)]
  IN [normal EXCEPT !.prio = normal.normal_prio]
__setscheduler(rec, pol, rtprio, bucket, waiter) ==
  LET new == [rec EXCEPT !.policy = pol, !.class = ClassOf(pol),
                         !.rt_priority = rtprio,
                         !.bid = IF pol = "BRR" THEN bucket ELSE @]
      normal == [new EXCEPT !.normal_prio = normal_prio(new)]
  IN [normal EXCEPT !.prio = rt_mutex_getprio(normal, waiter)]

-----------------------------------------------------------------------------
(* System calls and priority inheritance.                                  *)

Alive(t) == task[t].state # "unborn"

\* The running task may enter the kernel: it is not inside a call already.
MayCall == rq.curr # Idle /\ prev_class[rq.curr] = "none"

\* The parameter checks of __sched_setscheduler; a refused call changes
\* nothing.
ParamsValid(pol, rtprio) == rt_policy(pol) <=> rtprio # 0

\* __sched_setscheduler from the lock on: sched_setscheduler, sched_setparam.
SetUnderLock(t, pol, rtprio, bucket, prevClass) ==
  LET on == t \in rq.on_rq
      out == PutIfRunning(task, IF on THEN deactivate_task(task, rq, t) ELSE rq, t)
      tk == [task EXCEPT ![t] = __setscheduler(@, pol, rtprio, bucket, pi[t])]
      placed == AssignBucket(tk, out, t)
      queued == activate_task(placed, out, t)
  IN /\ fault = "none"
     /\ Alive(t)
     /\ ParamsValid(pol, rtprio)
     /\ IF on
        THEN Commit(EnqueueFault(tk, out, t), placed,
               check_class_changed(placed, queued, t, prevClass, task[t].prio))
        ELSE Keep(tk, out)
     /\ UNCHANGED pi

\* The call of the running task on t, not preempted.
sched_setscheduler(t, pol, rtprio, bucket) ==
  /\ MayCall
  /\ SetUnderLock(t, pol, rtprio, bucket, task[t].class)
  /\ UNCHANGED prev_class

\* The running task calls sched_setscheduler on itself: prev_class is read at
\* the top of the function, before the checks, the hooks and the lock.  (For a
\* task that is not running check_class_changed does not look at prev_class
\* beyond the class of the call, so calls on others need no such step.)
ReadPrevClass ==
  /\ fault = "none"
  /\ MayCall
  /\ rq.curr \in Preempted
  /\ task[rq.curr].state = "running"
  /\ prev_class' = [prev_class EXCEPT ![rq.curr] = task[rq.curr].class]
  /\ UNCHANGED <<task, rq, pi, fault>>

\* It runs again and goes on to the lock.
ResumeSetscheduler(pol, rtprio, bucket) ==
  LET t == rq.curr IN
  /\ t # Idle
  /\ prev_class[t] # "none"
  /\ SetUnderLock(t, pol, rtprio, bucket, prev_class[t])
  /\ prev_class' = [prev_class EXCEPT ![t] = "none"]

\* rt_mutex_setprio with the new priority of t.
NeverLeavesRt(rec, prio) ==
  [rec EXCEPT !.prio = prio, !.class = IF rt_prio(prio) THEN "rt" ELSE @]
Reprioritised(rec, prio) ==
  [rec EXCEPT !.prio = prio, !.class = IF rt_prio(prio) THEN "rt" ELSE "fair"]

rt_mutex_setprio(t, prio) ==
  LET on == t \in rq.on_rq
      out == PutIfRunning(task, IF on THEN dequeue_task(task, rq, t) ELSE rq, t)
      tk == [task EXCEPT ![t] = Reprioritised(@, prio)]
      queued == enqueue_task(tk, out, t)
  IN IF on
     THEN Commit(EnqueueFault(tk, out, t), tk,
            check_class_changed(tk, queued, t, task[t].class, task[t].prio))
     ELSE Keep(tk, out)

\* A waiter arrives at, or leaves, a mutex t owns (external), under pi_lock:
\* the owner's priority is adjusted when it differs.
PiChange(t, waiter) ==
  LET prio == rt_mutex_getprio(task[t], waiter)
  IN /\ fault = "none"
     /\ MayCall
     /\ task[t].state \in {"running", "sleeping"}
     /\ waiter # pi[t]
     /\ UNCHANGED prev_class
     /\ pi' = [pi EXCEPT ![t] = waiter]
     /\ IF prio = task[t].prio
        THEN UNCHANGED <<task, rq, fault>>
        ELSE rt_mutex_setprio(t, prio)

\* set_user_nice, past its check for an unchanged nice value (made without the
\* lock, and only to save work).
SetNice(t, static) ==
  LET on == t \in rq.on_rq
      out == IF on THEN dequeue_task(task, rq, t) ELSE rq
      tk == [task EXCEPT ![t] = effective_prio([@ EXCEPT !.static_prio = static])]
      placed == AssignBucket(tk, out, t)
      raised == tk[t].prio < task[t].prio
      lowered == tk[t].prio > task[t].prio
  IN IF task_has_rt_policy(task, t)
     THEN /\ task' = [task EXCEPT ![t].static_prio = static]
          /\ UNCHANGED <<rq, fault>>
     ELSE IF on
     THEN Commit(EnqueueFault(tk, out, t), placed,
            {ReschedIf(raised \/ (lowered /\ rq.curr = t),
                       enqueue_task(placed, out, t))})
     ELSE Keep(tk, out)

set_user_nice(t, static) ==
  /\ fault = "none"
  /\ MayCall
  /\ Alive(t)
  /\ static # task[t].static_prio
  /\ SetNice(t, static)
  /\ UNCHANGED <<pi, prev_class>>

\* One task of normalize_rt_tasks (SysRq-n); normalize_task for the tasks with
\* a real-time prio.
normalize_task(t) ==
  LET on == t \in rq.on_rq
      out == IF on THEN deactivate_task(task, rq, t) ELSE rq
      tk == [task EXCEPT ![t] = __setscheduler(@, "NORMAL", 0, 0, pi[t])]
      queued == activate_task(tk, out, t)
  IN /\ fault = "none"
     /\ Alive(t)
     /\ \/ /\ ~ rt_prio(task[t].prio)
           /\ task[t].static_prio < DEFAULT_PRIO
           /\ SetNice(t, DEFAULT_PRIO)
        \/ /\ rt_prio(task[t].prio)
           /\ Keep(tk, IF on THEN resched_task(queued, rq.curr) ELSE out)
     /\ UNCHANGED <<pi, prev_class>>

-----------------------------------------------------------------------------
(* Sleeping, waking and forking.                                           *)

\* The running task marks itself TASK_INTERRUPTIBLE, before it calls
\* schedule (external callers).
prepare_to_sleep ==
  /\ fault = "none"
  /\ MayCall
  /\ task[rq.curr].state = "running"
  /\ task' = [task EXCEPT ![rq.curr].state = "sleeping"]
  /\ UNCHANGED <<rq, pi, fault, prev_class>>

\* try_to_wake_up of a sleeping task: the state test, then out_running for
\* one that has not left the queue yet and out_activate for the others.
try_to_wake_up(t) ==
  LET tk == [task EXCEPT ![t].state = "running"]
      placed == AssignBucket(tk, rq, t) IN
  /\ fault = "none"
  /\ task[t].state = "sleeping"
  /\ IF t \in rq.on_rq
     THEN /\ rq' \in check_preempt_curr(task, rq, t)
          /\ task' = tk
          /\ UNCHANGED fault
     ELSE Commit(EnqueueFault(tk, rq, t), placed,
            check_preempt_curr(placed, activate_task(placed, rq, t), t))
  /\ UNCHANGED <<pi, prev_class>>

\* sched_fork: t becomes a copy of the running task, without its boost.
Child(parent) ==
  [parent EXCEPT !.state = "new", !.prio = parent.normal_prio,
                 !.class = IF rt_prio(parent.normal_prio) THEN @ ELSE "fair"]

sched_fork(t) ==
  /\ fault = "none"
  /\ task[t].state = "unborn"
  /\ MayCall
  /\ task' = [task EXCEPT ![t] = Child(task[rq.curr])]
  /\ UNCHANGED <<rq, pi, fault, prev_class>>

\* wake_up_new_task; task_new_fair may ask for a reschedule itself.
wake_up_new_task(t) ==
  LET tk == [task EXCEPT ![t] = [effective_prio(@) EXCEPT !.state = "running"]]
      placed == AssignBucket(tk, rq, t) IN
  /\ fault = "none"
  /\ task[t].state = "new"
  /\ MayCall
  /\ Commit(EnqueueFault(tk, rq, t), placed,
       check_preempt_curr(placed, activate_task(placed, rq, t), t))
  /\ UNCHANGED <<pi, prev_class>>

-----------------------------------------------------------------------------
(* schedule().                                                             *)

\* pick_next_task: the fair class alone when it has all the tasks, else the
\* classes in order.  After the rt class declines, the brr class reads the
\* same rt_nr_running and throttling and declines too.
FairFirst(q) == IF q.cfs # {} THEN q.cfs ELSE
                IF pick_next_task_rt(q) # {} THEN pick_next_task_rt(q) ELSE {Idle}
pick_next_task(q) ==
  IF q.nr_running = Cardinality(q.cfs) /\ q.cfs # {} THEN q.cfs
  ELSE IF pick_next_task_rt(q) # {} THEN pick_next_task_rt(q)
  ELSE IF q.cfs # {} THEN q.cfs
  ELSE {Idle}

\* schedule() of the running task: preempt is PREEMPT_ACTIVE, signal that
\* signal_pending_state makes a sleeper run on.
schedule(preempt, signal) ==
  LET prev == rq.curr
      cleared == [rq EXCEPT !.resched = @ \ {prev}]
      sleeps == prev # Idle /\ task[prev].state = "sleeping" /\ ~ preempt
  IN /\ fault = "none"
     /\ prev = Idle \/ preempt => prev \in rq.resched
     /\ preempt => prev # Idle
     /\ prev = Idle \/ preempt \/ MayCall
     /\ task' = IF sleeps /\ signal THEN [task EXCEPT ![prev].state = "running"]
                ELSE task
     /\ \E out \in {IF sleeps /\ ~ signal THEN deactivate_task(task, cleared, prev)
                  ELSE cleared} :
        \E put \in {put_prev_task(task, out, prev)} :
        \E next \in pick_next_task(put) : rq' = [put EXCEPT !.curr = next]
     /\ UNCHANGED <<pi, fault, prev_class>>

\* yield_task of a real-time task; sys_sched_yield then calls schedule.
sched_yield ==
  /\ fault = "none"
  /\ MayCall
  /\ task[rq.curr].class # "fair"
  /\ rq' = requeue_rt_entity(task, rq, rq.curr)
  /\ UNCHANGED <<task, pi, fault, prev_class>>

-----------------------------------------------------------------------------
(* Time.                                                                   *)

\* A tick passes: the timer interrupt is not later than OVERRUN_CAP periods,
\* and without it the phase of the timer repeats.
Elapse(q) ==
  [q EXCEPT !.elapsed = IF q.timer THEN @ + 1 ELSE (@ + 1) % RT_PERIOD]

\* task_tick_rt and task_tick_rt_brr after update_curr_rt: the SCHED_RR slice.
NeverReloads(rec) == [rec EXCEPT !.time_slice = @ - 1]
SliceAfterTick(rec) ==
  [rec EXCEPT !.time_slice = IF @ = 1 THEN DEF_TIMESLICE ELSE @ - 1]

TickRoundRobin(q, t) ==
  /\ task' = [task EXCEPT ![t] = SliceAfterTick(@)]
  /\ rq' = IF task[t].time_slice = 1 /\ Len(q.queue[task[t].prio]) > 1
           THEN resched_task(requeue_rt_entity(task, q, t), t)
           ELSE q

TickRt ==
  LET t == rq.curr
      q == update_curr_rt(task, Elapse(rq), 1)
  IN /\ t # Idle
     /\ task[t].class # "fair"
     /\ task_has_rt_policy(task, t) => rq.rt_time < RT_TIME_CAP
     /\ \/ task[t].policy = "RR" /\ TickRoundRobin(q, t)
        \/ task[t].policy # "RR" /\ rq' = q /\ UNCHANGED task

\* task_tick_fair may preempt when another fair task is queued; the idle
\* class does nothing.
TickOther ==
  /\ CurrClass(task, rq) \in {"fair", "idle"}
  /\ rq' \in {Elapse(rq)} \cup
       IF rq.curr # Idle /\ Cardinality(rq.cfs) > 1
       THEN {resched_task(Elapse(rq), rq.curr)} ELSE {}
  /\ UNCHANGED task

scheduler_tick ==
  /\ fault = "none"
  /\ rq.elapsed < OVERRUN_CAP * RT_PERIOD
  /\ TickRt \/ TickOther
  /\ UNCHANGED <<pi, fault, prev_class>>

\* sched_rt_period_timer: hrtimer_forward counts the periods, the callback
\* restarts the timer unless the queue was idle.
sched_rt_period_timer ==
  LET overrun == rq.elapsed \div RT_PERIOD
      now == [rq EXCEPT !.elapsed = @ % RT_PERIOD]
  IN /\ fault = "none"
     /\ rq.timer
     /\ overrun > 0
     /\ rq' = do_sched_rt_period_timer(task, now, overrun)
     /\ UNCHANGED <<task, pi, fault, prev_class>>

-----------------------------------------------------------------------------
(* The specification.                                                      *)

\* Every task is SCHED_NORMAL at nice 0 at boot, and asleep.
BootTask(t) ==
  [policy |-> "NORMAL", class |-> "fair",
   state |-> IF t \in Unborn THEN "unborn" ELSE "sleeping",
   static_prio |-> DEFAULT_PRIO, rt_priority |-> 0,
   normal_prio |-> DEFAULT_PRIO, prio |-> DEFAULT_PRIO,
   bid |-> 0, time_slice |-> DEF_TIMESLICE]

Init ==
  /\ task = [t \in Tasks |-> BootTask(t)]
  /\ rq = InitRunQueue
  /\ pi = [t \in Tasks |-> MAX_PRIO]
  /\ fault = "none"
  /\ prev_class = [t \in Tasks |-> "none"]

\* The bucket argument is read for SCHED_BRR only.
BucketArgs(pol) == IF pol = "BRR" THEN UserBuckets ELSE {0}

Next ==
  \/ \E t \in Tasks, pol \in UserPolicies, rtprio \in RtPrios :
       \E bucket \in BucketArgs(pol) : sched_setscheduler(t, pol, rtprio, bucket)
  \/ ReadPrevClass
  \/ \E pol \in UserPolicies, rtprio \in RtPrios :
       \E bucket \in BucketArgs(pol) : ResumeSetscheduler(pol, rtprio, bucket)
  \/ \E t \in Tasks, waiter \in PiPrios \cup {MAX_PRIO} : PiChange(t, waiter)
  \/ \E t \in Tasks, static \in StaticPrios : set_user_nice(t, static)
  \/ \E t \in Tasks : normalize_task(t)
  \/ prepare_to_sleep
  \/ \E t \in Tasks : try_to_wake_up(t)
  \/ \E t \in Tasks : sched_fork(t)
  \/ \E t \in Tasks : wake_up_new_task(t)
  \/ \E preempt, signal \in BOOLEAN : schedule(preempt, signal)
  \/ sched_yield
  \/ scheduler_tick
  \/ sched_rt_period_timer

Spec == Init /\ [][Next]_vars

\* A steady workload: policies were set while the tasks slept, and then tasks
\* sleep, wake, run and yield.
SteadyInit ==
  /\ \E rtprio \in [Tasks -> RtPrios], pol \in [Tasks -> UserPolicies] :
       /\ \A t \in Tasks : ParamsValid(pol[t], rtprio[t]) /\ pol[t] # "BRR"
       /\ task = [t \in Tasks |->
                    __setscheduler(BootTask(t), pol[t], rtprio[t], 0, MAX_PRIO)]
  /\ rq = InitRunQueue
  /\ pi = [t \in Tasks |-> MAX_PRIO]
  /\ fault = "none"
  /\ prev_class = [t \in Tasks |-> "none"]

SteadyNext ==
  \/ prepare_to_sleep
  \/ \E t \in Tasks : try_to_wake_up(t)
  \/ \E preempt, signal \in BOOLEAN : schedule(preempt, signal)
  \/ sched_yield
  \/ scheduler_tick
  \/ sched_rt_period_timer

\* A pending reschedule is acted on at the next preemption point; the tick and
\* the period timer are hardware interrupts that keep coming.
PromptSchedule ==
  /\ rq.curr \in rq.resched
  /\ \E preempt, signal \in BOOLEAN : schedule(preempt, signal)
Fairness ==
  WF_vars(PromptSchedule) /\ WF_vars(scheduler_tick) /\ WF_vars(sched_rt_period_timer)

SteadySpec == SteadyInit /\ [][SteadyNext]_vars /\ Fairness

-----------------------------------------------------------------------------
(* Properties.                                                             *)

\* Every variable has its type.
TypeOK ==
  /\ task \in [Tasks -> Task]
  /\ rq \in RunQueue
  /\ pi \in [Tasks -> 0 .. MAX_PRIO]
  /\ fault \in {"none", "array_index", "bucket_index"}
  /\ prev_class \in [Tasks -> Classes \cup {"none"}]

\* The priority array, on_rt_rq(), se.on_rq and the class of a task agree: a
\* task on the run queue with a real-time class is once in the queue of its
\* current priority and nowhere else, and a bit of the bitmap is set exactly for
\* the queues that are not empty.
ListsMatch(tk, q) ==
  /\ \A t \in q.linked : rt_prio(tk[t].prio)
  /\ \A p \in RtPrios :
       /\ p \in q.bitmap <=> q.queue[p] # <<>>
       /\ IsInjective(q.queue[p])
       /\ ToSet(q.queue[p]) = {t \in q.linked : tk[t].prio = p}
ClassesMatch(tk, q) ==
  \A t \in Tasks :
    /\ t \in q.cfs <=> t \in q.on_rq /\ tk[t].class = "fair"
    /\ t \in q.linked <=> t \in q.on_rq /\ tk[t].class # "fair"
ArrayConsistent == ListsMatch(task, rq) /\ ClassesMatch(task, rq)

\* The running counts are the numbers they stand for, through every policy
\* change and boost of a queued task: rt_nr_running, rt_nr_boosted (which keeps
\* a boosted queue from being throttled) and nr_running.
BoostedOf(tk, q) == {t \in q.linked : rt_se_boosted(tk, t)}
RtCountsMatch(tk, q) ==
  /\ q.rt_nr_running = Cardinality(q.linked)
  /\ q.rt_nr_boosted = Cardinality(BoostedOf(tk, q))
CountsMatch == RtCountsMatch(task, rq) /\ rq.nr_running = Cardinality(rq.on_rq)

\* highest_prio.curr, updated one task at a time, is the least priority queued.
HighestOf(tk, q) ==
  /\ \A t \in q.linked : q.highest_prio <= tk[t].prio
  /\ IF q.linked = {} THEN q.highest_prio = MAX_RT_PRIO
     ELSE \E t \in q.linked : tk[t].prio = q.highest_prio
HighestMatches == HighestOf(task, rq)

\* The priority of a task is the one its policy and its waiters give it,
\* whichever of the system calls, forks and mutex operations came last.
PiHonoured ==
  \A t \in Tasks :
    /\ task[t].normal_prio = normal_prio(task[t])
    /\ task[t].prio = rt_mutex_getprio(task[t], pi[t])

\* A preemption is not lost: when a real-time task that may run has a better
\* priority than the running task, a reschedule is pending.
PreemptNotLost ==
  (~ rt_rq_throttled(rq) /\ \E t \in rq.linked : task[t].prio < CurrPrio(task, rq))
    => rq.curr \in rq.resched

\* The CPU does not idle while a fair task is queued, unless a reschedule is
\* pending.
NoLostFairWakeup == rq.curr = Idle /\ rq.cfs # {} => Idle \in rq.resched

\* A throttled queue, or one that owes runtime, has an armed period timer:
\* nothing else would lift the throttling.
ThrottleRecovers ==
  rq.rt_throttled \/ rq.rt_time > 0 \/ rq.rt_nr_running > 0 => rq.timer

\* numInBucket[b] has counted the queued tasks of bucket b, over what the
\* allocation left there.
InBucket(tk, q, b) == {t \in q.linked : tk[t].class = "brr" /\ tk[t].bid = b}
BucketCountsOf(tk, q) ==
  \A b \in Buckets :
    q.numInBucket[b] - Garbage[b] = Cardinality(InBucket(tk, q, b))
BucketsCounted == BucketCountsOf(task, rq)

\* No enqueue writes outside the priority array or the buckets.
NoFault == fault = "none"

\* A step makes t follow u in a queue in which it preceded u only when it is t
\* itself that yields, ends its slice, or is requeued by a call that names it:
\* nobody jumps the queue of a priority.
Ahead(q, t, u) ==
  \E p \in RtPrios : \E i, j \in DOMAIN q.queue[p] :
    i < j /\ q.queue[p][i] = t /\ q.queue[p][j] = u
Requeued(t) ==
  \/ t = rq.curr
  \/ task'[t] # task[t]
  \/ \E rec \in {task[t]} : sched_setscheduler(t, rec.policy, rec.rt_priority, rec.bid)
NoQueueJump ==
  [][\A t, u \in rq.linked : Ahead(rq, t, u) /\ Ahead(rq', u, t) => Requeued(t)]_vars

\* A context switch lands on the best real-time task when one may run: the
\* least priority queued, whatever class or optimisation picks it.
SwitchesToBest ==
  [][rq'.curr # rq.curr /\ ~ rt_rq_throttled(rq')
       => \A t \in rq'.linked : CurrPrio(task', rq') <= task'[t].prio]_vars

\* A throttled real-time queue runs again.
ThrottlingEnds == rq.rt_throttled ~> ~ rq.rt_throttled

\* A queued fair task is not starved by real-time tasks that never sleep: the
\* fair class gets the CPU.
FairClassRuns == rq.cfs # {} ~> CurrClass(task, rq) = "fair" \/ rq.cfs = {}

-----------------------------------------------------------------------------
(* What comments of the code say and runs refute.                          *)

\* sched_brr.c says the pick starts at the bucket of the running task and goes to
\* "the next-highest bucket (or the first-lowest)": schedule() leaves a bucket
\* when another one has a queued task of the same priority.
BucketsRotate ==
  [][(\E preempt, signal \in BOOLEAN : schedule(preempt, signal))
       => \A t, u \in rq.linked \cap rq'.linked :
            /\ rq.curr = t
            /\ task[t].class = "brr" /\ task[u].class = "brr"
            /\ task[t].bid # task[u].bid /\ task[t].prio = task[u].prio
            => rq'.curr # t]_vars
=============================================================================
