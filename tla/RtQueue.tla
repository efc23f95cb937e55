------------------------------ MODULE RtQueue ------------------------------
(***************************************************************************)
(* The real-time half of one CPU's run queue (struct rt_rq in sched.c and  *)
(* the list handling of sched_rt.c and sched_brr.c), as operators.  There  *)
(* are no variables here: an operator takes the tasks tk and the run queue *)
(* q before a call and returns the run queue after it, and CpuSched.tla    *)
(* threads tk and q through the handlers in the order of the code.         *)
(*                                                                         *)
(* Build modelled: CONFIG_SMP=n, CONFIG_RT_GROUP_SCHED=y (sched_brr.c does *)
(* not compile without it), every task in the root group, whose group      *)
(* entity rt_rq->rt_se is NULL.  SCHED_BRR entities share the rt_rq, its   *)
(* priority array and its bandwidth with SCHED_FIFO and SCHED_RR ones.     *)
(***************************************************************************)
EXTENDS Integers, SequencesExt

CONSTANTS
  Tasks,          \* the user tasks
  Idle,           \* rq->idle
  MAX_RT_PRIO,    \* priorities below it are real-time (100 in sched.h)
  MAX_PRIO,       \* priorities below it belong to tasks (140 in sched.h)
  MAX_BRR_BUCKET, \* length of numInBucket (32767 in sched.h)
  RT_RUNTIME,     \* rt_runtime of the root group, in ticks
  RT_PERIOD,      \* rt_period of the root group, in ticks
  DEF_TIMESLICE,  \* the SCHED_RR time slice, in ticks
  Garbage         \* what kmalloc left in the bucket counts

ASSUME TasksAssumption == Idle \notin Tasks /\ IsFiniteSet(Tasks)
ASSUME PrioAssumption ==
  MAX_RT_PRIO \in Nat \ {0} /\ MAX_PRIO \in Nat /\ MAX_RT_PRIO < MAX_PRIO
ASSUME BucketAssumption ==
  MAX_BRR_BUCKET \in Nat \ {0} /\ Garbage \in [0 .. MAX_BRR_BUCKET - 1 -> Int]
ASSUME BandwidthAssumption ==
  RT_RUNTIME \in Nat \ {0} /\ RT_PERIOD \in Nat \ {0}
ASSUME TimesliceAssumption == DEF_TIMESLICE \in Nat \ {0}

Policies == {"NORMAL", "FIFO", "RR", "BRR"}
Classes == {"fair", "rt", "brr"}
States == {"unborn", "new", "running", "sleeping"}

RtPrios == 0 .. MAX_RT_PRIO - 1
TaskPrios == 0 .. MAX_PRIO - 1
Buckets == 0 .. MAX_BRR_BUCKET - 1

Task == [policy : Policies, class : Classes, state : States,
         static_prio : TaskPrios \ RtPrios, rt_priority : RtPrios,
         normal_prio : TaskPrios, prio : TaskPrios,
         bid : Int, time_slice : Nat \ {0}]

\* struct rq and the root struct rt_rq.  linked is on_rt_rq() as a set (the
\* tasks whose run_list is on a queue), cfs the entities queued on rq->cfs,
\* resched the tasks with TIF_NEED_RESCHED, timer hrtimer_active() of the
\* period timer and elapsed the ticks since its last expiry.
RunQueue == [queue : [RtPrios -> Seq(Tasks)], bitmap : SUBSET RtPrios,
             linked : SUBSET Tasks, rt_nr_running : Int, rt_nr_boosted : Int,
             highest_prio : RtPrios \cup {MAX_RT_PRIO},
             rt_throttled : BOOLEAN, rt_time : Nat,
             timer : BOOLEAN, elapsed : Nat,
             numInBucket : [Buckets -> Int],
             cfs : SUBSET Tasks, on_rq : SUBSET Tasks, nr_running : Int,
             curr : Tasks \cup {Idle}, resched : SUBSET (Tasks \cup {Idle})]

\* init_rt_rq: empty lists, a clear bitmap, the bucket counts as allocated.
InitRunQueue ==
  [queue |-> [p \in RtPrios |-> <<>>], bitmap |-> {}, linked |-> {},
   rt_nr_running |-> 0, rt_nr_boosted |-> 0, highest_prio |-> MAX_RT_PRIO,
   rt_throttled |-> FALSE, rt_time |-> 0, timer |-> FALSE, elapsed |-> 0,
   numInBucket |-> Garbage, cfs |-> {}, on_rq |-> {}, nr_running |-> 0,
   curr |-> Idle, resched |-> {}]

Lesser(a, b) == IF a < b THEN a ELSE b

rt_prio(p) == p < MAX_RT_PRIO
rt_policy(pol) == pol \in {"FIFO", "RR"}
task_has_rt_policy(tk, t) == t # Idle /\ rt_policy(tk[t].policy)

\* Priority and class of rq->curr; the idle task has MAX_PRIO and a class of
\* its own.
CurrPrio(tk, q) == IF q.curr = Idle THEN MAX_PRIO ELSE tk[q.curr].prio
CurrClass(tk, q) == IF q.curr = Idle THEN "idle" ELSE tk[q.curr].class

resched_task(q, t) == [q EXCEPT !.resched = @ \cup {t}]
ReschedIf(cond, q) == IF cond THEN resched_task(q, q.curr) ELSE q

-----------------------------------------------------------------------------
(* The priority array.                                                     *)

\* sched_find_first_bit: bit MAX_RT_PRIO is the delimiter, always set.
FirstBit(bits) == Min(bits \cup {MAX_RT_PRIO})

rt_se_boosted(tk, t) == tk[t].prio # tk[t].normal_prio

rt_rq_throttled(q) == q.rt_throttled /\ q.rt_nr_boosted = 0

\* start_rt_bandwidth leaves an active timer alone and else restarts it at its
\* old phase (hrtimer_forward), which is why elapsed does not change.
start_rt_bandwidth(q) == [q EXCEPT !.timer = TRUE]

inc_rt_prio(q, p) == Lesser(p, q.highest_prio)

\* __enqueue_rt_entity of a task at the tail of its queue, inc_rt_tasks.
__enqueue_rt_entity(tk, q, t) ==
  LET p == tk[t].prio IN
  start_rt_bandwidth(
    [q EXCEPT !.queue[p] = Append(@, t),
              !.bitmap = @ \cup {p},
              !.linked = @ \cup {t},
              !.rt_nr_running = @ + 1,
              !.highest_prio = inc_rt_prio(q, p),
              !.rt_nr_boosted = IF rt_se_boosted(tk, t) THEN @ + 1 ELSE @])

\* dec_rt_prio, with the bitmap and rt_nr_running after the removal.
StaleHighest(bits, running, p, high) ==
  IF running # 0 THEN high ELSE MAX_RT_PRIO
dec_rt_prio(bits, running, p, high) ==
  IF running # 0
  THEN IF p = high THEN FirstBit(bits) ELSE high
  ELSE MAX_RT_PRIO

\* __dequeue_rt_entity: list_del_init, the bit of an emptied queue,
\* dec_rt_tasks.
ClearAlways(q, p, left) == q.bitmap \ {p}
BitsLeft(q, p, left) == IF left = <<>> THEN q.bitmap \ {p} ELSE q.bitmap

__dequeue_rt_entity(tk, q, t) ==
  LET p == tk[t].prio
      left == [r \in RtPrios |-> RemoveFirst(q.queue[r], t)]
      bits == BitsLeft(q, p, left[p])
      running == q.rt_nr_running - 1
  IN [q EXCEPT !.queue = left,
               !.bitmap = bits,
               !.linked = @ \ {t},
               !.rt_nr_running = running,
               !.highest_prio = dec_rt_prio(bits, running, p, @),
               !.rt_nr_boosted = IF rt_se_boosted(tk, t) THEN @ - 1 ELSE @]

\* dequeue_rt_stack of a task of the root group: a stack of one entity.
UncheckedDequeue(tk, q, t) == __dequeue_rt_entity(tk, q, t)
dequeue_rt_entity(tk, q, t) ==
  IF t \in q.linked THEN __dequeue_rt_entity(tk, q, t) ELSE q

enqueue_rt_entity(tk, q, t) ==
  __enqueue_rt_entity(tk, dequeue_rt_entity(tk, q, t), t)

\* requeue_rt_entity(head = 0): list_move_tail.
RequeueAtHead(tk, q, t) ==
  IF t \in q.linked
  THEN [q EXCEPT !.queue[tk[t].prio] = <<t>> \o RemoveFirst(@, t)]
  ELSE q
RequeueTwice(tk, q, t) ==
  IF t \in q.linked THEN [q EXCEPT !.queue[tk[t].prio] = Append(@, t)] ELSE q
requeue_rt_entity(tk, q, t) ==
  IF t \in q.linked
  THEN [q EXCEPT !.queue[tk[t].prio] = Append(RemoveFirst(@, t), t)]
  ELSE q

-----------------------------------------------------------------------------
(* The SCHED_BRR buckets.                                                  *)

\* The bucket __enqueue_rt_entity_brr uses: the task's own, or for -1 the
\* first bucket that counts zero; -1 when there is none.
ChooseBucket(q, bid) ==
  LET free == {b \in Buckets : q.numInBucket[b] = 0} IN
  IF bid = -1 /\ free # {} THEN Min(free) ELSE bid

\* p->bid = bucketToAddTo, for a task of the class.
AssignBucket(tk, q, t) ==
  IF tk[t].class = "brr"
  THEN [tk EXCEPT ![t].bid = ChooseBucket(q, @)]
  ELSE tk

\* numInBucket[bid] += n.
CountBucket(q, b, n) ==
  IF b \in Buckets THEN [q EXCEPT !.numInBucket[b] = @ + n] ELSE q

ForgetsBucket(tk, q, t) == dequeue_rt_entity(tk, q, t)
dequeue_rt_entity_brr(tk, q, t) ==
  IF t \in q.linked
  THEN __dequeue_rt_entity(tk, CountBucket(q, tk[t].bid, -1), t)
  ELSE q

\* tk already holds the bid AssignBucket chose.
enqueue_rt_entity_brr(tk, q, t) ==
  LET out == dequeue_rt_entity_brr(tk, q, t)
  IN __enqueue_rt_entity(tk, CountBucket(out, tk[t].bid, 1), t)

-----------------------------------------------------------------------------
(* Bandwidth.                                                              *)

\* sched_rt_runtime_exceeded, as the new value of rt_throttled.
NeverThrottles(q, time) == q.rt_throttled
ThrottlesAt(q, time) ==
  q.rt_throttled \/ (RT_RUNTIME < RT_PERIOD /\ time > RT_RUNTIME)

\* update_curr_rt, which update_curr_rt_brr repeats: d ticks of rq->curr.
update_curr_rt(tk, q, d) ==
  IF ~ task_has_rt_policy(tk, q.curr) THEN q
  ELSE LET time == q.rt_time + d
           new == [q EXCEPT !.rt_time = time,
                            !.rt_throttled = ThrottlesAt(q, time)]
       IN ReschedIf(rt_rq_throttled(new), new)

\* sched_rt_rq_enqueue of the root rt_rq when its throttling ends.
sched_rt_rq_enqueue(tk, q) ==
  ReschedIf(q.rt_nr_running # 0 /\ q.highest_prio < CurrPrio(tk, q), q)

\* do_sched_rt_period_timer and the restart decision of its caller.
NoWakeAtUnthrottle(tk, q, overrun) ==
  LET time == q.rt_time - Lesser(q.rt_time, overrun * RT_RUNTIME)
  IN [q EXCEPT !.rt_time = time,
               !.rt_throttled = @ /\ time >= RT_RUNTIME,
               !.timer = time # 0 \/ q.rt_nr_running # 0]
IdleWhenEmpty(tk, q, overrun) ==
  LET time == q.rt_time - Lesser(q.rt_time, overrun * RT_RUNTIME)
      lifts == q.rt_time # 0 /\ q.rt_throttled /\ time < RT_RUNTIME
      new == [q EXCEPT !.rt_time = time,
                       !.rt_throttled = @ /\ ~ lifts,
                       !.timer = q.rt_nr_running # 0]
  IN IF lifts THEN sched_rt_rq_enqueue(tk, new) ELSE new
do_sched_rt_period_timer(tk, q, overrun) ==
  LET time == q.rt_time - Lesser(q.rt_time, overrun * RT_RUNTIME)
      lifts == q.rt_time # 0 /\ q.rt_throttled /\ time < RT_RUNTIME
      new == [q EXCEPT !.rt_time = time,
                       !.rt_throttled = @ /\ ~ lifts,
                       !.timer = time # 0 \/ q.rt_nr_running # 0]
  IN IF lifts THEN sched_rt_rq_enqueue(tk, new) ELSE new

-----------------------------------------------------------------------------
(* Picking.                                                                *)

\* _pick_next_task_rt: the head of the first non-empty queue, as a set of at
\* most one task.
pick_next_task_rt(q) ==
  IF q.rt_nr_running = 0 \/ rt_rq_throttled(q) THEN {}
  ELSE {Head(q.queue[FirstBit(q.bitmap)])}
=============================================================================
