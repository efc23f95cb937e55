---------------------------- MODULE CpuSchedProofs ----------------------------
(***************************************************************************)
(* The invariants of CpuSched.tla for every number of tasks, priorities    *)
(* and buckets, over the lemmas of RtQueueProofs.tla.                      *)
(***************************************************************************)
EXTENDS RtQueueProofs

\* A step that leaves the queues alone: it may set resched, the throttling and
\* the timer.
SoftStep(q, r) ==
  /\ r \in RunQueue /\ SameRt(q, r)
  /\ r.cfs = q.cfs /\ r.on_rq = q.on_rq
  /\ r.nr_running = q.nr_running /\ r.curr = q.curr

\* The queues are as they should be for the tasks tk.
QueuesRight(tk, q) == q \in RunQueue /\ RtInv(tk, q) /\ ClassesMatch(tk, q)

\* A task the enqueue of its class can take without an error.
Queueable(tk, t) == tk[t].class # "fair" => tk[t].prio \in RtPrios

-----------------------------------------------------------------------------
(* Steps that leave the queues alone.                                      *)

\* Such a step keeps the queues right.
LEMMA SoftKeeps ==
  ASSUME NEW tk, NEW q, NEW r, QueuesRight(tk, q), SoftStep(q, r)
  PROVE  QueuesRight(tk, r)
<1>1. RtInv(tk, r)
  BY SameRtInv DEF QueuesRight, SoftStep
<1>2. ClassesMatch(tk, r)
  BY DEF QueuesRight, SoftStep, SameRt, ClassesMatch
<1> QED BY <1>1, <1>2 DEF QueuesRight, SoftStep

\* Doing nothing is one.
LEMMA SoftSelf == ASSUME NEW q \in RunQueue PROVE SoftStep(q, q)
BY DEF SoftStep, SameRt

\* Two in a row are one.
LEMMA SoftTwice ==
  ASSUME NEW q, NEW r, NEW s, SoftStep(q, r), SoftStep(r, s)
  PROVE  SoftStep(q, s)
BY DEF SoftStep, SameRt

\* resched_task sets a flag.
LEMMA SoftResched ==
  ASSUME NEW q \in RunQueue, NEW t \in Tasks \cup {Idle}
  PROVE  SoftStep(q, resched_task(q, t))
<1> DEFINE r == resched_task(q, t)
           flags == q.resched \cup {t}
<1>1. r = [q EXCEPT !.resched = flags]
  BY DEF resched_task
<1>2. flags \in SUBSET (Tasks \cup {Idle})
  BY DEF RunQueue
<1> HIDE DEF r, flags
<1>3. r \in RunQueue
  BY <1>1, <1>2 DEF RunQueue
<1>4. SoftStep(q, r)
  BY <1>1, <1>3 DEF SoftStep, SameRt, RunQueue
<1> QED BY <1>4 DEF r

\* So does ReschedIf, at most.
LEMMA SoftReschedIf ==
  ASSUME NEW q \in RunQueue, NEW cond
  PROVE  SoftStep(q, ReschedIf(cond, q))
<1>1. q.curr \in Tasks \cup {Idle}
  BY DEF RunQueue
<1> QED BY <1>1, SoftSelf, SoftResched DEF ReschedIf

\* Charging d ticks to the running task.
LEMMA SoftCharge ==
  ASSUME NEW tk, NEW q \in RunQueue, NEW d \in Nat
  PROVE  SoftStep(q, update_curr_rt(tk, q, d))
<1> DEFINE time == q.rt_time + d
           thr == ThrottlesAt(q, time)
           new == [q EXCEPT !.rt_time = time, !.rt_throttled = thr]
<1>1. time \in Nat /\ thr \in BOOLEAN
  BY BandwidthAssumption DEF RunQueue, ThrottlesAt
<1> HIDE DEF time, thr
<1>2. new \in RunQueue
  BY <1>1 DEF RunQueue
<1>3. SoftStep(q, new)
  BY <1>2 DEF SoftStep, SameRt, RunQueue
<1>4. update_curr_rt(tk, q, d) = q
      \/ update_curr_rt(tk, q, d) = ReschedIf(rt_rq_throttled(new), new)
  BY DEF update_curr_rt, time, thr
<1> HIDE DEF new
<1>5. SoftStep(q, ReschedIf(rt_rq_throttled(new), new))
  BY <1>2, <1>3, SoftReschedIf, SoftTwice
<1> QED BY <1>4, <1>5, SoftSelf

\* put_prev_task charges at most.
LEMMA SoftPut ==
  ASSUME NEW tk, NEW q \in RunQueue, NEW t
  PROVE  SoftStep(q, put_prev_task(tk, q, t)) /\ SoftStep(q, PutIfRunning(tk, q, t))
BY SoftSelf, SoftCharge DEF put_prev_task, PutIfRunning

\* check_preempt_curr and check_class_changed ask for a reschedule at most.
LEMMA SoftCheck ==
  ASSUME NEW tk \in [Tasks -> Task], NEW q \in RunQueue, NEW t \in Tasks,
         NEW prev, NEW oldprio
  PROVE  /\ \A r \in check_preempt_curr(tk, q, t) : SoftStep(q, r)
         /\ \A r \in check_class_changed(tk, q, t, prev, oldprio) : SoftStep(q, r)
<1>1. SoftStep(q, q) /\ SoftStep(q, resched_task(q, q.curr))
  BY SoftSelf, SoftResched DEF RunQueue
<1>2. \A c : SoftStep(q, ReschedIf(c, q))
  BY SoftReschedIf
<1>3. CurrClass(tk, q) \in {"idle", "fair", "rt", "brr"}
  BY DEF CurrClass, RunQueue, Task, Classes
<1>4. \A r \in check_preempt_curr(tk, q, t) : SoftStep(q, r)
  BY <1>1, <1>2, <1>3 DEF check_preempt_curr
<1>5. tk[t].class \in Classes
  BY DEF Task
<1>6. \A r \in check_class_changed(tk, q, t, prev, oldprio) : SoftStep(q, r)
  BY <1>1, <1>2, <1>4, <1>5 DEF check_class_changed, Classes
<1> QED BY <1>4, <1>6

\* The passing of a tick.
LEMMA SoftElapse ==
  ASSUME NEW q \in RunQueue
  PROVE  SoftStep(q, Elapse(q))
<1> DEFINE e == IF q.timer THEN q.elapsed + 1 ELSE (q.elapsed + 1) % RT_PERIOD
           r == Elapse(q)
<1>1. e \in Nat
  BY BandwidthAssumption DEF RunQueue
<1>2. r = [q EXCEPT !.elapsed = e]
  BY DEF Elapse
<1> HIDE DEF e, r
<1>3. r \in RunQueue
  BY <1>1, <1>2 DEF RunQueue
<1>4. SoftStep(q, r)
  BY <1>2, <1>3 DEF SoftStep, SameRt, RunQueue
<1> QED BY <1>4 DEF r

\* The period timer, for any number of periods.
LEMMA SoftPeriod ==
  ASSUME NEW tk, NEW q \in RunQueue, NEW overrun \in Nat
  PROVE  SoftStep(q, do_sched_rt_period_timer(tk, q, overrun))
<1> DEFINE back == overrun * RT_RUNTIME
           time == q.rt_time - Lesser(q.rt_time, back)
           lifts == q.rt_time # 0 /\ q.rt_throttled /\ time < RT_RUNTIME
           thr == q.rt_throttled /\ ~ lifts
           tmr == time # 0 \/ q.rt_nr_running # 0
           new == [q EXCEPT !.rt_time = time, !.rt_throttled = thr, !.timer = tmr]
<1>1. back \in Nat
  BY BandwidthAssumption
<1> HIDE DEF back
<1>2. time \in Nat /\ thr \in BOOLEAN /\ tmr \in BOOLEAN
  BY <1>1 DEF RunQueue, Lesser
<1>3. do_sched_rt_period_timer(tk, q, overrun) =
        IF lifts THEN sched_rt_rq_enqueue(tk, new) ELSE new
  BY DEF do_sched_rt_period_timer, back
<1> HIDE DEF time, thr, tmr, lifts
<1>4. new \in RunQueue
  BY <1>2 DEF RunQueue
<1>5. SoftStep(q, new)
  BY <1>4 DEF SoftStep, SameRt, RunQueue
<1> HIDE DEF new
<1>6. SoftStep(q, sched_rt_rq_enqueue(tk, new))
  BY <1>4, <1>5, SoftReschedIf, SoftTwice DEF sched_rt_rq_enqueue
<1> QED BY <1>3, <1>5, <1>6
-----------------------------------------------------------------------------
(* Enqueuing and dequeuing.                                                *)

\* What a change of on_rq alone keeps of the real-time part.
LEMMA WithOnRq ==
  ASSUME NEW tk, NEW q \in RunQueue, RtInv(tk, q), NEW S \in SUBSET Tasks
  PROVE  /\ [q EXCEPT !.on_rq = S] \in RunQueue
         /\ RtInv(tk, [q EXCEPT !.on_rq = S])
         /\ [q EXCEPT !.on_rq = S].on_rq = S
         /\ [q EXCEPT !.on_rq = S].linked = q.linked
         /\ [q EXCEPT !.on_rq = S].cfs = q.cfs
         /\ [q EXCEPT !.on_rq = S].curr = q.curr
         /\ [q EXCEPT !.on_rq = S].nr_running = q.nr_running
<1> DEFINE r == [q EXCEPT !.on_rq = S]
<1>1. r \in RunQueue
  BY DEF RunQueue
<1>2. SameRt(q, r) /\ r.on_rq = S /\ r.linked = q.linked /\ r.cfs = q.cfs
      /\ r.curr = q.curr /\ r.nr_running = q.nr_running
  BY DEF RunQueue, SameRt
<1>3. RtInv(tk, r)
  BY <1>2, SameRtInv
<1> QED BY <1>1, <1>2, <1>3

\* The same for cfs.
LEMMA WithCfs ==
  ASSUME NEW tk, NEW q \in RunQueue, RtInv(tk, q), NEW S \in SUBSET Tasks
  PROVE  /\ [q EXCEPT !.cfs = S] \in RunQueue
         /\ RtInv(tk, [q EXCEPT !.cfs = S])
         /\ [q EXCEPT !.cfs = S].cfs = S
         /\ [q EXCEPT !.cfs = S].linked = q.linked
         /\ [q EXCEPT !.cfs = S].on_rq = q.on_rq
         /\ [q EXCEPT !.cfs = S].curr = q.curr
         /\ [q EXCEPT !.cfs = S].nr_running = q.nr_running
<1> DEFINE r == [q EXCEPT !.cfs = S]
<1>1. r \in RunQueue
  BY DEF RunQueue
<1>2. SameRt(q, r) /\ r.on_rq = q.on_rq /\ r.linked = q.linked /\ r.cfs = S
      /\ r.curr = q.curr /\ r.nr_running = q.nr_running
  BY DEF RunQueue, SameRt
<1>3. RtInv(tk, r)
  BY <1>2, SameRtInv
<1> QED BY <1>1, <1>2, <1>3

\* A queueable task that is not on the run queue can be enqueued.
LEMMA EnqueueTask ==
  ASSUME NEW tk \in [Tasks -> Task], NEW q, QueuesRight(tk, q),
         NEW t \in Tasks \ q.on_rq, Queueable(tk, t),
         NEW r, r = enqueue_task(tk, q, t)
  PROVE  /\ QueuesRight(tk, r) /\ r.on_rq = q.on_rq \cup {t}
         /\ r.curr = q.curr /\ r.nr_running = q.nr_running
<1> DEFINE new == [q EXCEPT !.on_rq = q.on_rq \cup {t}]
<1>1. q \in RunQueue /\ RtInv(tk, q) /\ ClassesMatch(tk, q)
  BY DEF QueuesRight
<1>2. q.on_rq \cup {t} \in SUBSET Tasks /\ q.linked \in SUBSET Tasks /\ q.cfs \in SUBSET Tasks
  BY <1>1 DEF RunQueue
<1>3. t \notin q.linked /\ t \notin q.cfs
  BY <1>1 DEF ClassesMatch
<1>4. /\ new \in RunQueue /\ RtInv(tk, new) /\ new.on_rq = q.on_rq \cup {t}
      /\ new.linked = q.linked /\ new.cfs = q.cfs /\ new.curr = q.curr
      /\ new.nr_running = q.nr_running
  BY <1>1, <1>2, WithOnRq
<1>5. tk[t].class \in {"fair", "rt", "brr"}
  BY DEF Task, Classes
<1>6. CASE tk[t].class = "fair"
  <2>1. r = [new EXCEPT !.cfs = new.cfs \cup {t}]
    BY <1>6 DEF enqueue_task
  <2> HIDE DEF new
  <2>2. new.cfs \cup {t} \in SUBSET Tasks
    BY <1>2, <1>4
  <2>3. /\ r \in RunQueue /\ RtInv(tk, r) /\ r.cfs = q.cfs \cup {t}
        /\ r.linked = q.linked /\ r.on_rq = q.on_rq \cup {t}
        /\ r.curr = q.curr /\ r.nr_running = q.nr_running
    BY <2>1, <2>2, <1>4, WithCfs
  <2>4. ClassesMatch(tk, r)
    BY <2>3, <1>1, <1>3, <1>6 DEF ClassesMatch
  <2> QED BY <2>3, <2>4 DEF QueuesRight
<1>7. CASE tk[t].class # "fair"
  <2>1. r = IF tk[t].class = "rt" THEN enqueue_rt_entity(tk, new, t)
                                  ELSE enqueue_rt_entity_brr(tk, new, t)
    BY <1>5, <1>7 DEF enqueue_task
  <2>2. t \in Tasks \ new.linked /\ tk[t].prio \in RtPrios
    BY <1>3, <1>4, <1>7 DEF Queueable
  <2> HIDE DEF new
  <2>3. /\ r \in RunQueue /\ RtInv(tk, r) /\ r.linked = q.linked \cup {t}
        /\ r.cfs = q.cfs /\ r.on_rq = q.on_rq \cup {t}
        /\ r.curr = q.curr /\ r.nr_running = q.nr_running
    BY <2>1, <2>2, <1>4, <1>7, EnqueueRt
  <2>4. ClassesMatch(tk, r)
    BY <2>3, <1>1, <1>3, <1>7 DEF ClassesMatch
  <2> QED BY <2>3, <2>4 DEF QueuesRight
<1> QED BY <1>6, <1>7

\* A task on the run queue can be dequeued.
LEMMA DequeueTask ==
  ASSUME NEW tk \in [Tasks -> Task], NEW q, QueuesRight(tk, q),
         NEW t \in q.on_rq,
         NEW r, r = dequeue_task(tk, q, t)
  PROVE  /\ QueuesRight(tk, r) /\ r.on_rq = q.on_rq \ {t}
         /\ r.curr = q.curr /\ r.nr_running = q.nr_running
<1> DEFINE new == [q EXCEPT !.on_rq = q.on_rq \ {t}]
           charged == update_curr_rt(tk, new, 0)
<1>1. q \in RunQueue /\ RtInv(tk, q) /\ ClassesMatch(tk, q) /\ t \in Tasks
  BY DEF QueuesRight, RunQueue
<1>2. q.on_rq \ {t} \in SUBSET Tasks /\ q.linked \in SUBSET Tasks /\ q.cfs \in SUBSET Tasks
  BY <1>1 DEF RunQueue
<1>3. /\ new \in RunQueue /\ RtInv(tk, new) /\ new.on_rq = q.on_rq \ {t}
      /\ new.linked = q.linked /\ new.cfs = q.cfs /\ new.curr = q.curr
      /\ new.nr_running = q.nr_running
  BY <1>1, <1>2, WithOnRq
<1>4. tk[t].class \in {"fair", "rt", "brr"}
  BY <1>1 DEF Task, Classes
<1>5. CASE tk[t].class = "fair"
  <2>1. r = [new EXCEPT !.cfs = new.cfs \ {t}]
    BY <1>5 DEF dequeue_task
  <2> HIDE DEF new
  <2>2. new.cfs \ {t} \in SUBSET Tasks
    BY <1>2, <1>3
  <2>3. /\ r \in RunQueue /\ RtInv(tk, r) /\ r.cfs = q.cfs \ {t}
        /\ r.linked = q.linked /\ r.on_rq = q.on_rq \ {t}
        /\ r.curr = q.curr /\ r.nr_running = q.nr_running
    BY <2>1, <2>2, <1>3, WithCfs
  <2>4. ClassesMatch(tk, r)
    BY <2>3, <1>1, <1>5 DEF ClassesMatch
  <2> QED BY <2>3, <2>4 DEF QueuesRight
<1>6. CASE tk[t].class # "fair"
  <2>1. r = IF tk[t].class = "rt" THEN dequeue_rt_entity(tk, charged, t)
                                  ELSE dequeue_rt_entity_brr(tk, charged, t)
    BY <1>4, <1>6 DEF dequeue_task
  <2> HIDE DEF new
  <2>2. SoftStep(new, charged)
    BY <1>3, SoftCharge
  <2> HIDE DEF charged
  <2>3. /\ charged \in RunQueue /\ RtInv(tk, charged) /\ charged.linked = q.linked
        /\ charged.on_rq = q.on_rq \ {t} /\ charged.cfs = q.cfs
        /\ charged.curr = q.curr /\ charged.nr_running = q.nr_running
    <3>1. RtInv(tk, charged)
      BY <2>2, <1>3, SameRtInv DEF SoftStep
    <3> QED BY <3>1, <2>2, <1>3 DEF SoftStep, SameRt
  <2>4. t \in charged.linked
    BY <2>3, <1>1, <1>6 DEF ClassesMatch
  <2>5. /\ r \in RunQueue /\ RtInv(tk, r) /\ r.linked = q.linked \ {t}
        /\ r.cfs = q.cfs /\ r.on_rq = q.on_rq \ {t}
        /\ r.curr = q.curr /\ r.nr_running = q.nr_running
    BY <2>1, <2>3, <2>4, <1>6, DequeueRt
  <2>6. ClassesMatch(tk, r)
    BY <2>5, <1>1, <1>6 DEF ClassesMatch
  <2> QED BY <2>5, <2>6 DEF QueuesRight
<1> QED BY <1>5, <1>6

\* The count of running tasks is not part of what the queues keep.
LEMMA WithNrRunning ==
  ASSUME NEW tk, NEW q, QueuesRight(tk, q), NEW n \in Int
  PROVE  /\ QueuesRight(tk, [q EXCEPT !.nr_running = n])
         /\ [q EXCEPT !.nr_running = n].nr_running = n
         /\ [q EXCEPT !.nr_running = n].on_rq = q.on_rq
         /\ [q EXCEPT !.nr_running = n].curr = q.curr
<1> DEFINE r == [q EXCEPT !.nr_running = n]
<1>1. q \in RunQueue
  BY DEF QueuesRight
<1>2. r \in RunQueue
  BY <1>1 DEF RunQueue
<1>3. SameRt(q, r) /\ r.on_rq = q.on_rq /\ r.linked = q.linked /\ r.cfs = q.cfs
      /\ r.curr = q.curr /\ r.nr_running = n
  BY <1>1 DEF RunQueue, SameRt
<1>4. RtInv(tk, r)
  BY <1>3, SameRtInv DEF QueuesRight
<1>5. ClassesMatch(tk, r)
  BY <1>3 DEF QueuesRight, ClassesMatch
<1> QED BY <1>2, <1>3, <1>4, <1>5 DEF QueuesRight

\* activate_task and deactivate_task also count.
LEMMA ActivateTask ==
  ASSUME NEW tk \in [Tasks -> Task], NEW q, QueuesRight(tk, q),
         NEW t \in Tasks \ q.on_rq, Queueable(tk, t),
         NEW r, r = activate_task(tk, q, t)
  PROVE  /\ QueuesRight(tk, r) /\ r.on_rq = q.on_rq \cup {t}
         /\ r.curr = q.curr /\ r.nr_running = q.nr_running + 1
<1> DEFINE new == enqueue_task(tk, q, t)
<1>1. /\ QueuesRight(tk, new) /\ new.on_rq = q.on_rq \cup {t}
      /\ new.curr = q.curr /\ new.nr_running = q.nr_running
  BY EnqueueTask
<1>2. r = [new EXCEPT !.nr_running = new.nr_running + 1]
  BY DEF activate_task
<1> HIDE DEF new
<1>3. new.nr_running + 1 \in Int
  BY <1>1 DEF QueuesRight, RunQueue
<1> QED BY <1>1, <1>2, <1>3, WithNrRunning

\* And deactivate_task, which counts down.
LEMMA DeactivateTask ==
  ASSUME NEW tk \in [Tasks -> Task], NEW q, QueuesRight(tk, q),
         NEW t \in q.on_rq,
         NEW r, r = deactivate_task(tk, q, t)
  PROVE  /\ QueuesRight(tk, r) /\ r.on_rq = q.on_rq \ {t}
         /\ r.curr = q.curr /\ r.nr_running = q.nr_running - 1
<1> DEFINE new == dequeue_task(tk, q, t)
<1>1. /\ QueuesRight(tk, new) /\ new.on_rq = q.on_rq \ {t}
      /\ new.curr = q.curr /\ new.nr_running = q.nr_running
  BY DequeueTask
<1>2. r = [new EXCEPT !.nr_running = new.nr_running - 1]
  BY DEF deactivate_task
<1> HIDE DEF new
<1>3. new.nr_running - 1 \in Int
  BY <1>1 DEF QueuesRight, RunQueue
<1> QED BY <1>1, <1>2, <1>3, WithNrRunning

\* The run queue does not look at the tasks that are not on it, nor at the
\* policy, the state and the slice of those that are.
SameQueued(tk, tk2, q) ==
  \A u \in q.on_rq :
    /\ tk2[u].prio = tk[u].prio /\ tk2[u].normal_prio = tk[u].normal_prio
    /\ tk2[u].class = tk[u].class /\ tk2[u].bid = tk[u].bid

\* A change of tasks the run queue does not see keeps the queues right.
LEMMA TasksChange ==
  ASSUME NEW tk \in [Tasks -> Task], NEW tk2 \in [Tasks -> Task],
         NEW q, QueuesRight(tk, q), SameQueued(tk, tk2, q)
  PROVE  QueuesRight(tk2, q)
<1>1. q \in RunQueue /\ RtInv(tk, q) /\ ClassesMatch(tk, q)
  BY DEF QueuesRight
<1>2. /\ q.linked \in SUBSET Tasks
      /\ \A u \in q.linked : u \in q.on_rq
  BY <1>1 DEF RunQueue, ClassesMatch
<1>3. \A u \in q.linked :
        /\ tk2[u].prio = tk[u].prio /\ tk2[u].normal_prio = tk[u].normal_prio
        /\ tk2[u].class = tk[u].class /\ tk2[u].bid = tk[u].bid
  BY <1>2 DEF SameQueued
<1>4. ListsMatch(tk2, q)
  <2>1. \A p \in RtPrios :
          {u \in q.linked : tk2[u].prio = p} = {u \in q.linked : tk[u].prio = p}
    BY <1>3
  <2> QED BY <2>1, <1>1, <1>3 DEF RtInv, ListsMatch
<1>5. RtCountsMatch(tk2, q)
  <2>1. BoostedOf(tk2, q) = BoostedOf(tk, q)
    BY <1>3 DEF BoostedOf, rt_se_boosted
  <2> QED BY <2>1, <1>1 DEF RtInv, RtCountsMatch
<1>6. HighestOf(tk2, q)
  BY <1>1, <1>3 DEF RtInv, HighestOf
<1>7. BucketCountsOf(tk2, q)
  <2>1. \A b \in Buckets : InBucket(tk2, q, b) = InBucket(tk, q, b)
    BY <1>3 DEF InBucket
  <2> QED BY <2>1, <1>1 DEF RtInv, BucketCountsOf
<1>8. ClassesMatch(tk2, q)
  BY <1>1 DEF ClassesMatch, SameQueued
<1> QED BY <1>1, <1>4, <1>5, <1>6, <1>7, <1>8 DEF QueuesRight, RtInv

\* A dequeued task may change, and then it can be enqueued again: the queues are
\* right, and the same tasks are on them.
LEMMA OutChangedIn ==
  ASSUME NEW tk \in [Tasks -> Task], NEW tk2 \in [Tasks -> Task],
         NEW q, QueuesRight(tk, q), NEW t \in q.on_rq,
         \A u \in Tasks \ {t} : tk2[u] = tk[u],
         Queueable(tk2, t),
         NEW d, d = deactivate_task(tk, q, t) \/ d = dequeue_task(tk, q, t),
         NEW out, SoftStep(d, out)
  PROVE  /\ QueuesRight(tk2, enqueue_task(tk2, out, t))
         /\ enqueue_task(tk2, out, t).on_rq = q.on_rq
         /\ enqueue_task(tk2, out, t).curr = q.curr
         /\ enqueue_task(tk2, out, t).nr_running = d.nr_running
         /\ QueuesRight(tk2, activate_task(tk2, out, t))
         /\ activate_task(tk2, out, t).on_rq = q.on_rq
         /\ activate_task(tk2, out, t).curr = q.curr
         /\ activate_task(tk2, out, t).nr_running = d.nr_running + 1
<1>1. t \in Tasks
  BY DEF QueuesRight, RunQueue
<1>2. QueuesRight(tk, d) /\ d.on_rq = q.on_rq \ {t} /\ d.curr = q.curr
  BY DeactivateTask, DequeueTask
<1>3. QueuesRight(tk, out) /\ out.on_rq = q.on_rq \ {t} /\ out.curr = q.curr
      /\ out.nr_running = d.nr_running
  BY <1>2, SoftKeeps DEF SoftStep
<1>4. out.on_rq \in SUBSET Tasks
  BY <1>3 DEF QueuesRight, RunQueue
<1>5. SameQueued(tk, tk2, out)
  BY <1>3, <1>4 DEF SameQueued
<1>6. QueuesRight(tk2, out) /\ t \in Tasks \ out.on_rq
  BY <1>1, <1>3, <1>5, TasksChange
<1>7. out.on_rq \cup {t} = q.on_rq
  BY <1>3
<1> DEFINE a == enqueue_task(tk2, out, t)
           b == activate_task(tk2, out, t)
<1>8. /\ QueuesRight(tk2, a) /\ a.on_rq = out.on_rq \cup {t}
      /\ a.curr = out.curr /\ a.nr_running = out.nr_running
  BY <1>6, EnqueueTask
<1>9. /\ QueuesRight(tk2, b) /\ b.on_rq = out.on_rq \cup {t}
      /\ b.curr = out.curr /\ b.nr_running = out.nr_running + 1
  BY <1>6, ActivateTask
<1> QED BY <1>3, <1>7, <1>8, <1>9
-----------------------------------------------------------------------------
(* What the helpers make of a task.                                        *)

\* Priorities are naturals.
LEMMA PrioTypes ==
  /\ RtPrios \subseteq TaskPrios /\ TaskPrios \subseteq Nat
  /\ \A p \in TaskPrios : rt_prio(p) <=> p \in RtPrios
  /\ \A w \in 0 .. MAX_PRIO, p \in TaskPrios : Lesser(w, p) \in TaskPrios
BY PrioAssumption DEF RtPrios, TaskPrios, rt_prio, Lesser

\* The normal priority of a task, whatever its policy.
LEMMA NormalPrioTyped ==
  ASSUME NEW rec, rec.static_prio \in TaskPrios, rec.rt_priority \in RtPrios
  PROVE  normal_prio(rec) \in TaskPrios
BY PrioAssumption DEF normal_prio, RtPrios, TaskPrios

\* __setscheduler makes a task of a task, and keeps its state.
LEMMA SetschedulerTyped ==
  ASSUME NEW rec \in Task, NEW pol \in Policies, NEW rtprio \in RtPrios,
         NEW bucket \in Int, NEW waiter \in 0 .. MAX_PRIO
  PROVE  /\ __setscheduler(rec, pol, rtprio, bucket, waiter) \in Task
         /\ __setscheduler(rec, pol, rtprio, bucket, waiter).state = rec.state
<1> DEFINE class == ClassOf(pol)
           bid == IF pol = "BRR" THEN bucket ELSE rec.bid
           new == [rec EXCEPT !.policy = pol, !.class = class,
                              !.rt_priority = rtprio, !.bid = bid]
           np == normal_prio(new)
           normal == [new EXCEPT !.normal_prio = np]
           p == rt_mutex_getprio(normal, waiter)
<1>1. class \in Classes /\ bid \in Int
  BY DEF ClassOf, Classes, Policies, Task
<1>2. __setscheduler(rec, pol, rtprio, bucket, waiter) = [normal EXCEPT !.prio = p]
  BY DEF __setscheduler
<1> HIDE DEF class, bid
<1>3. new \in Task
  BY <1>1 DEF Task
<1>4. new.state = rec.state
  BY DEF Task
<1>5. np \in TaskPrios
  <2> HIDE DEF new
  <2> QED BY <1>3, NormalPrioTyped DEF Task
<1> HIDE DEF new, np
<1>6. normal \in Task /\ normal.normal_prio = np /\ normal.state = new.state
  BY <1>3, <1>5 DEF Task
<1>7. p \in TaskPrios
  <2> HIDE DEF normal
  <2> QED BY <1>5, <1>6, PrioTypes DEF rt_mutex_getprio
<1> HIDE DEF normal, p
<1> QED BY <1>2, <1>4, <1>6, <1>7 DEF Task

\* So does effective_prio.
LEMMA EffectiveTyped ==
  ASSUME NEW rec \in Task
  PROVE  effective_prio(rec) \in Task /\ effective_prio(rec).state = rec.state
<1> DEFINE n == normal_prio(rec)
           p == IF rt_prio(rec.prio) THEN rec.prio ELSE n
<1>1. n \in TaskPrios
  BY NormalPrioTyped DEF Task
<1>2. p \in TaskPrios
  BY <1>1 DEF Task
<1>3. effective_prio(rec) = [rec EXCEPT !.normal_prio = n, !.prio = p]
  BY DEF effective_prio, Task
<1> HIDE DEF n, p
<1> QED BY <1>1, <1>2, <1>3 DEF Task

\* So does the change of priority and class in rt_mutex_setprio.
LEMMA ReprioritisedTyped ==
  ASSUME NEW rec \in Task, NEW prio \in TaskPrios
  PROVE  Reprioritised(rec, prio) \in Task /\ Reprioritised(rec, prio).state = rec.state
BY DEF Reprioritised, Task, Classes

\* sched_fork makes a task of the copy of its parent.
LEMMA ChildTyped ==
  ASSUME NEW rec \in Task
  PROVE  Child(rec) \in Task
BY DEF Child, Task, Classes, States

\* A tick makes a task of a task and changes its slice only.
LEMMA SliceTyped ==
  ASSUME NEW rec \in Task
  PROVE  /\ SliceAfterTick(rec) \in Task
         /\ SliceAfterTick(rec).state = rec.state
         /\ SliceAfterTick(rec).prio = rec.prio
         /\ SliceAfterTick(rec).normal_prio = rec.normal_prio
         /\ SliceAfterTick(rec).class = rec.class
         /\ SliceAfterTick(rec).bid = rec.bid
<1> DEFINE s == IF rec.time_slice = 1 THEN DEF_TIMESLICE ELSE rec.time_slice - 1
<1>1. s \in Nat \ {0}
  BY TimesliceAssumption DEF Task
<1>2. SliceAfterTick(rec) = [rec EXCEPT !.time_slice = s]
  BY DEF SliceAfterTick
<1> HIDE DEF s
<1> QED BY <1>1, <1>2 DEF Task

\* A task is placed in a bucket, and is queueable when the enqueue has no error.
LEMMA Placed ==
  ASSUME NEW tk \in [Tasks -> Task], NEW q, NEW t \in Tasks
  PROVE  /\ AssignBucket(tk, q, t) \in [Tasks -> Task]
         /\ \A u \in Tasks \ {t} : AssignBucket(tk, q, t)[u] = tk[u]
         /\ AssignBucket(tk, q, t)[t].state = tk[t].state
         /\ EnqueueFault(tk, q, t) = "none" =>
              Queueable(tk, t) /\ Queueable(AssignBucket(tk, q, t), t)
<1> DEFINE b == ChooseBucket(q, tk[t].bid)
           rec == [tk[t] EXCEPT !.bid = b]
           r == AssignBucket(tk, q, t)
<1>1. b \in Int
  <2> DEFINE free == {c \in Buckets : q.numInBucket[c] = 0}
  <2>1. free \in SUBSET Nat
    BY BucketAssumption DEF Buckets
  <2>2. free # {} => Min(free) \in Nat
    BY <2>1, MinOfNaturals
  <2>3. tk[t].bid \in Int
    BY DEF Task
  <2> HIDE DEF free
  <2>4. b = tk[t].bid \/ (free # {} /\ b = Min(free))
    BY DEF ChooseBucket, free
  <2> QED BY <2>2, <2>3, <2>4
<1> HIDE DEF b
<1>2. rec \in Task /\ rec.state = tk[t].state /\ rec.class = tk[t].class
      /\ rec.prio = tk[t].prio
  BY <1>1 DEF Task
<1>3. r = IF tk[t].class = "brr" THEN [tk EXCEPT ![t] = rec] ELSE tk
  BY DEF AssignBucket, b
<1> HIDE DEF rec, r
<1>4. /\ r \in [Tasks -> Task]
      /\ \A u \in Tasks \ {t} : r[u] = tk[u]
      /\ r[t].state = tk[t].state /\ r[t].class = tk[t].class /\ r[t].prio = tk[t].prio
  BY <1>2, <1>3
<1>5. EnqueueFault(tk, q, t) = "none" => Queueable(tk, t)
  <2>1. tk[t].prio \in TaskPrios
    BY DEF Task
  <2>2. EnqueueFault(tk, q, t) = "none" => tk[t].class = "fair" \/ rt_prio(tk[t].prio)
    BY DEF EnqueueFault
  <2> QED BY <2>1, <2>2, PrioTypes DEF Queueable
<1> QED BY <1>4, <1>5 DEF r, Queueable

\* An enqueue has one of the memory errors, or none.
LEMMA FaultTyped ==
  ASSUME NEW tk, NEW q, NEW t
  PROVE  EnqueueFault(tk, q, t) \in {"none", "array_index", "bucket_index"}
BY DEF EnqueueFault

-----------------------------------------------------------------------------
(* The inductive invariant.                                                *)

\* The tasks and the run queue: the queues are right, nr_running counts, the
\* running task is on the run queue, and a task that was not started is not.
StateRight(tk, q) ==
  /\ tk \in [Tasks -> Task]
  /\ QueuesRight(tk, q)
  /\ q.nr_running = Cardinality(q.on_rq)
  /\ q.curr # Idle => q.curr \in q.on_rq
  /\ \A u \in Tasks : tk[u].state \in {"unborn", "new"} => u \notin q.on_rq

\* The memory errors of the model.
FaultType == fault \in {"none", "array_index", "bucket_index"}

\* The inductive invariant.
Inv ==
  /\ StateRight(task, rq)
  /\ pi \in [Tasks -> 0 .. MAX_PRIO]
  /\ FaultType

\* A step that leaves the queues alone, while a task that is not queued, or
\* nothing the run queue looks at, changes.
LEMMA OffChanged ==
  ASSUME NEW tk, NEW q, StateRight(tk, q), NEW tk2 \in [Tasks -> Task],
         SameQueued(tk, tk2, q),
         \A u \in q.on_rq : tk2[u].state \notin {"unborn", "new"},
         NEW r, SoftStep(q, r)
  PROVE  StateRight(tk2, r) /\ r.curr = q.curr
<1>1. QueuesRight(tk2, q)
  BY TasksChange DEF StateRight
<1>2. QueuesRight(tk2, r)
  BY <1>1, SoftKeeps
<1> QED BY <1>2 DEF StateRight, SoftStep

\* The same when a single task changes and keeps its state.
LEMMA OneOffChanged ==
  ASSUME NEW tk, NEW q, StateRight(tk, q), NEW t \in Tasks \ q.on_rq,
         NEW rec \in Task, NEW r, SoftStep(q, r)
  PROVE  StateRight([tk EXCEPT ![t] = rec], r) /\ r.curr = q.curr
<1> DEFINE tk2 == [tk EXCEPT ![t] = rec]
<1>1. tk \in [Tasks -> Task] /\ q.on_rq \in SUBSET Tasks
  BY DEF StateRight, QueuesRight, RunQueue
<1>2. tk2 \in [Tasks -> Task] /\ \A u \in q.on_rq : tk2[u] = tk[u]
  BY <1>1
<1> HIDE DEF tk2
<1>3. SameQueued(tk, tk2, q)
  BY <1>2 DEF SameQueued
<1>4. \A u \in q.on_rq : tk2[u].state \notin {"unborn", "new"}
  BY <1>1, <1>2 DEF StateRight
<1> QED BY <1>2, <1>3, <1>4, OffChanged DEF tk2

\* A queued task is dequeued, changes but for its state, and is enqueued.
LEMMA QueuedChanged ==
  ASSUME NEW tk, NEW q, StateRight(tk, q), NEW t \in q.on_rq,
         NEW tk2 \in [Tasks -> Task], \A u \in Tasks \ {t} : tk2[u] = tk[u],
         tk2[t].state = tk[t].state, Queueable(tk2, t),
         NEW d, NEW out, SoftStep(d, out), NEW m,
         \/ d = deactivate_task(tk, q, t) /\ m = activate_task(tk2, out, t)
         \/ d = dequeue_task(tk, q, t) /\ m = enqueue_task(tk2, out, t),
         NEW r, SoftStep(m, r)
  PROVE  StateRight(tk2, r) /\ r.curr = q.curr
<1>1. tk \in [Tasks -> Task] /\ QueuesRight(tk, q) /\ q.on_rq \in SUBSET Tasks /\ t \in Tasks
  BY DEF StateRight, QueuesRight, RunQueue
<1>2. q.nr_running \in Int
  BY <1>1 DEF QueuesRight, RunQueue
<1>3. QueuesRight(tk2, m) /\ m.on_rq = q.on_rq /\ m.curr = q.curr
      /\ m.nr_running = q.nr_running
  <2>1. CASE d = deactivate_task(tk, q, t) /\ m = activate_task(tk2, out, t)
    <3>1. d.nr_running = q.nr_running - 1
      BY <1>1, <2>1, DeactivateTask
    <3> QED BY <1>1, <1>2, <2>1, <3>1, OutChangedIn
  <2>2. CASE d = dequeue_task(tk, q, t) /\ m = enqueue_task(tk2, out, t)
    <3>1. d.nr_running = q.nr_running
      BY <1>1, <2>2, DequeueTask
    <3> QED BY <1>1, <1>2, <2>2, <3>1, OutChangedIn
  <2> QED BY <2>1, <2>2
<1>4. QueuesRight(tk2, r) /\ r.on_rq = q.on_rq /\ r.curr = q.curr
      /\ r.nr_running = q.nr_running
  BY <1>3, SoftKeeps DEF SoftStep
<1>5. \A u \in Tasks : tk2[u].state = tk[u].state
  OBVIOUS
<1> QED BY <1>4, <1>5 DEF StateRight

\* A task off the run queue starts or wakes.
LEMMA TaskWoken ==
  ASSUME NEW tk, NEW q, StateRight(tk, q), NEW t \in Tasks \ q.on_rq,
         NEW tk2 \in [Tasks -> Task], \A u \in Tasks \ {t} : tk2[u] = tk[u],
         tk2[t].state = "running", Queueable(tk2, t),
         NEW r, SoftStep(activate_task(tk2, q, t), r)
  PROVE  StateRight(tk2, r) /\ r.curr = q.curr
<1> DEFINE m == activate_task(tk2, q, t)
<1>1. tk \in [Tasks -> Task] /\ QueuesRight(tk, q) /\ q.on_rq \in SUBSET Tasks
  BY DEF StateRight, QueuesRight, RunQueue
<1>2. SameQueued(tk, tk2, q)
  BY <1>1 DEF SameQueued
<1>3. QueuesRight(tk2, q)
  BY <1>1, <1>2, TasksChange
<1>4. /\ QueuesRight(tk2, m) /\ m.on_rq = q.on_rq \cup {t}
      /\ m.curr = q.curr /\ m.nr_running = q.nr_running + 1
  BY <1>3, ActivateTask
<1> HIDE DEF m
<1>5. /\ QueuesRight(tk2, r) /\ r.on_rq = q.on_rq \cup {t}
      /\ r.curr = q.curr /\ r.nr_running = q.nr_running + 1
  BY <1>4, SoftKeeps DEF SoftStep, m
<1>6. r.nr_running = Cardinality(r.on_rq)
  BY <1>1, <1>5, CountTask DEF StateRight
<1>7. \A u \in Tasks : tk2[u].state \in {"unborn", "new"} => u \notin r.on_rq
  BY <1>5 DEF StateRight
<1> QED BY <1>5, <1>6, <1>7 DEF StateRight

\* A handler that ends in Commit keeps the invariant when each outcome without a
\* memory error does.
LEMMA CommitKeeps ==
  ASSUME Inv, NEW err, NEW tk, NEW outcomes, Commit(err, tk, outcomes),
         err \in {"none", "array_index", "bucket_index"},
         err = "none" => \A r \in outcomes : StateRight(tk, r) /\ r.curr = rq.curr
  PROVE  StateRight(task', rq') /\ rq'.curr = rq.curr /\ FaultType'
BY DEF Inv, Commit, FaultType
-----------------------------------------------------------------------------
(* Every action keeps the invariant.                                       *)

\* sched_setscheduler under the lock: a queued task goes out, changes and comes
\* in again, whichever class the call had read.
LEMMA SetschedulerStep ==
  ASSUME Inv, NEW t \in Tasks, NEW pol \in UserPolicies, NEW rtprio \in RtPrios,
         NEW bucket \in BucketArgs(pol), NEW prevClass,
         SetUnderLock(t, pol, rtprio, bucket, prevClass)
  PROVE  Inv' /\ rq'.curr = rq.curr
<1> DEFINE d == deactivate_task(task, rq, t)
           out == PutIfRunning(task, d, t)
           off == PutIfRunning(task, rq, t)
           rec == __setscheduler(task[t], pol, rtprio, bucket, pi[t])
           tk == [task EXCEPT ![t] = rec]
           placed == AssignBucket(tk, out, t)
           queued == activate_task(placed, out, t)
           err == EnqueueFault(tk, out, t)
           outcomes == check_class_changed(placed, queued, t, prevClass, task[t].prio)
<1>1. StateRight(task, rq) /\ task \in [Tasks -> Task] /\ QueuesRight(task, rq)
      /\ rq \in RunQueue /\ pi \in [Tasks -> 0 .. MAX_PRIO]
  BY DEF Inv, StateRight, QueuesRight
<1>2. rec \in Task /\ rec.state = task[t].state
  <2>1. bucket \in Int /\ pol \in Policies
    BY UserBucketsAssumption, PoliciesAssumption DEF BucketArgs
  <2> QED BY <1>1, <2>1, SetschedulerTyped
<1> HIDE DEF rec
<1>3. tk \in [Tasks -> Task] /\ tk[t].state = task[t].state
      /\ \A u \in Tasks \ {t} : tk[u] = task[u]
  BY <1>1, <1>2
<1> HIDE DEF tk
<1>4. StateRight(task', rq') /\ rq'.curr = rq.curr /\ FaultType'
  <2>1. CASE t \in rq.on_rq
    <3>1. Commit(err, placed, outcomes)
      BY <2>1 DEF SetUnderLock, rec, tk
    <3>2. d \in RunQueue
      BY <1>1, <2>1, DeactivateTask DEF QueuesRight
    <3> HIDE DEF d
    <3>3. SoftStep(d, out)
      BY <3>2, SoftPut
    <3> HIDE DEF out
    <3>4. /\ placed \in [Tasks -> Task] /\ placed[t].state = task[t].state
          /\ \A u \in Tasks \ {t} : placed[u] = task[u]
          /\ err = "none" => Queueable(placed, t)
      BY <1>3, Placed
    <3>5. err \in {"none", "array_index", "bucket_index"}
      BY FaultTyped
    <3> HIDE DEF placed, err
    <3>6. ASSUME err = "none", NEW r \in outcomes
        PROVE  StateRight(placed, r) /\ r.curr = rq.curr
      <4>1. queued \in RunQueue
        BY <1>1, <2>1, <3>3, <3>4, <3>6, OutChangedIn DEF QueuesRight, d
      <4>2. SoftStep(queued, r)
        <5> HIDE DEF queued
        <5> QED BY <3>4, <3>6, <4>1, SoftCheck
      <4> QED BY <1>1, <2>1, <3>3, <3>4, <3>6, <4>2, QueuedChanged DEF d
    <3> HIDE DEF outcomes
    <3> QED BY <3>1, <3>5, <3>6, CommitKeeps
  <2>2. CASE t \notin rq.on_rq
    <3>1. task' = tk /\ rq' = off /\ fault' = "none"
      BY <2>2 DEF SetUnderLock, Keep, rec, tk
    <3>2. SoftStep(rq, off)
      BY <1>1, SoftPut
    <3> HIDE DEF off
    <3>3. StateRight(tk, off) /\ off.curr = rq.curr
      BY <1>1, <1>2, <2>2, <3>2, OneOffChanged DEF tk
    <3> QED BY <3>1, <3>3 DEF FaultType
  <2> QED BY <2>1, <2>2
<1>5. pi' = pi
  BY DEF SetUnderLock
<1> QED BY <1>1, <1>4, <1>5 DEF Inv, FaultType

\* rt_mutex_setprio, the part of PiChange that touches the run queue.
LEMMA SetprioStep ==
  ASSUME Inv, NEW t \in Tasks, NEW prio \in TaskPrios, rt_mutex_setprio(t, prio)
  PROVE  StateRight(task', rq') /\ rq'.curr = rq.curr /\ FaultType'
<1> DEFINE d == dequeue_task(task, rq, t)
           out == PutIfRunning(task, d, t)
           off == PutIfRunning(task, rq, t)
           rec == Reprioritised(task[t], prio)
           tk == [task EXCEPT ![t] = rec]
           queued == enqueue_task(tk, out, t)
           err == EnqueueFault(tk, out, t)
           outcomes == check_class_changed(tk, queued, t, task[t].class, task[t].prio)
<1>1. StateRight(task, rq) /\ task \in [Tasks -> Task] /\ QueuesRight(task, rq)
      /\ rq \in RunQueue
  BY DEF Inv, StateRight, QueuesRight
<1>2. rec \in Task /\ rec.state = task[t].state
  BY <1>1, ReprioritisedTyped
<1> HIDE DEF rec
<1>3. tk \in [Tasks -> Task] /\ tk[t].state = task[t].state
      /\ \A u \in Tasks \ {t} : tk[u] = task[u]
  BY <1>1, <1>2
<1> HIDE DEF tk
<1>4. CASE t \in rq.on_rq
  <2>1. Commit(err, tk, outcomes)
    BY <1>4 DEF rt_mutex_setprio, rec, tk
  <2>2. d \in RunQueue
    BY <1>1, <1>4, DequeueTask DEF QueuesRight
  <2> HIDE DEF d
  <2>3. SoftStep(d, out)
    BY <2>2, SoftPut
  <2> HIDE DEF out
  <2>4. err = "none" => Queueable(tk, t)
    BY <1>3, Placed
  <2>5. err \in {"none", "array_index", "bucket_index"}
    BY FaultTyped
  <2> HIDE DEF err
  <2>6. ASSUME err = "none", NEW r \in outcomes
        PROVE  StateRight(tk, r) /\ r.curr = rq.curr
    <3>1. queued \in RunQueue
      BY <1>1, <1>3, <1>4, <2>3, <2>4, <2>6, OutChangedIn DEF QueuesRight, d
    <3>2. SoftStep(queued, r)
      <4> HIDE DEF queued
      <4> QED BY <1>3, <2>6, <3>1, SoftCheck
    <3> QED BY <1>1, <1>3, <1>4, <2>3, <2>4, <2>6, <3>2, QueuedChanged DEF d
  <2> HIDE DEF outcomes
  <2> QED BY <2>1, <2>5, <2>6, CommitKeeps
<1>5. CASE t \notin rq.on_rq
  <2>1. task' = tk /\ rq' = off /\ fault' = "none"
    BY <1>5 DEF rt_mutex_setprio, Keep, rec, tk
  <2>2. SoftStep(rq, off)
    BY <1>1, SoftPut
  <2> HIDE DEF off
  <2>3. StateRight(tk, off) /\ off.curr = rq.curr
    BY <1>1, <1>2, <1>5, <2>2, OneOffChanged DEF tk
  <2> QED BY <2>1, <2>3 DEF FaultType
<1> QED BY <1>4, <1>5

\* A waiter that comes or goes: the owner changes priority, and maybe class.
LEMMA PiChangeStep ==
  ASSUME Inv, NEW t \in Tasks, NEW waiter \in PiPrios \cup {MAX_PRIO},
         PiChange(t, waiter)
  PROVE  Inv' /\ rq'.curr = rq.curr
<1> DEFINE prio == rt_mutex_getprio(task[t], waiter)
<1>1. waiter \in 0 .. MAX_PRIO
  BY PiPriosAssumption, PrioAssumption DEF TaskPrios
<1>2. task[t].normal_prio \in TaskPrios
  BY DEF Inv, StateRight, Task
<1>3. prio \in TaskPrios
  BY <1>1, <1>2, PrioTypes DEF rt_mutex_getprio
<1>4. pi' \in [Tasks -> 0 .. MAX_PRIO]
  BY <1>1 DEF PiChange, Inv
<1>5. CASE prio = task[t].prio
  BY <1>4, <1>5 DEF PiChange, Inv, FaultType
<1>6. CASE prio # task[t].prio
  <2>1. rt_mutex_setprio(t, prio)
    BY <1>6 DEF PiChange
  <2> HIDE DEF prio
  <2> QED BY <1>3, <1>4, <2>1, SetprioStep DEF Inv, FaultType
<1> QED BY <1>5, <1>6

\* set_user_nice past its check, as set_user_nice and normalize_task call it.
LEMMA SetNiceStep ==
  ASSUME Inv, NEW t \in Tasks, NEW static \in StaticPrios, SetNice(t, static)
  PROVE  StateRight(task', rq') /\ rq'.curr = rq.curr /\ FaultType'
<1> DEFINE d == dequeue_task(task, rq, t)
           rec0 == [task[t] EXCEPT !.static_prio = static]
           rec == effective_prio(rec0)
           tk == [task EXCEPT ![t] = rec]
           err == EnqueueFault(tk, d, t)
           placed == AssignBucket(tk, d, t)
           queued == enqueue_task(placed, d, t)
<1>1. StateRight(task, rq) /\ task \in [Tasks -> Task] /\ QueuesRight(task, rq)
      /\ rq \in RunQueue
  BY DEF Inv, StateRight, QueuesRight
<1>2. rec0 \in Task /\ rec0.state = task[t].state /\ rec0.prio = task[t].prio
      /\ rec0.normal_prio = task[t].normal_prio /\ rec0.class = task[t].class
      /\ rec0.bid = task[t].bid
  BY <1>1, StaticPriosAssumption DEF Task
<1>3. CASE task_has_rt_policy(task, t)
  <2> DEFINE tk0 == [task EXCEPT ![t] = rec0]
  <2>1. task' = tk0 /\ rq' = rq /\ fault' = fault
    BY <1>1, <1>3 DEF SetNice
  <2> HIDE DEF rec0
  <2>2. /\ tk0 \in [Tasks -> Task] /\ tk0[t] = rec0
        /\ \A u \in Tasks \ {t} : tk0[u] = task[u]
    BY <1>1, <1>2
  <2> HIDE DEF tk0
  <2>3. rq.on_rq \in SUBSET Tasks
    BY <1>1 DEF RunQueue
  <2>4. SameQueued(task, tk0, rq)
    BY <1>2, <2>2, <2>3 DEF SameQueued
  <2>5. \A u \in rq.on_rq : tk0[u].state \notin {"unborn", "new"}
    BY <1>1, <1>2, <2>2, <2>3 DEF StateRight
  <2>6. StateRight(tk0, rq) 
    BY <1>1, <2>2, <2>4, <2>5, OffChanged, SoftSelf
  <2> QED BY <2>1, <2>6 DEF Inv, FaultType
<1>4. rec \in Task /\ rec.state = task[t].state
  <2> HIDE DEF rec0
  <2> QED BY <1>2, EffectiveTyped
<1>5. CASE ~ task_has_rt_policy(task, t) /\ t \in rq.on_rq
  <2> DEFINE cond == \/ tk[t].prio < task[t].prio
                     \/ (tk[t].prio > task[t].prio /\ rq.curr = t)
             last == ReschedIf(cond, queued)
  <2>1. Commit(err, placed, {last})
    BY <1>5 DEF SetNice
  <2> HIDE DEF rec, cond
  <2>2. /\ tk \in [Tasks -> Task] /\ tk[t].state = task[t].state
        /\ \A u \in Tasks \ {t} : tk[u] = task[u]
    BY <1>1, <1>4
  <2> HIDE DEF tk
  <2>3. d \in RunQueue
    BY <1>1, <1>5, DequeueTask DEF QueuesRight
  <2>4. SoftStep(d, d)
    BY <2>3, SoftSelf
  <2> HIDE DEF d
  <2>5. /\ placed \in [Tasks -> Task] /\ placed[t].state = task[t].state
        /\ \A u \in Tasks \ {t} : placed[u] = task[u]
        /\ err = "none" => Queueable(placed, t)
    BY <2>2, Placed
  <2>6. err \in {"none", "array_index", "bucket_index"}
    BY FaultTyped
  <2> HIDE DEF placed, err
  <2>7. ASSUME err = "none" PROVE StateRight(placed, last) /\ last.curr = rq.curr
    <3>1. queued \in RunQueue
      BY <1>1, <1>5, <2>4, <2>5, <2>7, OutChangedIn DEF QueuesRight, d
    <3>2. SoftStep(queued, last)
      <4> HIDE DEF queued
      <4> QED BY <3>1, SoftReschedIf
    <3> QED BY <1>1, <1>5, <2>4, <2>5, <2>7, <3>2, QueuedChanged DEF d
  <2> HIDE DEF last
  <2> QED BY <2>1, <2>6, <2>7, CommitKeeps
<1>6. CASE ~ task_has_rt_policy(task, t) /\ t \notin rq.on_rq
  <2>1. task' = tk /\ rq' = rq /\ fault' = "none"
    BY <1>6 DEF SetNice, Keep
  <2> HIDE DEF rec
  <2>2. StateRight(tk, rq)
    BY <1>1, <1>4, <1>6, SoftSelf, OneOffChanged
  <2> QED BY <2>1, <2>2 DEF FaultType
<1> QED BY <1>3, <1>5, <1>6

\* set_user_nice.
LEMMA NiceStep ==
  ASSUME Inv, NEW t \in Tasks, NEW static \in StaticPrios, set_user_nice(t, static)
  PROVE  Inv' /\ rq'.curr = rq.curr
<1>1. SetNice(t, static) /\ pi' = pi
  BY DEF set_user_nice
<1> QED BY <1>1, SetNiceStep DEF Inv, FaultType

\* One task of normalize_rt_tasks.
LEMMA NormalizeStep ==
  ASSUME Inv, NEW t \in Tasks, normalize_task(t)
  PROVE  Inv' /\ rq'.curr = rq.curr
<1> DEFINE d == deactivate_task(task, rq, t)
           rec == __setscheduler(task[t], "NORMAL", 0, 0, pi[t])
           tk == [task EXCEPT ![t] = rec]
           queued == activate_task(tk, d, t)
           last == resched_task(queued, rq.curr)
<1>1. StateRight(task, rq) /\ task \in [Tasks -> Task] /\ QueuesRight(task, rq)
      /\ rq \in RunQueue /\ pi \in [Tasks -> 0 .. MAX_PRIO]
  BY DEF Inv, StateRight, QueuesRight
<1>2. pi' = pi
  BY DEF normalize_task
<1>3. rec \in Task /\ rec.state = task[t].state
  BY <1>1, SetschedulerTyped, PrioAssumption DEF Policies, RtPrios
<1>4. CASE SetNice(t, DEFAULT_PRIO)
  BY <1>2, <1>4, StaticPriosAssumption, SetNiceStep DEF Inv, FaultType
<1>5. CASE Keep(tk, IF t \in rq.on_rq THEN last ELSE rq)
  <2>1. CASE t \notin rq.on_rq
    <3>1. task' = tk /\ rq' = rq /\ fault' = "none"
      BY <1>5, <2>1 DEF Keep
    <3> HIDE DEF rec
    <3>2. StateRight(tk, rq)
      BY <1>1, <1>3, <2>1, SoftSelf, OneOffChanged
    <3> QED BY <1>1, <1>2, <3>1, <3>2 DEF Inv, FaultType
  <2>2. CASE t \in rq.on_rq
    <3>1. task' = tk /\ rq' = last /\ fault' = "none"
      BY <1>5, <2>2 DEF Keep
    <3>2. tk[t].class = "fair"
      BY <1>1 DEF __setscheduler, ClassOf, Task
    <3> HIDE DEF rec
    <3>3. /\ tk \in [Tasks -> Task] /\ tk[t].state = task[t].state
          /\ \A u \in Tasks \ {t} : tk[u] = task[u]
      BY <1>1, <1>3
    <3>4. Queueable(tk, t)
      BY <3>2 DEF Queueable
    <3> HIDE DEF tk
    <3>5. d \in RunQueue
      BY <1>1, <2>2, DeactivateTask DEF QueuesRight
    <3>6. SoftStep(d, d)
      BY <3>5, SoftSelf
    <3>7. queued \in RunQueue
      BY <1>1, <2>2, <3>3, <3>4, <3>6, OutChangedIn DEF QueuesRight
    <3>8. SoftStep(queued, last)
      <4>1. rq.curr \in Tasks \cup {Idle}
        BY <1>1 DEF RunQueue
      <4> HIDE DEF queued
      <4> QED BY <3>7, <4>1, SoftResched
    <3> HIDE DEF last
    <3>9. StateRight(tk, last) /\ last.curr = rq.curr
      BY <1>1, <2>2, <3>3, <3>4, <3>6, <3>8, QueuedChanged
    <3> QED BY <1>1, <1>2, <3>1, <3>9 DEF Inv, FaultType
  <2> QED BY <2>1, <2>2
<1> QED BY <1>4, <1>5 DEF normalize_task

\* Moving a task to the tail of its queue keeps the queues right.
LEMMA RequeueKeeps ==
  ASSUME NEW tk \in [Tasks -> Task], NEW q, QueuesRight(tk, q), NEW t,
         NEW r, r = requeue_rt_entity(tk, q, t)
  PROVE  /\ QueuesRight(tk, r) /\ r.on_rq = q.on_rq
         /\ r.curr = q.curr /\ r.nr_running = q.nr_running
<1>1. CASE t \notin q.linked
  BY <1>1 DEF requeue_rt_entity
<1>2. CASE t \in q.linked
  <2> DEFINE p == tk[t].prio
             left == RemoveFirst(q.queue[p], t)
             moved == Append(left, t)
             queues == [q.queue EXCEPT ![p] = moved]
  <2>1. q \in RunQueue /\ RtInv(tk, q) /\ ListsMatch(tk, q) /\ ClassesMatch(tk, q)
    BY DEF QueuesRight, RtInv
  <2>2. t \in Tasks /\ p \in RtPrios
    BY <1>2, <2>1, PrioAssumption DEF RunQueue, ListsMatch, rt_prio, RtPrios, Task, TaskPrios
  <2>3. /\ q.queue \in [RtPrios -> Seq(Tasks)] /\ q.queue[p] \in Seq(Tasks)
        /\ IsInjective(q.queue[p]) /\ t \in ToSet(q.queue[p]) /\ q.queue[p] # <<>>
    <3>1. ToSet(q.queue[p]) = {u \in q.linked : tk[u].prio = p} /\ IsInjective(q.queue[p])
      BY <2>1, <2>2 DEF ListsMatch
    <3>2. q.queue \in [RtPrios -> Seq(Tasks)]
      BY <2>1 DEF RunQueue
    <3>3. t \in ToSet(q.queue[p])
      BY <1>2, <3>1
    <3> QED BY <2>2, <3>1, <3>2, <3>3 DEF ToSet
  <2>4. left \in Seq(Tasks) /\ IsInjective(left) /\ ToSet(left) = ToSet(q.queue[p]) \ {t}
    BY <2>3, RemoveOnce
  <2> HIDE DEF left
  <2>5. /\ moved \in Seq(Tasks) /\ moved # <<>> /\ IsInjective(moved)
        /\ ToSet(moved) = ToSet(q.queue[p])
    <3>1. moved \in Seq(Tasks)
      BY <2>2, <2>4, AppendProperties
    <3>2. moved # <<>> /\ IsInjective(moved) /\ ToSet(moved) = ToSet(left) \cup {t}
      BY <2>2, <2>4, AppendFresh
    <3> QED BY <2>3, <2>4, <3>1, <3>2
  <2>6. r = [q EXCEPT !.queue = queues]
    BY <1>2 DEF requeue_rt_entity, left
  <2> HIDE DEF moved
  <2>7. /\ queues \in [RtPrios -> Seq(Tasks)] /\ queues[p] = moved
        /\ \A k \in RtPrios : k # p => queues[k] = q.queue[k]
    BY <2>2, <2>3, <2>5
  <2> HIDE DEF queues
  <2>8. /\ r \in RunQueue /\ r.queue = queues /\ r.bitmap = q.bitmap /\ r.linked = q.linked
        /\ r.rt_nr_running = q.rt_nr_running /\ r.rt_nr_boosted = q.rt_nr_boosted
        /\ r.highest_prio = q.highest_prio /\ r.numInBucket = q.numInBucket
        /\ r.cfs = q.cfs /\ r.on_rq = q.on_rq /\ r.curr = q.curr
        /\ r.nr_running = q.nr_running
    BY <2>1, <2>6, <2>7 DEF RunQueue
  <2>9. ListsMatch(tk, r)
    <3>1. ASSUME NEW k \in RtPrios
          PROVE  /\ k \in r.bitmap <=> r.queue[k] # <<>>
                 /\ IsInjective(r.queue[k])
                 /\ ToSet(r.queue[k]) = {u \in r.linked : tk[u].prio = k}
      <4>1. CASE k = p
        BY <4>1, <2>1, <2>2, <2>3, <2>5, <2>7, <2>8 DEF ListsMatch
      <4>2. CASE k # p
        BY <4>2, <2>1, <2>7, <2>8 DEF ListsMatch
      <4> QED BY <4>1, <4>2
    <3> QED BY <3>1, <2>1, <2>8 DEF ListsMatch
  <2>10. RtInv(tk, r)
    BY <2>1, <2>8, <2>9 DEF RtInv, RtCountsMatch, BoostedOf, HighestOf, BucketCountsOf, InBucket
  <2>11. ClassesMatch(tk, r)
    BY <2>1, <2>8 DEF ClassesMatch
  <2> QED BY <2>8, <2>10, <2>11 DEF QueuesRight
<1> QED BY <1>1, <1>2

\* The pick is idle or a queued task, and when the real-time tasks may run it is
\* one of them, with the best priority.
LEMMA PickedQueued ==
  ASSUME NEW tk \in [Tasks -> Task], NEW q, QueuesRight(tk, q),
         q.nr_running = Cardinality(q.on_rq), NEW next \in pick_next_task(q)
  PROVE  /\ next = Idle \/ next \in q.on_rq
         /\ q.linked # {} /\ ~ rt_rq_throttled(q) =>
              next \in q.linked /\ \A u \in q.linked : tk[next].prio <= tk[u].prio
<1>1. q \in RunQueue /\ ListsMatch(tk, q) /\ RtCountsMatch(tk, q) /\ ClassesMatch(tk, q)
  BY DEF QueuesRight, RtInv
<1>2. /\ q.linked \in SUBSET Tasks /\ q.cfs \in SUBSET Tasks /\ q.on_rq \in SUBSET Tasks
      /\ \A u \in Tasks : u \in q.cfs => u \in q.on_rq
      /\ \A u \in Tasks : u \in q.linked => u \in q.on_rq /\ u \notin q.cfs
  BY <1>1 DEF RunQueue, ClassesMatch
<1>3. q.rt_nr_running = 0 <=> q.linked = {}
  BY <1>1, <1>2, CountTask DEF RtCountsMatch
<1> DEFINE head == Head(q.queue[FirstBit(q.bitmap)])
<1>4. q.linked # {} => /\ head \in q.linked
                       /\ \A u \in q.linked : tk[head].prio <= tk[u].prio
  BY <1>1, FirstQueue
<1>5. pick_next_task_rt(q) = IF q.linked = {} \/ rt_rq_throttled(q) THEN {} ELSE {head}
  BY <1>3 DEF pick_next_task_rt
<1> HIDE DEF head
<1>6. q.nr_running = Cardinality(q.cfs) => q.linked = {}
  <2> SUFFICES ASSUME q.nr_running = Cardinality(q.cfs) PROVE q.linked = {}
    OBVIOUS
  <2>1. IsFiniteSet(q.on_rq) /\ q.cfs \subseteq q.on_rq
    BY <1>2, TasksAssumption, FS_Subset
  <2>2. q.cfs = q.on_rq
    BY <2>1, FS_Subset
  <2> QED BY <1>2, <2>2
<1>7. next = Idle \/ next \in q.on_rq
  BY <1>2, <1>4, <1>5 DEF pick_next_task
<1>8. ASSUME q.linked # {}, ~ rt_rq_throttled(q) PROVE next = head
  BY <1>5, <1>6, <1>8 DEF pick_next_task
<1> QED BY <1>4, <1>7, <1>8

\* What schedule does to the run queue, in the order of the code.
LEMMA ScheduleStep ==
  ASSUME Inv, NEW preempt \in BOOLEAN, NEW signal \in BOOLEAN,
         schedule(preempt, signal)
  PROVE  /\ Inv'
         /\ rq'.linked # {} /\ ~ rt_rq_throttled(rq') =>
              \A u \in rq'.linked : CurrPrio(task', rq') <= task'[u].prio
<1> DEFINE prev == rq.curr
           cleared == [rq EXCEPT !.resched = rq.resched \ {prev}]
           sleeps == prev # Idle /\ task[prev].state = "sleeping" /\ ~ preempt
           out == IF sleeps /\ ~ signal THEN deactivate_task(task, cleared, prev)
                  ELSE cleared
           put == put_prev_task(task, out, prev)
           woken == [task EXCEPT ![prev].state = "running"]
<1>1. StateRight(task, rq) /\ task \in [Tasks -> Task] /\ QueuesRight(task, rq)
      /\ rq \in RunQueue
  BY DEF Inv, StateRight, QueuesRight
<1>2. PICK next \in pick_next_task(put) : rq' = [put EXCEPT !.curr = next]
  BY DEF schedule
<1>3. /\ task' = IF sleeps /\ signal THEN woken ELSE task
      /\ pi' = pi /\ fault' = fault
  BY DEF schedule
<1>4. SoftStep(rq, cleared)
  <2> DEFINE flags == rq.resched \ {prev}
  <2>1. flags \in SUBSET (Tasks \cup {Idle})
    BY <1>1 DEF RunQueue
  <2> HIDE DEF flags
  <2>2. cleared \in RunQueue
    BY <1>1, <2>1 DEF RunQueue, flags
  <2> QED BY <1>1, <2>2 DEF SoftStep, SameRt, RunQueue
<1> HIDE DEF cleared
<1>5. QueuesRight(task, cleared) /\ cleared.on_rq = rq.on_rq /\ cleared.nr_running = rq.nr_running
  BY <1>1, <1>4, SoftKeeps DEF SoftStep
<1>6. rq.on_rq \in SUBSET Tasks /\ rq.nr_running = Cardinality(rq.on_rq)
  BY <1>1 DEF RunQueue, StateRight
<1>7. /\ QueuesRight(task, out) /\ out.on_rq \subseteq rq.on_rq
      /\ out.nr_running = Cardinality(out.on_rq)
  <2>1. CASE sleeps /\ ~ signal
    <3>1. prev \in cleared.on_rq
      BY <1>1, <1>5, <2>1 DEF StateRight
    <3>2. /\ QueuesRight(task, out) /\ out.on_rq = cleared.on_rq \ {prev}
          /\ out.nr_running = cleared.nr_running - 1
      BY <1>1, <1>5, <2>1, <3>1, DeactivateTask
    <3> QED BY <1>5, <1>6, <3>1, <3>2, CountTask
  <2>2. CASE ~ (sleeps /\ ~ signal)
    BY <1>5, <1>6, <2>2
  <2> QED BY <2>1, <2>2
<1> HIDE DEF out
<1>8. SoftStep(out, put)
  BY <1>7, SoftPut DEF QueuesRight
<1> HIDE DEF put
<1>9. /\ QueuesRight(task, put) /\ put.on_rq \subseteq rq.on_rq
      /\ put.nr_running = Cardinality(put.on_rq)
  BY <1>7, <1>8, SoftKeeps DEF SoftStep
<1>10. /\ next = Idle \/ next \in put.on_rq
       /\ put.linked # {} /\ ~ rt_rq_throttled(put) =>
            next \in put.linked /\ \A u \in put.linked : task[next].prio <= task[u].prio
  BY <1>1, <1>2, <1>9, PickedQueued
<1>11. put \in RunQueue /\ put.on_rq \in SUBSET Tasks /\ put.linked \in SUBSET Tasks
  BY <1>9 DEF QueuesRight, RunQueue
<1>12. /\ rq' \in RunQueue /\ SameRt(put, rq') /\ rq'.cfs = put.cfs /\ rq'.on_rq = put.on_rq
       /\ rq'.nr_running = put.nr_running /\ rq'.curr = next
       /\ rq'.rt_throttled = put.rt_throttled
  <2>1. next \in Tasks \cup {Idle}
    BY <1>10, <1>11
  <2>2. rq' \in RunQueue
    BY <1>2, <1>11, <2>1 DEF RunQueue
  <2> QED BY <1>2, <1>11, <2>2 DEF RunQueue, SameRt
<1>13. QueuesRight(task, rq')
  <2>1. RtInv(task, rq')
    BY <1>9, <1>12, SameRtInv DEF QueuesRight
  <2>2. ClassesMatch(task, rq')
    BY <1>9, <1>12 DEF QueuesRight, ClassesMatch, SameRt
  <2> QED BY <1>12, <2>1, <2>2 DEF QueuesRight
<1>14. StateRight(task, rq')
  BY <1>1, <1>9, <1>10, <1>12, <1>13 DEF StateRight
<1>15. /\ task' \in [Tasks -> Task]
       /\ \A u \in Tasks : /\ task'[u].prio = task[u].prio
                           /\ task'[u].normal_prio = task[u].normal_prio
                           /\ task'[u].class = task[u].class
                           /\ task'[u].bid = task[u].bid
                           /\ task'[u].state \in {"unborn", "new"} =>
                                task[u].state \in {"unborn", "new"}
  <2>1. CASE sleeps /\ signal
    <3>1. prev \in Tasks /\ task' = woken
      BY <1>1, <1>3, <2>1 DEF RunQueue
    <3> DEFINE rec == [task[prev] EXCEPT !.state = "running"]
    <3>2. /\ rec \in Task /\ rec.prio = task[prev].prio
          /\ rec.normal_prio = task[prev].normal_prio
          /\ rec.class = task[prev].class /\ rec.bid = task[prev].bid
          /\ rec.state = "running"
      BY <1>1, <3>1 DEF Task, States
    <3>3. task' = [task EXCEPT ![prev] = rec]
      BY <3>1
    <3> HIDE DEF rec
    <3> QED BY <1>1, <3>1, <3>2, <3>3
  <2>2. CASE ~ (sleeps /\ signal)
    BY <1>1, <1>3, <2>2
  <2> QED BY <2>1, <2>2
<1>16. StateRight(task', rq')
  <2>1. rq'.on_rq \in SUBSET Tasks
    BY <1>11, <1>12
  <2>2. SameQueued(task, task', rq')
    BY <1>15, <2>1 DEF SameQueued
  <2>3. \A u \in rq'.on_rq : task'[u].state \notin {"unborn", "new"}
    BY <1>14, <1>15, <2>1 DEF StateRight
  <2>4. SoftStep(rq', rq')
    BY <1>12, SoftSelf
  <2> QED BY <1>14, <1>15, <2>2, <2>3, <2>4, OffChanged
<1>17. ASSUME rq'.linked # {}, ~ rt_rq_throttled(rq')
       PROVE  \A u \in rq'.linked : CurrPrio(task', rq') <= task'[u].prio
  <2>1. put.linked # {} /\ ~ rt_rq_throttled(put) /\ rq'.linked = put.linked
    BY <1>12, <1>17 DEF SameRt, rt_rq_throttled
  <2>2. next \in Tasks /\ next # Idle
    BY <1>10, <1>11, <2>1, TasksAssumption
  <2>3. CurrPrio(task', rq') = task[next].prio
    BY <1>12, <1>15, <2>2 DEF CurrPrio
  <2> QED BY <1>10, <1>11, <1>15, <2>1, <2>3
<1>18. Inv'
  BY <1>3, <1>16 DEF Inv, FaultType
<1> QED BY <1>17, <1>18

\* The running task marks itself sleeping; it is still queued.
LEMMA SleepStep ==
  ASSUME Inv, prepare_to_sleep
  PROVE  Inv' /\ rq'.curr = rq.curr
<1> DEFINE t == rq.curr
           rec == [task[t] EXCEPT !.state = "sleeping"]
           tk == [task EXCEPT ![t] = rec]
<1>1. StateRight(task, rq) /\ task \in [Tasks -> Task] /\ rq \in RunQueue
      /\ t \in Tasks /\ rq.on_rq \in SUBSET Tasks
  BY DEF Inv, StateRight, QueuesRight, RunQueue, prepare_to_sleep, MayCall
<1>2. task' = tk /\ rq' = rq /\ pi' = pi /\ fault' = fault
  BY DEF prepare_to_sleep
<1>3. /\ rec \in Task /\ rec.prio = task[t].prio
      /\ rec.normal_prio = task[t].normal_prio
      /\ rec.class = task[t].class /\ rec.bid = task[t].bid
      /\ rec.state = "sleeping"
  BY <1>1 DEF Task, States
<1> HIDE DEF rec
<1>4. tk \in [Tasks -> Task] /\ SameQueued(task, tk, rq)
      /\ \A u \in rq.on_rq : tk[u].state \notin {"unborn", "new"}
  BY <1>1, <1>3 DEF SameQueued, StateRight
<1> HIDE DEF tk
<1>5. StateRight(tk, rq)
  BY <1>1, <1>4, SoftSelf, OffChanged
<1> QED BY <1>2, <1>5 DEF Inv, FaultType

\* A sleeping task wakes, whether it has left the run queue or not yet.
LEMMA WakeUpStep ==
  ASSUME Inv, NEW t \in Tasks, try_to_wake_up(t)
  PROVE  Inv' /\ rq'.curr = rq.curr
<1> DEFINE rec == [task[t] EXCEPT !.state = "running"]
           tk == [task EXCEPT ![t] = rec]
           placed == AssignBucket(tk, rq, t)
           err == EnqueueFault(tk, rq, t)
           queued == activate_task(placed, rq, t)
           outcomes == check_preempt_curr(placed, queued, t)
<1>1. StateRight(task, rq) /\ task \in [Tasks -> Task] /\ rq \in RunQueue
      /\ QueuesRight(task, rq) /\ rq.on_rq \in SUBSET Tasks
  BY DEF Inv, StateRight, QueuesRight, RunQueue
<1>2. pi' = pi
  BY DEF try_to_wake_up
<1>3. /\ rec \in Task /\ rec.prio = task[t].prio
      /\ rec.normal_prio = task[t].normal_prio
      /\ rec.class = task[t].class /\ rec.bid = task[t].bid
      /\ rec.state = "running"
  BY <1>1 DEF Task, States
<1>4. CASE t \in rq.on_rq
  <2>1. task' = tk /\ rq' \in check_preempt_curr(task, rq, t) /\ fault' = fault
    BY <1>4 DEF try_to_wake_up
  <2> HIDE DEF rec
  <2>2. tk \in [Tasks -> Task] /\ SameQueued(task, tk, rq)
        /\ \A u \in rq.on_rq : tk[u].state \notin {"unborn", "new"}
    BY <1>1, <1>3 DEF SameQueued, StateRight
  <2> HIDE DEF tk
  <2>3. SoftStep(rq, rq')
    BY <1>1, <2>1, SoftCheck
  <2>4. StateRight(tk, rq') /\ rq'.curr = rq.curr
    BY <1>1, <2>2, <2>3, OffChanged
  <2> QED BY <1>2, <2>1, <2>4 DEF Inv, FaultType
<1>5. CASE t \notin rq.on_rq
  <2>1. Commit(err, placed, outcomes)
    BY <1>5 DEF try_to_wake_up
  <2> HIDE DEF rec
  <2>2. /\ tk \in [Tasks -> Task] /\ tk[t].state = "running"
        /\ \A u \in Tasks \ {t} : tk[u] = task[u]
    BY <1>1, <1>3
  <2> HIDE DEF tk
  <2>3. /\ placed \in [Tasks -> Task] /\ placed[t].state = "running"
        /\ \A u \in Tasks \ {t} : placed[u] = task[u]
        /\ err = "none" => Queueable(placed, t)
    BY <2>2, Placed
  <2>4. err \in {"none", "array_index", "bucket_index"}
    BY FaultTyped
  <2> HIDE DEF placed, err
  <2>5. ASSUME err = "none", NEW r \in outcomes
        PROVE  StateRight(placed, r) /\ r.curr = rq.curr
    <3>1. queued \in RunQueue
      <4>1. SameQueued(task, placed, rq)
        BY <1>1, <1>5, <2>3 DEF SameQueued
      <4>2. QueuesRight(placed, rq)
        BY <1>1, <2>3, <4>1, TasksChange
      <4> QED BY <1>5, <2>3, <2>5, <4>2, ActivateTask DEF QueuesRight
    <3>2. SoftStep(queued, r)
      <4> HIDE DEF queued
      <4> QED BY <2>3, <2>5, <3>1, SoftCheck
    <3> QED BY <1>1, <1>5, <2>3, <2>5, <3>2, TaskWoken
  <2> HIDE DEF outcomes
  <2>6. StateRight(task', rq') /\ rq'.curr = rq.curr /\ FaultType'
    BY <2>1, <2>4, <2>5, CommitKeeps
  <2> QED BY <1>2, <2>6 DEF Inv, FaultType
<1> QED BY <1>4, <1>5

\* A child is made; it is not queued yet.
LEMMA ForkStep ==
  ASSUME Inv, NEW t \in Tasks, sched_fork(t)
  PROVE  Inv' /\ rq'.curr = rq.curr
<1> DEFINE rec == Child(task[rq.curr])
<1>1. StateRight(task, rq) /\ task \in [Tasks -> Task] /\ rq \in RunQueue
      /\ rq.curr \in Tasks /\ t \in Tasks \ rq.on_rq
  BY DEF Inv, StateRight, QueuesRight, RunQueue, sched_fork, MayCall
<1>2. rec \in Task
  BY <1>1, ChildTyped
<1>3. task' = [task EXCEPT ![t] = rec] /\ rq' = rq /\ pi' = pi /\ fault' = fault
  BY DEF sched_fork
<1> HIDE DEF rec
<1>4. StateRight(task', rq') /\ rq'.curr = rq.curr
  BY <1>1, <1>2, <1>3, SoftSelf, OneOffChanged
<1> QED BY <1>3, <1>4 DEF Inv, FaultType

\* A child is queued for the first time.
LEMMA WakeUpNewStep ==
  ASSUME Inv, NEW t \in Tasks, wake_up_new_task(t)
  PROVE  Inv' /\ rq'.curr = rq.curr
<1> DEFINE eff == effective_prio(task[t])
           rec == [eff EXCEPT !.state = "running"]
           tk == [task EXCEPT ![t] = rec]
           placed == AssignBucket(tk, rq, t)
           err == EnqueueFault(tk, rq, t)
           queued == activate_task(placed, rq, t)
           outcomes == check_preempt_curr(placed, queued, t)
<1>1. StateRight(task, rq) /\ task \in [Tasks -> Task] /\ rq \in RunQueue
      /\ QueuesRight(task, rq) /\ t \notin rq.on_rq /\ rq.on_rq \in SUBSET Tasks
  BY DEF Inv, StateRight, QueuesRight, RunQueue, wake_up_new_task
<1>2. Commit(err, placed, outcomes) /\ pi' = pi
  BY DEF wake_up_new_task
<1>3. rec \in Task /\ rec.state = "running"
  <2>1. eff \in Task
    BY <1>1, EffectiveTyped
  <2> HIDE DEF eff
  <2> QED BY <2>1 DEF Task, States
<1> HIDE DEF rec
<1>4. /\ tk \in [Tasks -> Task] /\ tk[t].state = "running"
      /\ \A u \in Tasks \ {t} : tk[u] = task[u]
  BY <1>1, <1>3
<1> HIDE DEF tk
<1>5. /\ placed \in [Tasks -> Task] /\ placed[t].state = "running"
      /\ \A u \in Tasks \ {t} : placed[u] = task[u]
      /\ err = "none" => Queueable(placed, t)
  BY <1>4, Placed
<1>6. err \in {"none", "array_index", "bucket_index"}
  BY FaultTyped
<1> HIDE DEF placed, err
<1>7. ASSUME err = "none", NEW r \in outcomes
        PROVE  StateRight(placed, r) /\ r.curr = rq.curr
  <2>1. queued \in RunQueue
    <3>1. SameQueued(task, placed, rq)
      BY <1>1, <1>5 DEF SameQueued
    <3>2. QueuesRight(placed, rq)
      BY <1>1, <1>5, <3>1, TasksChange
    <3> QED BY <1>1, <1>5, <1>7, <3>2, ActivateTask DEF QueuesRight
  <2>2. SoftStep(queued, r)
    <3> HIDE DEF queued
    <3> QED BY <1>5, <1>7, <2>1, SoftCheck
  <2> QED BY <1>1, <1>5, <1>7, <2>2, TaskWoken
<1> HIDE DEF outcomes
<1>8. StateRight(task', rq') /\ rq'.curr = rq.curr /\ FaultType'
  BY <1>2, <1>6, <1>7, CommitKeeps
<1> QED BY <1>2, <1>8 DEF Inv, FaultType

\* A real-time task yields to its queue.
LEMMA YieldStep ==
  ASSUME Inv, sched_yield
  PROVE  Inv' /\ rq'.curr = rq.curr
<1>1. StateRight(task, rq) /\ task \in [Tasks -> Task] /\ QueuesRight(task, rq)
  BY DEF Inv, StateRight
<1>2. /\ rq' = requeue_rt_entity(task, rq, rq.curr)
      /\ task' = task /\ pi' = pi /\ fault' = fault
  BY DEF sched_yield
<1>3. /\ QueuesRight(task, rq') /\ rq'.on_rq = rq.on_rq
      /\ rq'.curr = rq.curr /\ rq'.nr_running = rq.nr_running
  BY <1>1, <1>2, RequeueKeeps
<1>4. StateRight(task, rq') /\ rq'.curr = rq.curr
  BY <1>1, <1>3 DEF StateRight
<1> QED BY <1>2, <1>4 DEF Inv, FaultType

\* A tick charges the running task, and may move it to the tail and reload its
\* slice.
LEMMA TickStep ==
  ASSUME Inv, scheduler_tick
  PROVE  Inv' /\ rq'.curr = rq.curr
<1> DEFINE q0 == Elapse(rq)
           t == rq.curr
           q == update_curr_rt(task, q0, 1)
<1>1. StateRight(task, rq) /\ task \in [Tasks -> Task] /\ rq \in RunQueue
      /\ QueuesRight(task, rq) /\ rq.on_rq \in SUBSET Tasks
  BY DEF Inv, StateRight, QueuesRight, RunQueue
<1>2. pi' = pi /\ fault' = fault
  BY DEF scheduler_tick
<1>3. SoftStep(rq, q0) /\ q0 \in RunQueue
  BY <1>1, SoftElapse DEF SoftStep
<1>4. CASE TickRt
  <2>1. t \in Tasks
    BY <1>1, <1>4 DEF TickRt, RunQueue
  <2>2. SoftStep(rq, q)
    <3> HIDE DEF q0
    <3> QED BY <1>3, SoftCharge, SoftTwice
  <2>3. CASE rq' = q /\ UNCHANGED task
    <3> HIDE DEF q
    <3>1. StateRight(task, q) /\ q.curr = rq.curr
      <4>1. SameQueued(task, task, rq)
        BY DEF SameQueued
      <4>2. \A u \in rq.on_rq : task[u].state \notin {"unborn", "new"}
        BY <1>1 DEF StateRight
      <4> QED BY <1>1, <2>2, <4>1, <4>2, OffChanged
    <3> QED BY <1>2, <2>3, <3>1 DEF Inv, FaultType
  <2>4. CASE TickRoundRobin(q, t)
    <3> DEFINE rec == SliceAfterTick(task[t])
               tk == [task EXCEPT ![t] = rec]
               moved == requeue_rt_entity(task, q, t)
    <3>1. /\ task' = tk
          /\ rq' = q \/ rq' = resched_task(moved, t)
      BY <2>4 DEF TickRoundRobin
    <3>2. /\ rec \in Task /\ rec.prio = task[t].prio
          /\ rec.normal_prio = task[t].normal_prio
          /\ rec.class = task[t].class /\ rec.bid = task[t].bid
          /\ rec.state = task[t].state
      BY <1>1, <2>1, SliceTyped
    <3> HIDE DEF rec, q
    <3>3. /\ tk \in [Tasks -> Task]
          /\ SameQueued(task, tk, rq)
          /\ \A u \in rq.on_rq : tk[u].state \notin {"unborn", "new"}
      BY <1>1, <2>1, <3>2 DEF SameQueued, StateRight
    <3> HIDE DEF tk
    <3>4. StateRight(tk, q) /\ q.curr = rq.curr
      BY <1>1, <2>2, <3>3, OffChanged
    <3>5. /\ QueuesRight(task, q) /\ q.on_rq = rq.on_rq /\ q.curr = rq.curr
          /\ q.nr_running = rq.nr_running
      BY <1>1, <2>2, SoftKeeps DEF SoftStep
    <3>6. /\ QueuesRight(task, moved) /\ moved.on_rq = rq.on_rq /\ moved.curr = rq.curr
          /\ moved.nr_running = rq.nr_running
      BY <1>1, <3>5, RequeueKeeps
    <3> HIDE DEF moved
    <3>7. StateRight(task, moved) /\ moved \in RunQueue
      BY <1>1, <3>6 DEF StateRight, QueuesRight
    <3>8. /\ StateRight(tk, resched_task(moved, t))
          /\ resched_task(moved, t).curr = rq.curr
      <4>1. SameQueued(task, tk, moved)
            /\ \A u \in moved.on_rq : tk[u].state \notin {"unborn", "new"}
        BY <3>3, <3>6 DEF SameQueued
      <4>2. SoftStep(moved, resched_task(moved, t))
        BY <2>1, <3>7, SoftResched
      <4> QED BY <3>3, <3>6, <3>7, <4>1, <4>2, OffChanged
    <3> QED BY <1>2, <3>1, <3>4, <3>8 DEF Inv, FaultType
  <2> QED BY <1>4, <2>3, <2>4 DEF TickRt
<1>5. CASE TickOther
  <2>1. task' = task /\ (rq' = q0 \/ rq' = resched_task(q0, t))
    BY <1>5 DEF TickOther
  <2>2. t \in Tasks \cup {Idle}
    BY <1>1 DEF RunQueue
  <2> HIDE DEF q0
  <2>3. SoftStep(q0, resched_task(q0, t))
    BY <1>3, <2>2, SoftResched
  <2>4. SoftStep(rq, rq')
    BY <1>3, <2>1, <2>3, SoftTwice
  <2>5. SameQueued(task, task, rq)
        /\ \A u \in rq.on_rq : task[u].state \notin {"unborn", "new"}
    BY <1>1 DEF SameQueued, StateRight
  <2>6. StateRight(task, rq') /\ rq'.curr = rq.curr
    BY <1>1, <2>4, <2>5, OffChanged
  <2> QED BY <1>2, <2>1, <2>6 DEF Inv, FaultType
<1> QED BY <1>4, <1>5 DEF scheduler_tick

\* The period timer fires.
LEMMA PeriodTimerStep ==
  ASSUME Inv, sched_rt_period_timer
  PROVE  Inv' /\ rq'.curr = rq.curr
<1> DEFINE overrun == rq.elapsed \div RT_PERIOD
           phase == rq.elapsed % RT_PERIOD
           now == [rq EXCEPT !.elapsed = phase]
<1>1. StateRight(task, rq) /\ task \in [Tasks -> Task] /\ rq \in RunQueue
      /\ QueuesRight(task, rq) /\ rq.on_rq \in SUBSET Tasks
  BY DEF Inv, StateRight, QueuesRight, RunQueue
<1>2. /\ rq' = do_sched_rt_period_timer(task, now, overrun)
      /\ task' = task /\ pi' = pi /\ fault' = fault
  BY DEF sched_rt_period_timer
<1>3. overrun \in Nat /\ phase \in Nat
  <2>1. rq.elapsed \in Nat /\ RT_PERIOD \in Nat \ {0}
    BY <1>1, BandwidthAssumption DEF RunQueue
  <2>2. \A n \in Nat, k \in Nat \ {0} : n \div k \in Nat /\ n % k \in Nat
    OBVIOUS
  <2> QED BY <2>1, <2>2
<1> HIDE DEF overrun, phase
<1>4. now \in RunQueue
  BY <1>1, <1>3 DEF RunQueue
<1>5. SoftStep(rq, now)
  BY <1>1, <1>4 DEF SoftStep, SameRt, RunQueue
<1> HIDE DEF now
<1>6. SoftStep(rq, rq')
  BY <1>2, <1>3, <1>4, <1>5, SoftPeriod, SoftTwice
<1>7. SameQueued(task, task, rq)
      /\ \A u \in rq.on_rq : task[u].state \notin {"unborn", "new"}
  BY <1>1 DEF SameQueued, StateRight
<1>8. StateRight(task, rq') /\ rq'.curr = rq.curr
  BY <1>1, <1>6, <1>7, OffChanged
<1> QED BY <1>2, <1>8 DEF Inv, FaultType

-----------------------------------------------------------------------------
(* The theorems.                                                           *)

\* The empty run queue of boot is right.
LEMMA InvInit == Init => Inv
<1> SUFFICES ASSUME Init PROVE Inv
  OBVIOUS
<1>1. task = [t \in Tasks |-> BootTask(t)] /\ rq = InitRunQueue
      /\ pi = [t \in Tasks |-> MAX_PRIO] /\ fault = "none"
  BY DEF Init
<1>2. task \in [Tasks -> Task]
  <2> SUFFICES ASSUME NEW t \in Tasks PROVE BootTask(t) \in Task
    BY <1>1
  <2>1. DEFAULT_PRIO \in TaskPrios \ RtPrios /\ 0 \in RtPrios
    BY StaticPriosAssumption, PrioAssumption DEF RtPrios
  <2> QED BY <2>1, TimesliceAssumption DEF BootTask, Task, Policies, Classes, States
<1>3. rq \in RunQueue
  <2>1. Garbage \in [Buckets -> Int]
    BY BucketAssumption DEF Buckets
  <2>2. \A p \in RtPrios : <<>> \in Seq(Tasks)
    OBVIOUS
  <2> QED BY <1>1, <2>1, <2>2 DEF InitRunQueue, RunQueue
<1>4. /\ rq.queue = [p \in RtPrios |-> <<>>] /\ rq.bitmap = {} /\ rq.linked = {}
      /\ rq.rt_nr_running = 0 /\ rq.rt_nr_boosted = 0 /\ rq.highest_prio = MAX_RT_PRIO
      /\ rq.numInBucket = Garbage /\ rq.cfs = {} /\ rq.on_rq = {} /\ rq.nr_running = 0
      /\ rq.curr = Idle
  BY <1>1 DEF InitRunQueue
<1>5. ListsMatch(task, rq)
  <2>1. IsInjective(<<>>) /\ ToSet(<<>>) = {}
    BY DEF IsInjective, ToSet
  <2> QED BY <1>4, <2>1 DEF ListsMatch
<1>6. Cardinality({}) = 0
  BY FS_EmptySet
<1>7. RtCountsMatch(task, rq) /\ HighestOf(task, rq)
  <2>1. BoostedOf(task, rq) = {}
    BY <1>4 DEF BoostedOf
  <2> QED BY <1>4, <1>6, <2>1 DEF RtCountsMatch, HighestOf
<1>8. BucketCountsOf(task, rq)
  <2>1. ASSUME NEW b \in Buckets
        PROVE  rq.numInBucket[b] - Garbage[b] = Cardinality(InBucket(task, rq, b))
    <3>1. Garbage[b] \in Int
      BY BucketAssumption DEF Buckets
    <3>2. InBucket(task, rq, b) = {}
      BY <1>4 DEF InBucket
    <3> QED BY <1>4, <1>6, <3>1, <3>2
  <2> QED BY <2>1 DEF BucketCountsOf
<1>9. ClassesMatch(task, rq)
  BY <1>4 DEF ClassesMatch
<1>10. StateRight(task, rq)
  BY <1>2, <1>3, <1>4, <1>5, <1>6, <1>7, <1>8, <1>9 DEF StateRight, QueuesRight, RtInv
<1>11. pi \in [Tasks -> 0 .. MAX_PRIO]
  BY <1>1, PrioAssumption
<1> QED BY <1>1, <1>10, <1>11 DEF Inv, FaultType

\* Only schedule switches the running task, and to the best real-time task.
BestAfterSwitch ==
  rq'.curr # rq.curr /\ ~ rt_rq_throttled(rq')
    => \A t \in rq'.linked : CurrPrio(task', rq') <= task'[t].prio

\* Every step of the system keeps the invariant, and a switch is to the best.
LEMMA InvNext == Inv /\ [Next]_vars => Inv' /\ BestAfterSwitch
<1> SUFFICES ASSUME Inv, [Next]_vars PROVE Inv' /\ BestAfterSwitch
  OBVIOUS
<1>1. ASSUME NEW t \in Tasks, NEW pol \in UserPolicies, NEW rtprio \in RtPrios,
             NEW bucket \in BucketArgs(pol), sched_setscheduler(t, pol, rtprio, bucket)
      PROVE  Inv' /\ rq'.curr = rq.curr
  BY <1>1, SetschedulerStep DEF sched_setscheduler
<1>8. ASSUME NEW pol \in UserPolicies, NEW rtprio \in RtPrios,
             NEW bucket \in BucketArgs(pol), ResumeSetscheduler(pol, rtprio, bucket)
      PROVE  Inv' /\ rq'.curr = rq.curr
  <2>1. rq.curr \in Tasks
    BY <1>8 DEF ResumeSetscheduler, Inv, StateRight, QueuesRight, RunQueue
  <2>2. SetUnderLock(rq.curr, pol, rtprio, bucket, prev_class[rq.curr])
    BY <1>8 DEF ResumeSetscheduler
  <2> QED BY <2>1, <2>2, SetschedulerStep
<1>9. ASSUME ReadPrevClass
      PROVE  Inv' /\ rq'.curr = rq.curr
  BY <1>9 DEF ReadPrevClass, Inv, FaultType
<1>2. ASSUME NEW t \in Tasks, NEW waiter \in PiPrios \cup {MAX_PRIO}, PiChange(t, waiter)
      PROVE  Inv' /\ rq'.curr = rq.curr
  BY <1>2, PiChangeStep
<1>3. ASSUME NEW t \in Tasks, NEW static \in StaticPrios, set_user_nice(t, static)
      PROVE  Inv' /\ rq'.curr = rq.curr
  BY <1>3, NiceStep
<1>4. ASSUME NEW t \in Tasks,
             normalize_task(t) \/ try_to_wake_up(t) \/ sched_fork(t) \/ wake_up_new_task(t)
      PROVE  Inv' /\ rq'.curr = rq.curr
  BY <1>4, NormalizeStep, WakeUpStep, ForkStep, WakeUpNewStep
<1>5. ASSUME NEW preempt \in BOOLEAN, NEW signal \in BOOLEAN, schedule(preempt, signal)
      PROVE  Inv' /\ BestAfterSwitch
  <2>1. rq'.linked = {} => \A t \in rq'.linked : CurrPrio(task', rq') <= task'[t].prio
    OBVIOUS
  <2> QED BY <1>5, <2>1, ScheduleStep DEF BestAfterSwitch
<1>6. ASSUME prepare_to_sleep \/ sched_yield \/ scheduler_tick \/ sched_rt_period_timer
      PROVE  Inv' /\ rq'.curr = rq.curr
  BY <1>6, SleepStep, YieldStep, TickStep, PeriodTimerStep
<1>7. CASE UNCHANGED vars
  BY <1>7 DEF vars, Inv, FaultType, BestAfterSwitch
<1> QED BY <1>1, <1>2, <1>3, <1>4, <1>5, <1>6, <1>7, <1>8, <1>9 DEF Next, BestAfterSwitch

\* The inductive invariant holds in every reachable state.
THEOREM InvHolds == Spec => []Inv
BY InvInit, InvNext, PTL DEF Spec

\* What calls in flight have read is a class.
PrevClassType == prev_class \in [Tasks -> Classes \cup {"none"}]

\* Only the two halves of a preempted call touch prev_class.
LEMMA PrevClassKept ==
  ASSUME [Next]_vars, ~ ReadPrevClass,
         ~ \E pol \in UserPolicies, rtprio \in RtPrios :
             \E bucket \in BucketArgs(pol) : ResumeSetscheduler(pol, rtprio, bucket)
  PROVE  UNCHANGED prev_class
<1>1. ASSUME NEW t \in Tasks, NEW pol \in UserPolicies, NEW rtprio \in RtPrios,
             NEW bucket \in BucketArgs(pol), sched_setscheduler(t, pol, rtprio, bucket)
      PROVE  UNCHANGED prev_class
  BY <1>1 DEF sched_setscheduler
<1>2. ASSUME NEW t \in Tasks, NEW waiter \in PiPrios \cup {MAX_PRIO}, PiChange(t, waiter)
      PROVE  UNCHANGED prev_class
  BY <1>2 DEF PiChange
<1>3. ASSUME NEW t \in Tasks, NEW static \in StaticPrios, set_user_nice(t, static)
      PROVE  UNCHANGED prev_class
  BY <1>3 DEF set_user_nice
<1>4. ASSUME NEW t \in Tasks,
             normalize_task(t) \/ try_to_wake_up(t) \/ sched_fork(t) \/ wake_up_new_task(t)
      PROVE  UNCHANGED prev_class
  BY <1>4 DEF normalize_task, try_to_wake_up, sched_fork, wake_up_new_task
<1>5. ASSUME NEW preempt \in BOOLEAN, NEW signal \in BOOLEAN, schedule(preempt, signal)
      PROVE  UNCHANGED prev_class
  BY <1>5 DEF schedule
<1>6. CASE prepare_to_sleep \/ sched_yield \/ scheduler_tick \/ sched_rt_period_timer
           \/ UNCHANGED vars
  BY <1>6 DEF prepare_to_sleep, sched_yield, scheduler_tick, sched_rt_period_timer, vars
<1> QED BY <1>1, <1>2, <1>3, <1>4, <1>5, <1>6 DEF Next

\* So what they have read stays a class.
LEMMA PrevClassStep ==
  ASSUME Inv, PrevClassType, [Next]_vars
  PROVE  PrevClassType'
<1>1. CASE ReadPrevClass
  <2>1. rq.curr \in Tasks
    BY <1>1 DEF ReadPrevClass, MayCall, Inv, StateRight, QueuesRight, RunQueue
  <2>2. task[rq.curr].class \in Classes
    BY <2>1 DEF Inv, StateRight, Task
  <2> QED BY <1>1, <2>2 DEF ReadPrevClass, PrevClassType
<1>2. ASSUME NEW pol \in UserPolicies, NEW rtprio \in RtPrios,
             NEW bucket \in BucketArgs(pol), ResumeSetscheduler(pol, rtprio, bucket)
      PROVE  PrevClassType'
  BY <1>2 DEF ResumeSetscheduler, PrevClassType
<1>3. CASE UNCHANGED prev_class
  BY <1>3 DEF PrevClassType
<1> QED BY <1>1, <1>2, <1>3, PrevClassKept

\* Every variable keeps its type: in particular the counters of the run queue
\* stay integers and a task's priority stays a priority through every boost.
THEOREM TypeCorrect == Spec => []TypeOK
<1>1. Init => PrevClassType
  BY DEF Init, PrevClassType
<1>2. Inv /\ PrevClassType /\ [Next]_vars => PrevClassType'
  BY PrevClassStep
<1>3. Inv /\ PrevClassType => TypeOK
  BY DEF Inv, StateRight, QueuesRight, FaultType, PrevClassType, TypeOK
<1> QED BY <1>1, <1>2, <1>3, InvHolds, PTL DEF Spec

\* The lists, the bitmap, on_rt_rq() and the class of a task agree, whatever the
\* number of tasks, the priorities and the policies handed to the system calls.
THEOREM ArrayAlwaysConsistent == Spec => []ArrayConsistent
<1>1. Inv => ArrayConsistent
  BY DEF Inv, StateRight, QueuesRight, RtInv, ArrayConsistent
<1> QED BY <1>1, InvHolds, PTL

\* rt_nr_running, rt_nr_boosted and nr_running count what they stand for.
THEOREM CountsAlwaysMatch == Spec => []CountsMatch
<1>1. Inv => CountsMatch
  BY DEF Inv, StateRight, QueuesRight, RtInv, CountsMatch
<1> QED BY <1>1, InvHolds, PTL

\* highest_prio.curr is the least queued priority.
THEOREM HighestAlwaysMatches == Spec => []HighestMatches
<1>1. Inv => HighestMatches
  BY DEF Inv, StateRight, QueuesRight, RtInv, HighestMatches
<1> QED BY <1>1, InvHolds, PTL

\* numInBucket has counted the queued tasks of each bucket over its initial
\* contents.
THEOREM BucketsAlwaysCounted == Spec => []BucketsCounted
<1>1. Inv => BucketsCounted
  BY DEF Inv, StateRight, QueuesRight, RtInv, BucketsCounted
<1> QED BY <1>1, InvHolds, PTL

\* A context switch lands on the best queued real-time task when the real-time
\* queue is not throttled: neither the shortcut of pick_next_task for the fair
\* class nor the search of the bitmap ever passes it over.
THEOREM AlwaysSwitchesToBest == Spec => SwitchesToBest
<1>1. Inv /\ [Next]_vars => [BestAfterSwitch]_vars
  BY InvNext
<1> QED BY <1>1, InvHolds, PTL DEF Spec, SwitchesToBest, BestAfterSwitch
=============================================================================
