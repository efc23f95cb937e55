--------------------------- MODULE PreemptionProofs ---------------------------
(***************************************************************************)
(* What CpuSched.tla keeps beyond the consistency of the queues: the       *)
(* priority a task has, that no enqueue goes out of bounds, that the       *)
(* period timer is armed, and that no preemption is lost.  The invariant   *)
(* of CpuSchedProofs.tla is assumed of every state.                        *)
(***************************************************************************)
EXTENDS CpuSchedProofs

-----------------------------------------------------------------------------
(* The priority and class of one task.                                     *)

Unstarted(rec) == rec.state \in {"unborn", "new"}

\* The fields that decide about priority and class.
SameRank(a, b) ==
  /\ b.policy = a.policy /\ b.class = a.class /\ b.static_prio = a.static_prio
  /\ b.rt_priority = a.rt_priority /\ b.normal_prio = a.normal_prio /\ b.prio = a.prio

\* The only drop of a boost there is: neither the waiter nor the task itself
\* has a real-time priority (set_user_nice on a task with such a waiter).
Dropped(rec, w) ==
  /\ w \in PiPrios \ RtPrios
  /\ ~ rt_prio(rec.normal_prio) /\ ~ rt_prio(rec.prio)

\* A task and the priority w of its top waiter.
RankRight(rec, w) ==
  /\ rec \in Task /\ w \in PiPrios \cup {MAX_PRIO}
  /\ rec.normal_prio = normal_prio(rec)
  /\ rec.prio = rt_mutex_getprio(rec, w) \/ Dropped(rec, w)
  /\ Unstarted(rec) => w = MAX_PRIO
  /\ rec.class = "rt" => rt_prio(rec.prio)
  /\ rec.class = "fair" => ~ rt_policy(rec.policy)
  /\ rec.class = "brr" => rec.policy = "BRR" /\ "BRR" \in UserPolicies

RanksRight(tk, p) == \A u \in Tasks : RankRight(tk[u], p[u])

\* What waiters and tasks may have for a priority.
LEMMA WaiterPrios ==
  /\ PiPrios \cup {MAX_PRIO} \subseteq 0 .. MAX_PRIO
  /\ ~ rt_prio(MAX_PRIO)
  /\ \A p \in TaskPrios \ RtPrios : p \in Nat /\ ~ rt_prio(p)
  /\ \A p \in TaskPrios : Lesser(MAX_PRIO, p) = p
BY PiPriosAssumption, PrioAssumption DEF TaskPrios, RtPrios, rt_prio, Lesser

\* A task with the same rank is as right.
LEMMA SameRankRight ==
  ASSUME NEW a, NEW w, RankRight(a, w), NEW b \in Task, SameRank(a, b),
         Unstarted(b) => w = MAX_PRIO
  PROVE  RankRight(b, w)
BY DEF RankRight, SameRank, Dropped, normal_prio, rt_mutex_getprio

\* The normal priority of a real-time policy is a real-time priority, that of
\* another policy is not.
LEMMA NormalPrioClass ==
  ASSUME NEW rec \in Task
  PROVE  rt_prio(normal_prio(rec)) <=> rt_policy(rec.policy)
BY PrioAssumption DEF Task, normal_prio, rt_prio, RtPrios, TaskPrios

\* __setscheduler gives a task the class of its policy and the priority of its
\* policy and its waiter.
LEMMA SetschedulerRank ==
  ASSUME NEW rec, NEW w, RankRight(rec, w), NEW pol \in Policies, pol = "BRR" => pol \in UserPolicies,
         NEW rtprio \in RtPrios, NEW bucket \in Int
  PROVE  RankRight(__setscheduler(rec, pol, rtprio, bucket, w), w)
<1> DEFINE class == ClassOf(pol)
           bid == IF pol = "BRR" THEN bucket ELSE rec.bid
           new == [rec EXCEPT !.policy = pol, !.class = class,
                              !.rt_priority = rtprio, !.bid = bid]
           np == normal_prio(new)
           normal == [new EXCEPT !.normal_prio = np]
           p == rt_mutex_getprio(normal, w)
           r == __setscheduler(rec, pol, rtprio, bucket, w)
<1>1. rec \in Task /\ w \in PiPrios \cup {MAX_PRIO} /\ w \in 0 .. MAX_PRIO
  BY WaiterPrios DEF RankRight
<1>2. class \in Classes /\ bid \in Int
      /\ (class = "fair" => ~ rt_policy(pol)) /\ (class = "brr" => pol = "BRR")
      /\ (class = "rt" => rt_policy(pol))
  BY <1>1 DEF ClassOf, Classes, Policies, Task, rt_policy
<1>3. r \in Task /\ r.state = rec.state
  BY <1>1, SetschedulerTyped
<1>4. new \in Task
  BY <1>1, <1>2 DEF Task
<1>5. r = [normal EXCEPT !.prio = p]
  BY DEF __setscheduler
<1>6. np \in TaskPrios /\ (rt_prio(np) <=> rt_policy(pol))
  <2>1. new.static_prio \in TaskPrios /\ new.rt_priority \in RtPrios /\ new.policy = pol
    BY <1>1, <1>4 DEF Task
  <2> HIDE DEF new
  <2> QED BY <1>4, <2>1, NormalPrioTyped, NormalPrioClass
<1>7. np = IF rt_policy(pol) THEN MAX_RT_PRIO - 1 - rtprio ELSE rec.static_prio
  BY <1>1 DEF normal_prio, Task
<1> HIDE DEF np, class, bid
<1>8. p = Lesser(w, np)
  BY <1>1 DEF rt_mutex_getprio, Task
<1> HIDE DEF p
<1>9. /\ r.policy = pol /\ r.class = class /\ r.rt_priority = rtprio /\ r.normal_prio = np
      /\ r.prio = p /\ r.static_prio = rec.static_prio
  BY <1>1, <1>5 DEF Task
<1> HIDE DEF r
<1>10. r.normal_prio = normal_prio(r) /\ r.prio = rt_mutex_getprio(r, w)
  BY <1>7, <1>8, <1>9 DEF normal_prio, rt_mutex_getprio
<1>11. rt_prio(np) => rt_prio(p)
  BY <1>1, <1>6, <1>8, PrioTypes, PrioAssumption DEF rt_prio, Lesser, TaskPrios
<1>12. Unstarted(r) => w = MAX_PRIO
  BY <1>3 DEF RankRight, Unstarted
<1>13. /\ r.class = "rt" => rt_prio(r.prio)
       /\ r.class = "fair" => ~ rt_policy(r.policy)
       /\ r.class = "brr" => r.policy = "BRR" /\ "BRR" \in UserPolicies
  BY <1>2, <1>6, <1>9, <1>11
<1>14. RankRight(r, w)
  BY <1>1, <1>3, <1>10, <1>12, <1>13, Zenon DEF RankRight
<1> QED BY <1>14 DEF r

\* rt_mutex_setprio, when a waiter comes or leaves.
LEMMA ReprioritisedRank ==
  ASSUME NEW rec, NEW w, RankRight(rec, w), ~ Unstarted(rec), NEW v \in PiPrios \cup {MAX_PRIO}
  PROVE  /\ RankRight(Reprioritised(rec, rt_mutex_getprio(rec, v)), v)
         /\ rt_mutex_getprio(rec, v) = rec.prio => RankRight(rec, v)
<1> DEFINE p == rt_mutex_getprio(rec, v)
           r == Reprioritised(rec, p)
<1>1. rec \in Task /\ v \in 0 .. MAX_PRIO /\ rec.normal_prio \in TaskPrios
  BY WaiterPrios DEF RankRight, Task
<1>2. p \in TaskPrios /\ p = Lesser(v, rec.normal_prio)
  BY <1>1, PrioTypes DEF rt_mutex_getprio
<1>3. rt_prio(rec.normal_prio) <=> rt_policy(rec.policy)
  BY <1>1, NormalPrioClass DEF RankRight
<1>4. rt_prio(rec.normal_prio) => rt_prio(p)
  BY <1>1, <1>2, PrioAssumption DEF rt_prio, Lesser, TaskPrios
<1>5. rt_mutex_getprio(rec, v) = rec.prio => RankRight(rec, v)
  BY DEF RankRight
<1>6. r \in Task /\ r.state = rec.state
  BY <1>1, <1>2, ReprioritisedTyped
<1> HIDE DEF p
<1>7. r.prio = p /\ r.class = (IF rt_prio(p) THEN "rt" ELSE "fair")
      /\ r.normal_prio = rec.normal_prio /\ r.policy = rec.policy
      /\ r.static_prio = rec.static_prio /\ r.rt_priority = rec.rt_priority
  BY <1>1 DEF Reprioritised, Task
<1> HIDE DEF r
<1>8. r.normal_prio = normal_prio(r) /\ r.prio = rt_mutex_getprio(r, v)
  BY <1>2, <1>7 DEF RankRight, normal_prio, rt_mutex_getprio
<1>9. RankRight(r, v)
  BY <1>3, <1>4, <1>6, <1>7, <1>8, Zenon DEF RankRight, Unstarted
<1> QED BY <1>5, <1>9 DEF r, p

\* effective_prio after a change of the static priority, of a task without a
\* real-time policy: a real-time boost stays, another one is dropped.
LEMMA EffectiveRank ==
  ASSUME NEW rec, NEW w, RankRight(rec, w), ~ rt_policy(rec.policy),
         NEW static \in TaskPrios \ RtPrios
  PROVE  RankRight(effective_prio([rec EXCEPT !.static_prio = static]), w)
<1> DEFINE a == [rec EXCEPT !.static_prio = static]
           p == IF rt_prio(rec.prio) THEN rec.prio ELSE static
           r == effective_prio(a)
<1>1. rec \in Task /\ w \in PiPrios \cup {MAX_PRIO} /\ w \in 0 .. MAX_PRIO
  BY WaiterPrios DEF RankRight
<1>2. a \in Task /\ a.policy = rec.policy /\ a.prio = rec.prio /\ a.state = rec.state
      /\ a.class = rec.class /\ a.rt_priority = rec.rt_priority /\ a.static_prio = static
  BY <1>1 DEF Task
<1>3. normal_prio(a) = static
  BY <1>2 DEF normal_prio
<1>4. r \in Task /\ r.state = rec.state
  BY <1>2, EffectiveTyped
<1>5. r = [a EXCEPT !.normal_prio = static, !.prio = p]
  BY <1>2, <1>3 DEF effective_prio, Task
<1>6. /\ r.normal_prio = static /\ r.prio = p /\ r.policy = rec.policy /\ r.class = rec.class
      /\ r.static_prio = static /\ r.rt_priority = rec.rt_priority
  BY <1>2, <1>5 DEF Task
<1> HIDE DEF r
<1>7. r.normal_prio = normal_prio(r)
  BY <1>6 DEF normal_prio
<1>8. rec.normal_prio \in Nat /\ ~ rt_prio(rec.normal_prio) /\ rec.prio \in Nat /\ ~ rt_prio(static)
      /\ static \in Nat /\ static < MAX_PRIO /\ rec.normal_prio < MAX_PRIO
  BY <1>1, NormalPrioClass, PrioAssumption, WaiterPrios DEF RankRight, Task, TaskPrios
<1>9. r.prio = rt_mutex_getprio(r, w) \/ Dropped(r, w)
  <2>1. CASE rt_prio(rec.prio)
    <3>1. rec.prio = w /\ rt_prio(w)
      BY <1>1, <1>8, <2>1 DEF RankRight, rt_mutex_getprio, Lesser, Dropped
    <3> QED BY <1>1, <1>6, <1>8, <2>1, <3>1, PrioAssumption DEF rt_mutex_getprio, Lesser, rt_prio
  <2>2. CASE ~ rt_prio(rec.prio)
    <3>1. ~ rt_prio(w)
      BY <1>1, <1>8, <2>2, PrioAssumption DEF RankRight, rt_mutex_getprio, Lesser, rt_prio, Dropped, RtPrios
    <3>2. CASE w = MAX_PRIO
      BY <1>6, <1>8, <2>2, <3>2, PrioAssumption DEF rt_mutex_getprio, Lesser
    <3>3. CASE w # MAX_PRIO
      <4>1. w \in PiPrios \ RtPrios
        BY <1>1, <3>1, <3>3, PrioAssumption DEF RtPrios, rt_prio
      <4> QED BY <1>6, <1>8, <2>2, <4>1 DEF Dropped
    <3> QED BY <3>2, <3>3
  <2> QED BY <2>1, <2>2
<1>10. r.class = "rt" => rt_prio(r.prio)
  BY <1>6 DEF RankRight
<1>11. RankRight(r, w)
  BY <1>1, <1>4, <1>6, <1>7, <1>9, <1>10, Zenon DEF RankRight, Unstarted
<1> QED BY <1>11 DEF r, a

\* A change of the static priority alone, of a task with a real-time policy.
LEMMA StaticRank ==
  ASSUME NEW rec, NEW w, RankRight(rec, w), rt_policy(rec.policy),
         NEW static \in TaskPrios \ RtPrios
  PROVE  RankRight([rec EXCEPT !.static_prio = static], w)
<1> DEFINE r == [rec EXCEPT !.static_prio = static]
<1>1. r \in Task /\ r.policy = rec.policy /\ r.prio = rec.prio /\ r.state = rec.state
      /\ r.class = rec.class /\ r.rt_priority = rec.rt_priority
      /\ r.normal_prio = rec.normal_prio
  BY DEF Task, RankRight
<1> HIDE DEF r
<1>2. RankRight(r, w)
  BY <1>1 DEF RankRight, Unstarted, normal_prio, rt_mutex_getprio, Dropped
<1> QED BY <1>2 DEF r

\* effective_prio of a task whose priorities are right changes nothing: of a
\* new task, which has no waiters.
LEMMA NewRank ==
  ASSUME NEW rec, RankRight(rec, MAX_PRIO)
  PROVE  effective_prio(rec) \in Task /\ SameRank(rec, effective_prio(rec))
<1>1. rec \in Task /\ rec.normal_prio = normal_prio(rec)
      /\ rec.normal_prio \in TaskPrios /\ rec.prio \in TaskPrios
  BY DEF RankRight, Task
<1>2. rec.prio = rec.normal_prio
  <2>1. MAX_PRIO \notin PiPrios
    BY PiPriosAssumption, PrioAssumption DEF TaskPrios
  <2> QED BY <1>1, <2>1, WaiterPrios DEF RankRight, rt_mutex_getprio, Dropped
<1> QED BY <1>1, <1>2, EffectiveTyped DEF effective_prio, SameRank, Task

\* A child has no waiters, and the priority of its policy.
LEMMA ChildRank ==
  ASSUME NEW rec, NEW w, RankRight(rec, w)
  PROVE  RankRight(Child(rec), MAX_PRIO)
<1> DEFINE r == Child(rec)
<1>1. rec \in Task /\ rec.normal_prio \in TaskPrios
  BY DEF RankRight, Task
<1>2. r \in Task
  BY <1>1, ChildTyped
<1>3. /\ r.policy = rec.policy /\ r.static_prio = rec.static_prio
      /\ r.rt_priority = rec.rt_priority /\ r.normal_prio = rec.normal_prio
      /\ r.prio = rec.normal_prio
      /\ r.class = (IF rt_prio(rec.normal_prio) THEN rec.class ELSE "fair")
  BY <1>1 DEF Child, Task
<1> HIDE DEF r
<1>4. r.normal_prio = normal_prio(r) /\ r.prio = rt_mutex_getprio(r, MAX_PRIO)
  BY <1>1, <1>3, WaiterPrios DEF RankRight, normal_prio, rt_mutex_getprio
<1>5. rt_prio(rec.normal_prio) <=> rt_policy(rec.policy)
  BY <1>1, NormalPrioClass DEF RankRight
<1>6. RankRight(r, MAX_PRIO)
  BY <1>2, <1>3, <1>4, <1>5, Zenon DEF RankRight
<1> QED BY <1>6 DEF r

-----------------------------------------------------------------------------
(* The ranks of all tasks, and memory errors.                              *)

\* Only SCHED_BRR makes an enqueue go out of bounds.
FaultsAreBrr == fault # "none" => "BRR" \in UserPolicies

RankInv == RanksRight(task, pi) /\ FaultsAreBrr

\* One task changes.
LEMMA OneRank ==
  ASSUME NEW tk \in [Tasks -> Task], NEW p, RanksRight(tk, p), NEW t \in Tasks,
         NEW rec, RankRight(rec, p[t])
  PROVE  RanksRight([tk EXCEPT ![t] = rec], p)
BY DEF RanksRight

\* The bucket a task is given does not matter.
LEMMA PlacedRank ==
  ASSUME NEW tk \in [Tasks -> Task], NEW p, RanksRight(tk, p), NEW q, NEW t \in Tasks
  PROVE  RanksRight(AssignBucket(tk, q, t), p)
<1> DEFINE b == ChooseBucket(q, tk[t].bid)
           rec == [tk[t] EXCEPT !.bid = b]
           r == AssignBucket(tk, q, t)
<1>1. r = tk \/ r = [tk EXCEPT ![t] = rec]
  BY DEF AssignBucket
<1>2. SameRank(tk[t], rec) /\ rec.state = tk[t].state
  BY DEF Task, SameRank
<1>3. /\ r \in [Tasks -> Task] /\ \A u \in Tasks \ {t} : r[u] = tk[u]
  BY Placed
<1>4. SameRank(tk[t], r[t]) /\ r[t].state = tk[t].state
  <2> HIDE DEF rec, r
  <2> QED BY <1>1, <1>2 DEF SameRank
<1> HIDE DEF r
<1>5. RankRight(r[t], p[t])
  BY <1>3, <1>4, SameRankRight DEF RanksRight, RankRight, Unstarted
<1> QED BY <1>3, <1>5 DEF RanksRight, r

\* A task that is right is enqueued without an error unless SCHED_BRR is used.
LEMMA OnlyBrrFaults ==
  ASSUME NEW tk, NEW q, NEW t, NEW w, RankRight(tk[t], w), tk[t].class # "brr"
  PROVE  EnqueueFault(tk, q, t) = "none"
BY DEF EnqueueFault, RankRight, Task, Classes

\* A handler that ends in Commit and leaves the waiters alone.
LEMMA CommitRank ==
  ASSUME RankInv, NEW tk, RanksRight(tk, pi), NEW t \in Tasks, NEW q, NEW tk2, NEW outcomes,
         Commit(EnqueueFault(tk, q, t), tk2, outcomes), RanksRight(tk2, pi), pi' = pi
  PROVE  RankInv'
<1>1. RanksRight(task', pi')
  BY DEF Commit, RankInv
<1>2. fault' # "none" => "BRR" \in UserPolicies
  <2>1. RankRight(tk[t], pi[t])
    BY DEF RanksRight
  <2>2. tk[t].class = "brr" => "BRR" \in UserPolicies
    BY <2>1 DEF RankRight
  <2> QED BY <2>1, <2>2, OnlyBrrFaults DEF Commit
<1> QED BY <1>1, <1>2, Zenon DEF RankInv, FaultsAreBrr

\* A handler after which every task has the rank it had.
LEMMA SameRanks ==
  ASSUME RankInv, pi' = pi, fault' = fault, NEW t \in Tasks,
         task \in [Tasks -> Task],
         NEW rec \in Task, SameRank(task[t], rec), Unstarted(rec) => Unstarted(task[t]),
         task' = task \/ task' = [task EXCEPT ![t] = rec]
  PROVE  RankInv'
<1>1. RankRight(rec, pi[t])
  BY SameRankRight DEF RankInv, RanksRight, RankRight
<1>2. RanksRight(task', pi')
  BY <1>1, OneRank DEF RankInv
<1> QED BY <1>2, Zenon DEF RankInv, FaultsAreBrr

\* sched_setscheduler under the lock.
LEMMA SetschedulerRanks ==
  ASSUME Inv, RankInv, NEW t \in Tasks, NEW pol \in UserPolicies, NEW rtprio \in RtPrios,
         NEW bucket \in BucketArgs(pol), NEW prevClass,
         SetUnderLock(t, pol, rtprio, bucket, prevClass)
  PROVE  RankInv'
<1> DEFINE out == PutIfRunning(task, IF t \in rq.on_rq THEN deactivate_task(task, rq, t) ELSE rq, t)
           rec == __setscheduler(task[t], pol, rtprio, bucket, pi[t])
           tk == [task EXCEPT ![t] = rec]
           placed == AssignBucket(tk, out, t)
           outcomes == check_class_changed(placed, activate_task(placed, out, t), t, prevClass, task[t].prio)
<1>1. task \in [Tasks -> Task] /\ RanksRight(task, pi)
  BY DEF Inv, StateRight, RankInv
<1>2. RankRight(rec, pi[t])
  <2>1. bucket \in Int /\ pol \in Policies
    BY UserBucketsAssumption, PoliciesAssumption DEF BucketArgs
  <2> QED BY <1>1, <2>1, SetschedulerRank DEF RanksRight
<1>3. \/ Commit(EnqueueFault(tk, out, t), placed, outcomes)
      \/ task' = tk /\ fault' = "none"
  BY DEF SetUnderLock, Keep
<1>4. pi' = pi
  BY DEF SetUnderLock
<1> HIDE DEF rec, out, outcomes
<1>5. tk \in [Tasks -> Task] /\ RanksRight(tk, pi)
  BY <1>1, <1>2, OneRank DEF RankRight
<1> HIDE DEF tk
<1>6. RanksRight(placed, pi)
  BY <1>5, PlacedRank
<1> HIDE DEF placed
<1>7. CASE Commit(EnqueueFault(tk, out, t), placed, outcomes)
  BY <1>4, <1>5, <1>6, <1>7, CommitRank
<1>8. CASE task' = tk /\ fault' = "none"
  BY <1>4, <1>5, <1>8 DEF RankInv, FaultsAreBrr
<1> QED BY <1>3, <1>7, <1>8

\* A waiter comes or leaves: the priority of the owner follows, and the enqueue
\* of a boosted task does not fail.
LEMMA PiChangeRanks ==
  ASSUME Inv, RankInv, NEW t \in Tasks, NEW waiter \in PiPrios \cup {MAX_PRIO},
         PiChange(t, waiter)
  PROVE  RankInv'
<1> DEFINE prio == rt_mutex_getprio(task[t], waiter)
           out == PutIfRunning(task, IF t \in rq.on_rq THEN dequeue_task(task, rq, t) ELSE rq, t)
           rec == Reprioritised(task[t], prio)
           tk == [task EXCEPT ![t] = rec]
           err == EnqueueFault(tk, out, t)
           outcomes == check_class_changed(tk, enqueue_task(tk, out, t), t, task[t].class, task[t].prio)
<1>1. /\ task \in [Tasks -> Task] /\ pi \in [Tasks -> 0 .. MAX_PRIO]
      /\ RanksRight(task, pi) /\ RankRight(task[t], pi[t]) /\ fault = "none"
  BY DEF Inv, StateRight, RankInv, RanksRight, PiChange
<1>2. pi' = [pi EXCEPT ![t] = waiter]
  BY DEF PiChange
<1>3. pi'[t] = waiter /\ \A u \in Tasks \ {t} : pi'[u] = pi[u]
  BY <1>1, <1>2
<1>4. RankRight(rec, waiter) /\ (prio = task[t].prio => RankRight(task[t], waiter))
  <2>1. ~ Unstarted(task[t])
    BY DEF PiChange, Unstarted
  <2> QED BY <1>1, <2>1, ReprioritisedRank
<1>5. \/ prio = task[t].prio /\ task' = task /\ fault' = fault
      \/ Commit(err, tk, outcomes)
      \/ task' = tk /\ fault' = "none"
  BY DEF PiChange, rt_mutex_setprio, Keep
<1>6. rec.class # "brr"
  BY <1>1 DEF Reprioritised, Task
<1> HIDE DEF prio, out, rec, outcomes
<1>7. tk[t] = rec /\ \A u \in Tasks \ {t} : tk[u] = task[u]
  BY <1>1
<1>8. err = "none"
  BY <1>4, <1>6, <1>7, OnlyBrrFaults
<1> HIDE DEF tk, err
<1>9. \/ task' = task /\ RankRight(task[t], waiter) /\ fault' = "none"
      \/ task' = tk /\ fault' = "none"
  BY <1>1, <1>4, <1>5, <1>8 DEF Commit
<1>10. RanksRight(task', pi')
  BY <1>1, <1>3, <1>4, <1>7, <1>9 DEF RanksRight
<1> QED BY <1>9, <1>10 DEF RankInv, FaultsAreBrr

\* set_user_nice past its check.
LEMMA SetNiceRanks ==
  ASSUME Inv, RankInv, NEW t \in Tasks, NEW static \in StaticPrios, SetNice(t, static), pi' = pi,
         fault = "none"
  PROVE  RankInv'
<1> DEFINE out == IF t \in rq.on_rq THEN dequeue_task(task, rq, t) ELSE rq
           stat == [task[t] EXCEPT !.static_prio = static]
           rec == effective_prio(stat)
           tk == [task EXCEPT ![t] = rec]
           placed == AssignBucket(tk, out, t)
           outcomes == {ReschedIf(tk[t].prio < task[t].prio \/ (tk[t].prio > task[t].prio /\ rq.curr = t),
                                  enqueue_task(placed, out, t))}
<1>1. task \in [Tasks -> Task] /\ RanksRight(task, pi) /\ RankRight(task[t], pi[t])
  BY DEF Inv, StateRight, RankInv, RanksRight
<1>2. static \in TaskPrios \ RtPrios /\ t # Idle
  BY StaticPriosAssumption, TasksAssumption
<1>3. CASE rt_policy(task[t].policy)
  <2>1. task' = [task EXCEPT ![t] = stat] /\ fault' = fault
    BY <1>1, <1>2, <1>3 DEF SetNice, task_has_rt_policy
  <2>2. RankRight(stat, pi[t])
    BY <1>1, <1>2, <1>3, StaticRank
  <2> HIDE DEF stat
  <2>3. RanksRight(task', pi)
    BY <1>1, <2>1, <2>2, OneRank
  <2> QED BY <2>1, <2>3 DEF RankInv, FaultsAreBrr
<1>4. CASE ~ rt_policy(task[t].policy)
  <2>1. \/ Commit(EnqueueFault(tk, out, t), placed, outcomes)
        \/ task' = tk /\ fault' = "none"
    BY <1>4 DEF SetNice, task_has_rt_policy, Keep
  <2>2. RankRight(rec, pi[t])
    BY <1>1, <1>2, <1>4, EffectiveRank
  <2> HIDE DEF rec, out, outcomes
  <2>3. tk \in [Tasks -> Task] /\ RanksRight(tk, pi)
    BY <1>1, <2>2, OneRank DEF RankRight
  <2> HIDE DEF tk
  <2>4. RanksRight(placed, pi)
    BY <2>3, PlacedRank
  <2> HIDE DEF placed
  <2>5. CASE Commit(EnqueueFault(tk, out, t), placed, outcomes)
    BY <2>3, <2>4, <2>5, CommitRank
  <2>6. CASE task' = tk /\ fault' = "none"
    BY <2>3, <2>6 DEF RankInv, FaultsAreBrr
  <2> QED BY <2>1, <2>5, <2>6
<1> QED BY <1>3, <1>4

\* normalize_rt_tasks on one task.
LEMMA NormalizeRanks ==
  ASSUME Inv, RankInv, NEW t \in Tasks, normalize_task(t)
  PROVE  RankInv'
<1> DEFINE rec == __setscheduler(task[t], "NORMAL", 0, 0, pi[t])
           tk == [task EXCEPT ![t] = rec]
<1>1. task \in [Tasks -> Task] /\ RanksRight(task, pi) /\ pi' = pi /\ fault = "none"
  BY DEF Inv, StateRight, RankInv, normalize_task
<1>2. CASE SetNice(t, DEFAULT_PRIO)
  BY <1>1, <1>2, SetNiceRanks, StaticPriosAssumption
<1>3. CASE task' = tk /\ fault' = "none"
  <2>1. RankRight(rec, pi[t])
    <3>1. 0 \in RtPrios /\ 0 \in Int
      BY PrioAssumption DEF RtPrios
    <3> QED BY <1>1, <3>1, SetschedulerRank DEF RanksRight, Policies
  <2> HIDE DEF rec
  <2>2. RanksRight(task', pi')
    BY <1>1, <1>3, <2>1, OneRank
  <2> QED BY <1>3, <2>2 DEF RankInv, FaultsAreBrr
<1> QED BY <1>2, <1>3 DEF normalize_task, Keep

\* A sleeping task is woken.
LEMMA WakeUpRanks ==
  ASSUME Inv, RankInv, NEW t \in Tasks, try_to_wake_up(t)
  PROVE  RankInv'
<1> DEFINE rec == [task[t] EXCEPT !.state = "running"]
           tk == [task EXCEPT ![t] = rec]
           placed == AssignBucket(tk, rq, t)
           outcomes == check_preempt_curr(placed, activate_task(placed, rq, t), t)
<1>1. task \in [Tasks -> Task] /\ RanksRight(task, pi) /\ pi' = pi
  BY DEF Inv, StateRight, RankInv, try_to_wake_up
<1>2. \/ task' = tk /\ fault' = fault
      \/ Commit(EnqueueFault(tk, rq, t), placed, outcomes)
  BY DEF try_to_wake_up
<1>3. rec \in Task /\ SameRank(task[t], rec) /\ ~ Unstarted(rec)
  BY <1>1 DEF Task, States, SameRank, Unstarted
<1> HIDE DEF rec, outcomes
<1>4. RankRight(rec, pi[t])
  BY <1>1, <1>3, SameRankRight DEF RanksRight
<1>5. tk \in [Tasks -> Task] /\ RanksRight(tk, pi)
  BY <1>1, <1>3, <1>4, OneRank
<1> HIDE DEF tk
<1>6. RanksRight(placed, pi)
  BY <1>5, PlacedRank
<1> HIDE DEF placed
<1>7. CASE task' = tk /\ fault' = fault
  BY <1>1, <1>5, <1>7 DEF RankInv, FaultsAreBrr
<1>8. CASE Commit(EnqueueFault(tk, rq, t), placed, outcomes)
  BY <1>1, <1>5, <1>6, <1>8, CommitRank
<1> QED BY <1>2, <1>7, <1>8

\* A new task is queued for the first time.
LEMMA WakeUpNewRanks ==
  ASSUME Inv, RankInv, NEW t \in Tasks, wake_up_new_task(t)
  PROVE  RankInv'
<1> DEFINE eff == effective_prio(task[t])
           rec == [eff EXCEPT !.state = "running"]
           tk == [task EXCEPT ![t] = rec]
           placed == AssignBucket(tk, rq, t)
           outcomes == check_preempt_curr(placed, activate_task(placed, rq, t), t)
<1>1. task \in [Tasks -> Task] /\ RanksRight(task, pi) /\ pi' = pi
  BY DEF Inv, StateRight, RankInv, wake_up_new_task
<1>2. Commit(EnqueueFault(tk, rq, t), placed, outcomes)
  BY DEF wake_up_new_task
<1>3. RankRight(task[t], MAX_PRIO) /\ pi[t] = MAX_PRIO
  BY <1>1 DEF RanksRight, RankRight, wake_up_new_task, Unstarted
<1>4. eff \in Task /\ SameRank(task[t], eff)
  BY <1>3, NewRank
<1> HIDE DEF eff
<1>5. rec \in Task /\ SameRank(task[t], rec) /\ ~ Unstarted(rec)
  BY <1>4 DEF Task, States, SameRank, Unstarted
<1> HIDE DEF rec, outcomes
<1>6. RankRight(rec, pi[t])
  BY <1>3, <1>5, SameRankRight
<1>7. tk \in [Tasks -> Task] /\ RanksRight(tk, pi)
  BY <1>1, <1>5, <1>6, OneRank
<1> HIDE DEF tk
<1>8. RanksRight(placed, pi)
  BY <1>7, PlacedRank
<1> HIDE DEF placed
<1> QED BY <1>1, <1>2, <1>7, <1>8, CommitRank

\* A child is made.
LEMMA ForkRanks ==
  ASSUME Inv, RankInv, NEW t \in Tasks, sched_fork(t)
  PROVE  RankInv'
<1>1. /\ task \in [Tasks -> Task] /\ RanksRight(task, pi) /\ pi' = pi /\ fault' = fault
      /\ rq.curr \in Tasks
  BY DEF Inv, StateRight, QueuesRight, RunQueue, RankInv, sched_fork, MayCall
<1>2. task' = [task EXCEPT ![t] = Child(task[rq.curr])]
  BY DEF sched_fork
<1>3. pi[t] = MAX_PRIO
  BY <1>1 DEF RanksRight, RankRight, sched_fork, Unstarted
<1>4. RankRight(Child(task[rq.curr]), pi[t])
  BY <1>1, <1>3, ChildRank DEF RanksRight
<1>5. RanksRight(task', pi')
  BY <1>1, <1>2, <1>4, OneRank
<1> QED BY <1>1, <1>5 DEF RankInv, FaultsAreBrr

\* Sleeping, scheduling and ticking change states and slices only.
LEMMA OtherRanks ==
  ASSUME Inv, RankInv,
         \/ prepare_to_sleep \/ sched_yield \/ scheduler_tick \/ sched_rt_period_timer
         \/ \E preempt, signal \in BOOLEAN : schedule(preempt, signal)
  PROVE  RankInv'
<1> DEFINE t == rq.curr
           asleep == [task[t] EXCEPT !.state = "sleeping"]
           awake == [task[t] EXCEPT !.state = "running"]
           sliced == SliceAfterTick(task[t])
<1>1. task \in [Tasks -> Task] /\ t \in Tasks \cup {Idle}
  BY DEF Inv, StateRight, QueuesRight, RunQueue
<1>2. pi' = pi /\ fault' = fault
  BY DEF prepare_to_sleep, sched_yield, scheduler_tick, sched_rt_period_timer, schedule
<1>3. \/ task' = task
      \/ t \in Tasks /\ task' = [task EXCEPT ![t] = asleep]
      \/ t \in Tasks /\ task' = [task EXCEPT ![t] = awake]
      \/ t \in Tasks /\ task' = [task EXCEPT ![t] = sliced]
  <2>1. CASE prepare_to_sleep
    BY <1>1, <2>1 DEF prepare_to_sleep, MayCall
  <2>2. CASE sched_yield \/ sched_rt_period_timer
    BY <2>2 DEF sched_yield, sched_rt_period_timer
  <2>3. CASE scheduler_tick
    BY <1>1, <2>3 DEF scheduler_tick, TickRt, TickOther, TickRoundRobin
  <2>4. ASSUME NEW preempt \in BOOLEAN, NEW signal \in BOOLEAN, schedule(preempt, signal)
        PROVE  task' = task \/ (t \in Tasks /\ task' = [task EXCEPT ![t] = awake])
    BY <1>1, <2>4 DEF schedule
  <2> QED BY <2>1, <2>2, <2>3, <2>4
<1>4. ASSUME t \in Tasks
      PROVE  /\ asleep \in Task /\ SameRank(task[t], asleep) /\ ~ Unstarted(asleep)
             /\ awake \in Task /\ SameRank(task[t], awake) /\ ~ Unstarted(awake)
  BY <1>1, <1>4 DEF Task, States, SameRank, Unstarted
<1>5. ASSUME t \in Tasks
      PROVE  sliced \in Task /\ SameRank(task[t], sliced) /\ sliced.state = task[t].state
  <2>1. task[t] \in Task
    BY <1>1, <1>5
  <2>2. SameRank(task[t], sliced)
    BY <2>1 DEF SliceAfterTick, Task, SameRank
  <2> QED BY <2>1, <2>2, SliceTyped
<1> HIDE DEF asleep, awake, sliced, t
<1>6. CASE task' = task
  BY <1>2, <1>6 DEF RankInv, FaultsAreBrr
<1>7. CASE t \in Tasks
  BY <1>1, <1>2, <1>3, <1>4, <1>5, <1>7, SameRanks DEF Unstarted
<1> QED BY <1>3, <1>6, <1>7

\* The boot state.
LEMMA RankInvInit == Init => RankInv
<1> SUFFICES ASSUME Init PROVE RankInv
  OBVIOUS
<1>1. ASSUME NEW t \in Tasks PROVE RankRight(task[t], pi[t])
  <2>1. task[t] = BootTask(t) /\ pi[t] = MAX_PRIO /\ task[t] \in Task
    BY InvInit DEF Init, Inv, StateRight
  <2>2. BootTask(t).prio = DEFAULT_PRIO /\ BootTask(t).normal_prio = DEFAULT_PRIO
        /\ BootTask(t).static_prio = DEFAULT_PRIO /\ BootTask(t).policy = "NORMAL"
        /\ BootTask(t).class = "fair"
    BY DEF BootTask
  <2>3. DEFAULT_PRIO \in TaskPrios
    BY StaticPriosAssumption
  <2> QED BY <2>1, <2>2, <2>3, WaiterPrios DEF RankRight, normal_prio, rt_policy, rt_mutex_getprio
<1> QED BY <1>1 DEF Init, RankInv, RanksRight, FaultsAreBrr

\* Every handler keeps the priorities right.
LEMMA RankInvNext == Inv /\ RankInv /\ [Next]_vars => RankInv'
<1> SUFFICES ASSUME Inv, RankInv, [Next]_vars PROVE RankInv'
  OBVIOUS
<1>1. ASSUME NEW t \in Tasks, NEW pol \in UserPolicies, NEW rtprio \in RtPrios,
             NEW bucket \in BucketArgs(pol), sched_setscheduler(t, pol, rtprio, bucket)
      PROVE  RankInv'
  BY <1>1, SetschedulerRanks DEF sched_setscheduler
<1>2. ASSUME NEW pol \in UserPolicies, NEW rtprio \in RtPrios,
             NEW bucket \in BucketArgs(pol), ResumeSetscheduler(pol, rtprio, bucket)
      PROVE  RankInv'
  <2>1. rq.curr \in Tasks
    BY <1>2 DEF ResumeSetscheduler, Inv, StateRight, QueuesRight, RunQueue
  <2>2. SetUnderLock(rq.curr, pol, rtprio, bucket, prev_class[rq.curr])
    BY <1>2 DEF ResumeSetscheduler
  <2> QED BY <2>1, <2>2, SetschedulerRanks
<1>3. CASE ReadPrevClass
  BY <1>3 DEF ReadPrevClass, RankInv, FaultsAreBrr
<1>4. ASSUME NEW t \in Tasks, NEW waiter \in PiPrios \cup {MAX_PRIO}, PiChange(t, waiter)
      PROVE  RankInv'
  BY <1>4, PiChangeRanks
<1>5. ASSUME NEW t \in Tasks, NEW static \in StaticPrios, set_user_nice(t, static)
      PROVE  RankInv'
  BY <1>5, SetNiceRanks DEF set_user_nice
<1>6. ASSUME NEW t \in Tasks,
             normalize_task(t) \/ try_to_wake_up(t) \/ sched_fork(t) \/ wake_up_new_task(t)
      PROVE  RankInv'
  BY <1>6, NormalizeRanks, WakeUpRanks, ForkRanks, WakeUpNewRanks
<1>7. CASE UNCHANGED vars
  BY <1>7 DEF vars, RankInv, FaultsAreBrr
<1> QED BY <1>1, <1>2, <1>3, <1>4, <1>5, <1>6, <1>7, OtherRanks DEF Next

\* In every reachable state.
LEMMA RankInvHolds == Spec => []RankInv
BY InvInit, InvNext, RankInvInit, RankInvNext, PTL DEF Spec

\* When waiters have real-time priorities, the priority of a task is always the
\* one its policy and its waiters give it.
THEOREM PiAlwaysHonoured ==
  ASSUME PiPrios \subseteq RtPrios
  PROVE  Spec => []PiHonoured
<1>1. RankInv => PiHonoured
  BY DEF RankInv, RanksRight, RankRight, Dropped, PiHonoured
<1> QED BY <1>1, RankInvHolds, PTL

\* Whatever priorities waiters have: normal_prio is that of the policy, and a
\* boost to a real-time priority, or of a task that has one, is never dropped.
RtBoostHonoured ==
  \A t \in Tasks :
    /\ task[t].normal_prio = normal_prio(task[t])
    /\ rt_prio(pi[t]) \/ rt_prio(task[t].normal_prio) =>
         task[t].prio = rt_mutex_getprio(task[t], pi[t])

\* The half of PiHonoured that needs no assumption on the waiters
\* (rt_mutex_setprio, and effective_prio as set_user_nice calls it).
THEOREM RtBoostAlwaysHonoured == Spec => []RtBoostHonoured
<1>1. ASSUME NEW t \in Tasks, RankRight(task[t], pi[t])
      PROVE  rt_prio(pi[t]) \/ rt_prio(task[t].normal_prio) => ~ Dropped(task[t], pi[t])
  BY PrioTypes, PiPriosAssumption DEF Dropped
<1>2. RankInv => RtBoostHonoured
  BY <1>1 DEF RankInv, RanksRight, RankRight, RtBoostHonoured
<1> QED BY <1>2, RankInvHolds, PTL

\* Without SCHED_BRR no enqueue writes outside the priority array, for all
\* priorities and boosts.
THEOREM NeverFaults ==
  ASSUME "BRR" \notin UserPolicies
  PROVE  Spec => []NoFault
<1>1. RankInv => NoFault
  BY DEF RankInv, FaultsAreBrr, NoFault
<1> QED BY <1>1, RankInvHolds, PTL

-----------------------------------------------------------------------------
(* What the handlers do to the run queue besides the task they are about.  *)

\* The timer is armed when there is something for it to do, and a throttled
\* queue owes runtime: the timer lifts the throttling when it is repaid.
TimerRight(q) ==
  /\ q.rt_throttled \/ q.rt_time > 0 \/ q.rt_nr_running > 0 => q.timer
  /\ q.rt_throttled => q.rt_time > 0

\* In s, an entry of u is before one of v.
InOrder(s, u, v) == \E i, j \in DOMAIN s : i < j /\ s[i] = u /\ s[j] = v

\* From the lists f to the lists g nobody comes to be before a task that is not
\* in S.
KeepsOrder(f, g, S) ==
  \A p \in RtPrios : \A u \in Tasks, v \in Tasks \ S :
    InOrder(g[p], u, v) => InOrder(f[p], u, v)

\* Appending e puts nobody before another task.
LEMMA AppendInOrder ==
  ASSUME NEW s \in Seq(Tasks), NEW e, NEW u, NEW v, v # e, InOrder(Append(s, e), u, v)
  PROVE  InOrder(s, u, v)
<1> DEFINE a == Append(s, e)
           n == Len(s)
<1>1. n \in Nat /\ DOMAIN s = 1 .. n /\ DOMAIN a = 1 .. n + 1 /\ a[n + 1] = e
      /\ \A i \in 1 .. n : a[i] = s[i]
  OBVIOUS
<1> HIDE DEF a, n
<1>2. PICK i \in 1 .. n + 1, j \in 1 .. n + 1 : i < j /\ a[i] = u /\ a[j] = v
  BY <1>1 DEF InOrder, a
<1>3. j # n + 1
  BY <1>1, <1>2
<1>4. i \in 1 .. n /\ j \in 1 .. n
  BY <1>1, <1>2, <1>3
<1> QED BY <1>1, <1>2, <1>4 DEF InOrder

\* Removing e puts nobody before another task.
LEMMA RemoveInOrder ==
  ASSUME NEW s \in Seq(Tasks), NEW e, NEW u, NEW v, InOrder(RemoveFirst(s, e), u, v)
  PROVE  InOrder(s, u, v)
<1> DEFINE r == RemoveFirst(s, e)
           n == Len(s)
<1>1. CASE \A i \in DOMAIN s : s[i] # e
  BY <1>1, RemoveFirstOut
<1>2. CASE \E i \in DOMAIN s : s[i] = e
  <2>1. PICK m \in DOMAIN s :
          /\ r \in Seq(Tasks) /\ Len(r) = n - 1
          /\ \A i \in 1 .. n - 1 : r[i] = s[IF i < m THEN i ELSE i + 1]
    BY <1>2, RemoveFirstIn
  <2>2. n \in Nat /\ m \in 1 .. n /\ DOMAIN s = 1 .. n /\ DOMAIN r = 1 .. n - 1
    BY <2>1
  <2> HIDE DEF r, n
  <2>3. PICK i \in 1 .. n - 1, j \in 1 .. n - 1 : i < j /\ r[i] = u /\ r[j] = v
    BY <2>2 DEF InOrder, r
  <2> DEFINE x == IF i < m THEN i ELSE i + 1
             y == IF j < m THEN j ELSE j + 1
  <2>4. x \in 1 .. n /\ y \in 1 .. n /\ x < y
    BY <2>2, <2>3
  <2>5. s[x] = u /\ s[y] = v
    BY <2>1, <2>3
  <2> HIDE DEF x, y
  <2> QED BY <2>2, <2>4, <2>5 DEF InOrder
<1> QED BY <1>1, <1>2

\* A step of q to r of a handler that moves t only: it asks for a reschedule
\* and throttles at most, leaves the timer armed, and puts nobody before a task
\* other than t and the running one.
Kept(q, r, t) ==
  /\ KeepsOrder(q.queue, r.queue, {t, q.curr})
  /\ r.curr = q.curr /\ r.linked \ {t} = q.linked \ {t} /\ r.cfs \ {t} = q.cfs \ {t}
  /\ q.resched \subseteq r.resched
  /\ q.rt_throttled => r.rt_throttled
  /\ TimerRight(q) => TimerRight(r)

\* No step at all.
LEMMA KeptSelf == ASSUME NEW q, NEW t PROVE Kept(q, q, t)
BY DEF Kept, KeepsOrder

\* One step after the other.
LEMMA KeptTwice ==
  ASSUME NEW q, NEW r, NEW s, NEW t, Kept(q, r, t), Kept(r, s, t)
  PROVE  Kept(q, s, t)
<1>1. q.resched \subseteq s.resched
  BY DEF Kept
<1>2. KeepsOrder(q.queue, s.queue, {t, q.curr})
  BY DEF Kept, KeepsOrder
<1> QED BY <1>1, <1>2, Zenon DEF Kept

\* A step that changes other fields only.
LEMMA KeptFields ==
  ASSUME NEW q, NEW r, NEW t,
         r.curr = q.curr, r.linked = q.linked, r.cfs = q.cfs, r.resched = q.resched,
         r.rt_throttled = q.rt_throttled, r.rt_time = q.rt_time,
         r.rt_nr_running = q.rt_nr_running, r.timer = q.timer, r.queue = q.queue
  PROVE  Kept(q, r, t)
BY DEF Kept, TimerRight, KeepsOrder

\* A reschedule is asked for.
LEMMA KeptResched ==
  ASSUME NEW q \in RunQueue, NEW x, NEW t
  PROVE  Kept(q, resched_task(q, x), t)
<1> DEFINE flags == q.resched \cup {x}
           r == [q EXCEPT !.resched = flags]
<1>1. resched_task(q, x) = r
  BY DEF resched_task
<1> HIDE DEF flags
<1>2. /\ r.curr = q.curr /\ r.linked = q.linked /\ r.cfs = q.cfs /\ r.resched = flags
      /\ r.rt_throttled = q.rt_throttled /\ r.rt_time = q.rt_time
      /\ r.rt_nr_running = q.rt_nr_running /\ r.timer = q.timer /\ r.queue = q.queue
  BY DEF RunQueue
<1> HIDE DEF r
<1>3. (TimerRight(q) => TimerRight(r)) /\ KeepsOrder(q.queue, r.queue, {t, q.curr})
  BY <1>2, Zenon DEF TimerRight, KeepsOrder
<1> QED BY <1>1, <1>2, <1>3 DEF Kept, flags

\* A reschedule is asked for, or not.
LEMMA KeptReschedIf ==
  ASSUME NEW q \in RunQueue, NEW c, NEW t
  PROVE  Kept(q, ReschedIf(c, q), t)
BY KeptSelf, KeptResched DEF ReschedIf

\* Charging d ticks; the timer of a queue with a real-time task is armed.
LEMMA KeptCharge ==
  ASSUME NEW tk, NEW q \in RunQueue, NEW d \in Nat, d = 0 \/ q.timer, NEW t
  PROVE  Kept(q, update_curr_rt(tk, q, d), t)
<1> DEFINE time == q.rt_time + d
           thr == ThrottlesAt(q, time)
           new == [q EXCEPT !.rt_time = time, !.rt_throttled = thr]
<1>1. time \in Nat /\ thr \in BOOLEAN /\ (time > 0 => q.rt_time > 0 \/ q.timer)
      /\ (q.rt_time > 0 => time > 0)
      /\ (thr => q.rt_throttled \/ time > 0) /\ (q.rt_throttled => thr)
  BY BandwidthAssumption DEF RunQueue, ThrottlesAt
<1> HIDE DEF time, thr
<1>2. /\ new \in RunQueue /\ new.curr = q.curr /\ new.linked = q.linked /\ new.cfs = q.cfs
      /\ new.resched = q.resched /\ new.rt_throttled = thr /\ new.rt_time = time
      /\ new.rt_nr_running = q.rt_nr_running /\ new.timer = q.timer /\ new.queue = q.queue
  BY <1>1 DEF RunQueue
<1> HIDE DEF new
<1>3. TimerRight(q) => TimerRight(new)
  BY <1>1, <1>2, Zenon DEF TimerRight
<1>7. KeepsOrder(q.queue, new.queue, {t, q.curr})
  BY <1>2 DEF KeepsOrder
<1>4. Kept(q, new, t)
  BY <1>1, <1>2, <1>3, <1>7 DEF Kept
<1>5. Kept(q, ReschedIf(rt_rq_throttled(new), new), t)
  BY <1>2, <1>4, KeptReschedIf, KeptTwice
<1>6. update_curr_rt(tk, q, d) = IF ~ task_has_rt_policy(tk, q.curr) THEN q
                                 ELSE ReschedIf(rt_rq_throttled(new), new)
  BY DEF update_curr_rt, new, time, thr
<1> QED BY <1>5, <1>6, KeptSelf

\* What runs is put back.
LEMMA KeptPut ==
  ASSUME NEW tk, NEW q \in RunQueue, NEW u, NEW t
  PROVE  Kept(q, put_prev_task(tk, q, u), t) /\ Kept(q, PutIfRunning(tk, q, u), t)
BY KeptSelf, KeptCharge DEF put_prev_task, PutIfRunning

\* The checks at the end of a handler.
LEMMA KeptChecks ==
  ASSUME NEW tk \in [Tasks -> Task], NEW q \in RunQueue, NEW u \in Tasks, NEW prev, NEW oldprio, NEW t
  PROVE  /\ \A r \in check_preempt_curr(tk, q, u) : Kept(q, r, t)
         /\ \A r \in check_class_changed(tk, q, u, prev, oldprio) : Kept(q, r, t)
<1>1. Kept(q, q, t) /\ Kept(q, resched_task(q, q.curr), t)
  BY KeptSelf, KeptResched
<1>2. \A c : Kept(q, ReschedIf(c, q), t)
  BY KeptReschedIf
<1>3. CurrClass(tk, q) \in {"idle", "fair", "rt", "brr"} /\ tk[u].class \in {"fair", "rt", "brr"}
  BY DEF CurrClass, RunQueue, Task, Classes
<1>4. \A r \in check_preempt_curr(tk, q, u) : Kept(q, r, t)
  BY <1>1, <1>2, <1>3 DEF check_preempt_curr
<1>5. \A r \in check_class_changed(tk, q, u, prev, oldprio) : Kept(q, r, t)
  BY <1>1, <1>2, <1>3, <1>4 DEF check_class_changed
<1> QED BY <1>4, <1>5

\* __enqueue_rt_entity arms the timer.
LEMMA KeptEnqueueEntity ==
  ASSUME NEW tk, NEW q \in RunQueue, NEW t
  PROVE  Kept(q, __enqueue_rt_entity(tk, q, t), t)
<1> DEFINE r == __enqueue_rt_entity(tk, q, t)
<1>1. /\ r.curr = q.curr /\ r.linked = q.linked \cup {t} /\ r.cfs = q.cfs
      /\ r.resched = q.resched /\ r.rt_throttled = q.rt_throttled /\ r.rt_time = q.rt_time
      /\ r.timer = TRUE
  BY DEF __enqueue_rt_entity, start_rt_bandwidth, RunQueue
<1>4. r.queue = [q.queue EXCEPT ![tk[t].prio] = Append(q.queue[tk[t].prio], t)]
  BY DEF __enqueue_rt_entity, start_rt_bandwidth, RunQueue
<1> HIDE DEF r
<1>2. TimerRight(q) => TimerRight(r)
  BY <1>1, Zenon DEF TimerRight
<1>5. KeepsOrder(q.queue, r.queue, {t, q.curr})
  <2> SUFFICES ASSUME NEW p \in RtPrios, NEW u \in Tasks, NEW v \in Tasks \ {t, q.curr},
                      InOrder(r.queue[p], u, v)
               PROVE  InOrder(q.queue[p], u, v)
    BY DEF KeepsOrder
  <2>1. q.queue \in [RtPrios -> Seq(Tasks)]
    BY DEF RunQueue
  <2>2. r.queue[p] = q.queue[p] \/ r.queue[p] = Append(q.queue[p], t)
    BY <1>4, <2>1
  <2> QED BY <2>1, <2>2, AppendInOrder
<1>3. Kept(q, r, t)
  BY <1>1, <1>2, <1>5 DEF Kept
<1> QED BY <1>3 DEF r

\* A task leaves its list.
LEMMA KeptDequeueEntity ==
  ASSUME NEW tk, NEW q \in RunQueue, NEW t
  PROVE  Kept(q, __dequeue_rt_entity(tk, q, t), t)
<1> DEFINE r == __dequeue_rt_entity(tk, q, t)
<1>1. /\ r.curr = q.curr /\ r.linked = q.linked \ {t} /\ r.cfs = q.cfs
      /\ r.resched = q.resched /\ r.rt_throttled = q.rt_throttled /\ r.rt_time = q.rt_time
      /\ r.timer = q.timer /\ r.rt_nr_running = q.rt_nr_running - 1
      /\ r.queue = [k \in RtPrios |-> RemoveFirst(q.queue[k], t)]
  BY DEF __dequeue_rt_entity, RunQueue
<1>2. r.rt_nr_running > 0 => q.rt_nr_running > 0
  <2>1. q.rt_nr_running \in Int
    BY DEF RunQueue
  <2> HIDE DEF r
  <2> QED BY <1>1, <2>1
<1> HIDE DEF r
<1>3. TimerRight(q) => TimerRight(r)
  BY <1>1, <1>2, Zenon DEF TimerRight
<1>5. KeepsOrder(q.queue, r.queue, {t, q.curr})
  <2> SUFFICES ASSUME NEW p \in RtPrios, NEW u \in Tasks, NEW v \in Tasks \ {t, q.curr},
                      InOrder(r.queue[p], u, v)
               PROVE  InOrder(q.queue[p], u, v)
    BY DEF KeepsOrder
  <2>1. q.queue[p] \in Seq(Tasks) /\ r.queue[p] = RemoveFirst(q.queue[p], t)
    BY <1>1 DEF RunQueue
  <2> QED BY <2>1, RemoveInOrder
<1>4. Kept(q, r, t)
  BY <1>1, <1>3, <1>5 DEF Kept
<1> QED BY <1>4 DEF r

\* A bucket is counted.
LEMMA KeptCountBucket ==
  ASSUME NEW q \in RunQueue, NEW b, NEW n \in Int, NEW t
  PROVE  Kept(q, CountBucket(q, b, n), t) /\ CountBucket(q, b, n) \in RunQueue
<1>1. CountBucket(q, b, n) \in RunQueue
  BY CountBucketFields
<1>2. CASE b \in Buckets
  <2> DEFINE counts == [q.numInBucket EXCEPT ![b] = q.numInBucket[b] + n]
             r == CountBucket(q, b, n)
  <2>1. r = [q EXCEPT !.numInBucket = counts]
    BY <1>2 DEF CountBucket
  <2> HIDE DEF counts, r
  <2>2. Kept(q, r, t)
    BY <2>1, KeptFields DEF RunQueue
  <2> QED BY <1>1, <2>2 DEF r
<1>3. CASE b \notin Buckets
  BY <1>1, <1>3, KeptSelf DEF CountBucket
<1> QED BY <1>2, <1>3

\* The classes' enqueue of a task that is not linked.
LEMMA KeptEnqueueRt ==
  ASSUME NEW tk \in [Tasks -> Task], NEW q \in RunQueue, NEW t \in Tasks \ q.linked
  PROVE  /\ Kept(q, enqueue_rt_entity(tk, q, t), t)
         /\ Kept(q, enqueue_rt_entity_brr(tk, q, t), t)
<1>1. Kept(q, enqueue_rt_entity(tk, q, t), t)
  BY KeptEnqueueEntity DEF enqueue_rt_entity, dequeue_rt_entity
<1>2. Kept(q, enqueue_rt_entity_brr(tk, q, t), t)
  <2> DEFINE c == CountBucket(q, tk[t].bid, 1)
  <2>1. enqueue_rt_entity_brr(tk, q, t) = __enqueue_rt_entity(tk, c, t)
    BY DEF enqueue_rt_entity_brr, dequeue_rt_entity_brr
  <2>2. Kept(q, c, t) /\ c \in RunQueue
    BY KeptCountBucket
  <2> HIDE DEF c
  <2>3. Kept(c, __enqueue_rt_entity(tk, c, t), t)
    BY <2>2, KeptEnqueueEntity
  <2> QED BY <2>1, <2>2, <2>3, KeptTwice
<1> QED BY <1>1, <1>2

\* The classes' dequeue of a task.
LEMMA KeptDequeueRt ==
  ASSUME NEW tk \in [Tasks -> Task], NEW q \in RunQueue, NEW t \in Tasks
  PROVE  /\ Kept(q, dequeue_rt_entity(tk, q, t), t)
         /\ Kept(q, dequeue_rt_entity_brr(tk, q, t), t)
<1>1. Kept(q, dequeue_rt_entity(tk, q, t), t)
  BY KeptSelf, KeptDequeueEntity DEF dequeue_rt_entity
<1>2. Kept(q, dequeue_rt_entity_brr(tk, q, t), t)
  <2> DEFINE c == CountBucket(q, tk[t].bid, -1)
  <2>2. Kept(q, c, t) /\ c \in RunQueue
    BY KeptCountBucket
  <2> HIDE DEF c
  <2>3. Kept(c, __dequeue_rt_entity(tk, c, t), t)
    BY <2>2, KeptDequeueEntity
  <2>4. Kept(q, __dequeue_rt_entity(tk, c, t), t)
    BY <2>2, <2>3, KeptTwice
  <2> QED BY <2>4, KeptSelf DEF dequeue_rt_entity_brr, c
<1> QED BY <1>1, <1>2

\* The enqueue of a task, with and without the count of running tasks.
LEMMA KeptEnqueueTask ==
  ASSUME NEW tk \in [Tasks -> Task], NEW q, QueuesRight(tk, q), NEW t \in Tasks \ q.on_rq,
         Queueable(tk, t)
  PROVE  Kept(q, enqueue_task(tk, q, t), t) /\ Kept(q, activate_task(tk, q, t), t)
<1> DEFINE new == [q EXCEPT !.on_rq = q.on_rq \cup {t}]
           r == enqueue_task(tk, q, t)
           a == activate_task(tk, q, t)
<1>1. q \in RunQueue /\ t \notin q.linked
  BY DEF QueuesRight, ClassesMatch
<1>2. new \in RunQueue
  BY <1>1 DEF RunQueue
<1>3. Kept(q, new, t) /\ new.linked = q.linked
  BY <1>1, KeptFields DEF RunQueue
<1>4. tk[t].class \in {"fair", "rt", "brr"}
  BY DEF Task, Classes
<1> HIDE DEF new
<1>5. ASSUME tk[t].class = "fair" PROVE Kept(new, r, t)
  <2> DEFINE f == [new EXCEPT !.cfs = new.cfs \cup {t}]
  <2>1. r = f
    BY <1>5 DEF enqueue_task, new
  <2>2. /\ f.curr = new.curr /\ f.linked = new.linked /\ f.resched = new.resched
        /\ f.rt_throttled = new.rt_throttled /\ f.rt_time = new.rt_time
        /\ f.rt_nr_running = new.rt_nr_running /\ f.timer = new.timer
        /\ f.cfs = new.cfs \cup {t} /\ f.queue = new.queue
    BY <1>2 DEF RunQueue
  <2> HIDE DEF f, r
  <2>3. Kept(new, f, t)
    BY <2>2 DEF Kept, TimerRight, KeepsOrder
  <2> QED BY <2>1, <2>3
<1>6. ASSUME tk[t].class # "fair" PROVE Kept(new, r, t)
  <2>1. r = enqueue_rt_entity(tk, new, t) \/ r = enqueue_rt_entity_brr(tk, new, t)
    BY <1>4, <1>6 DEF enqueue_task, new
  <2> HIDE DEF r
  <2> QED BY <1>1, <1>2, <1>3, <2>1, KeptEnqueueRt
<1>7. Kept(q, r, t)
  BY <1>3, <1>5, <1>6, KeptTwice
<1>8. r \in RunQueue
  BY EnqueueTask DEF QueuesRight
<1>9. a = [r EXCEPT !.nr_running = r.nr_running + 1]
  BY DEF activate_task
<1> HIDE DEF r, a
<1>10. Kept(r, a, t)
  BY <1>8, <1>9, KeptFields DEF RunQueue
<1> QED BY <1>7, <1>10, KeptTwice DEF r, a

\* And the dequeue.
LEMMA KeptDequeueTask ==
  ASSUME NEW tk \in [Tasks -> Task], NEW q, QueuesRight(tk, q), NEW t \in q.on_rq
  PROVE  Kept(q, dequeue_task(tk, q, t), t) /\ Kept(q, deactivate_task(tk, q, t), t)
<1> DEFINE new == [q EXCEPT !.on_rq = q.on_rq \ {t}]
           charged == update_curr_rt(tk, new, 0)
           r == dequeue_task(tk, q, t)
           a == deactivate_task(tk, q, t)
<1>1. q \in RunQueue /\ t \in Tasks
  BY DEF QueuesRight, RunQueue
<1>2. new \in RunQueue
  BY <1>1 DEF RunQueue
<1>3. Kept(q, new, t)
  BY <1>1, KeptFields DEF RunQueue
<1>4. tk[t].class \in {"fair", "rt", "brr"}
  BY <1>1 DEF Task, Classes
<1> HIDE DEF new
<1>5. ASSUME tk[t].class = "fair" PROVE Kept(new, r, t)
  <2> DEFINE f == [new EXCEPT !.cfs = new.cfs \ {t}]
  <2>1. r = f
    BY <1>5 DEF dequeue_task, new
  <2>2. /\ f.curr = new.curr /\ f.linked = new.linked /\ f.resched = new.resched
        /\ f.rt_throttled = new.rt_throttled /\ f.rt_time = new.rt_time
        /\ f.rt_nr_running = new.rt_nr_running /\ f.timer = new.timer
        /\ f.cfs = new.cfs \ {t} /\ f.queue = new.queue
    BY <1>2 DEF RunQueue
  <2> HIDE DEF f, r
  <2>3. Kept(new, f, t)
    BY <2>2 DEF Kept, TimerRight, KeepsOrder
  <2> QED BY <2>1, <2>3
<1>6. ASSUME tk[t].class # "fair" PROVE Kept(new, r, t)
  <2>1. r = dequeue_rt_entity(tk, charged, t) \/ r = dequeue_rt_entity_brr(tk, charged, t)
    BY <1>4, <1>6 DEF dequeue_task, new
  <2>2. charged \in RunQueue /\ Kept(new, charged, t)
    BY <1>2, SoftCharge, KeptCharge DEF SoftStep
  <2> HIDE DEF r, charged
  <2>3. Kept(charged, r, t)
    BY <1>1, <2>1, <2>2, KeptDequeueRt
  <2> QED BY <2>2, <2>3, KeptTwice
<1>7. Kept(q, r, t)
  BY <1>3, <1>5, <1>6, KeptTwice
<1>8. r \in RunQueue
  BY DequeueTask DEF QueuesRight
<1>9. a = [r EXCEPT !.nr_running = r.nr_running - 1]
  BY DEF deactivate_task
<1> HIDE DEF r, a
<1>10. Kept(r, a, t)
  BY <1>8, <1>9, KeptFields DEF RunQueue
<1> QED BY <1>7, <1>10, KeptTwice DEF r, a

\* Of a task, the placement in a bucket changes the bucket only.
LEMMA PlacedBid ==
  ASSUME NEW tk \in [Tasks -> Task], NEW q, NEW t \in Tasks
  PROVE  \E bid \in Int : AssignBucket(tk, q, t)[t] = [tk[t] EXCEPT !.bid = bid]
<1> DEFINE r == AssignBucket(tk, q, t)
           b == ChooseBucket(q, tk[t].bid)
<1>1. CASE tk[t].class = "brr"
  <2>1. r = [tk EXCEPT ![t].bid = b]
    BY <1>1 DEF AssignBucket
  <2> HIDE DEF b
  <2>2. r[t] = [tk[t] EXCEPT !.bid = b]
    BY <2>1
  <2>3. [tk[t] EXCEPT !.bid = b].bid = b
    BY DEF Task
  <2>4. b \in Int
    BY <2>2, <2>3, Placed DEF Task
  <2> HIDE DEF r
  <2> QED BY <2>2, <2>4 DEF r
<1>2. CASE tk[t].class # "brr"
  <2>1. r = tk
    BY <1>2 DEF AssignBucket
  <2>2. tk[t] = [tk[t] EXCEPT !.bid = tk[t].bid] /\ tk[t].bid \in Int
    BY DEF Task
  <2> QED BY <2>1, <2>2
<1> QED BY <1>1, <1>2

\* A queued task goes out, changes and comes in again.
LEMMA KeptMoved ==
  ASSUME NEW tk \in [Tasks -> Task], NEW tk2 \in [Tasks -> Task],
         NEW q, QueuesRight(tk, q), NEW t \in q.on_rq,
         \A u \in Tasks \ {t} : tk2[u] = tk[u], Queueable(tk2, t),
         NEW d, d = deactivate_task(tk, q, t) \/ d = dequeue_task(tk, q, t),
         NEW out, SoftStep(d, out), Kept(d, out, t),
         NEW m, m = activate_task(tk2, out, t) \/ m = enqueue_task(tk2, out, t)
  PROVE  /\ Kept(q, m, t) /\ QueuesRight(tk2, m)
         /\ m.on_rq = q.on_rq /\ m.curr = q.curr
<1>1. t \in Tasks
  BY DEF QueuesRight, RunQueue
<1>2. Kept(q, d, t) /\ QueuesRight(tk, d) /\ d.on_rq = q.on_rq \ {t}
  BY KeptDequeueTask, DequeueTask, DeactivateTask
<1>3. QueuesRight(tk, out) /\ out.on_rq = q.on_rq \ {t}
  BY <1>2, SoftKeeps DEF SoftStep
<1>4. out.on_rq \in SUBSET Tasks
  BY <1>3 DEF QueuesRight, RunQueue
<1>5. SameQueued(tk, tk2, out)
  BY <1>3, <1>4 DEF SameQueued
<1>6. QueuesRight(tk2, out) /\ t \in Tasks \ out.on_rq
  BY <1>1, <1>3, <1>5, TasksChange
<1>7. Kept(out, m, t)
  BY <1>6, KeptEnqueueTask
<1>8. Kept(q, m, t)
  BY <1>2, <1>7, KeptTwice
<1> QED BY <1>8, OutChangedIn

\* A task off the run queue comes in.
LEMMA KeptAdded ==
  ASSUME NEW tk \in [Tasks -> Task], NEW tk2 \in [Tasks -> Task],
         NEW q, QueuesRight(tk, q), NEW t \in Tasks \ q.on_rq,
         \A u \in Tasks \ {t} : tk2[u] = tk[u], Queueable(tk2, t),
         NEW m, m = activate_task(tk2, q, t)
  PROVE  /\ Kept(q, m, t) /\ QueuesRight(tk2, m)
         /\ m.on_rq = q.on_rq \cup {t} /\ m.curr = q.curr
<1>1. q.on_rq \in SUBSET Tasks
  BY DEF QueuesRight, RunQueue
<1>2. SameQueued(tk, tk2, q)
  BY <1>1 DEF SameQueued
<1>3. QueuesRight(tk2, q)
  BY <1>2, TasksChange
<1> QED BY <1>3, KeptEnqueueTask, ActivateTask

-----------------------------------------------------------------------------
(* What a handler does, up to the checks it ends with.                     *)

\* Of the tasks, t at most changes.
OnlyChanges(t) == \A u \in Tasks \ {t} : task'[u] = task[u]

\* The queues, and what they look at of the tasks, did not change.
Quiet ==
  /\ SameQueued(task, task', rq) /\ Kept(rq, rq', Idle)
  /\ rq'.linked = rq.linked /\ rq'.cfs = rq.cfs /\ rq'.rt_nr_boosted = rq.rt_nr_boosted

\* m is the run queue after t was moved, before the checks.
Moved(m, t) ==
  /\ OnlyChanges(t)
  /\ QueuesRight(task', m) /\ m.on_rq = rq.on_rq \cup {t} /\ m.curr = rq.curr
  /\ Kept(rq, m, t)

\* A change of a task the run queue does not look at.
LEMMA SoftQuiet ==
  ASSUME Inv, SoftStep(rq, rq'), Kept(rq, rq', Idle), NEW t,
         SameQueued(task, task', rq) \/ (t \notin rq.on_rq /\ OnlyChanges(t))
  PROVE  Quiet
<1>1. rq.on_rq \in SUBSET Tasks
  BY DEF Inv, StateRight, QueuesRight, RunQueue
<1>2. SameQueued(task, task', rq)
  BY <1>1 DEF SameQueued, OnlyChanges
<1> QED BY <1>2 DEF Quiet, SoftStep, SameRt

\* Nothing happens to the tasks and the run queue.
LEMMA NothingQuiet == ASSUME Inv, UNCHANGED <<task, rq>> PROVE Quiet
BY KeptSelf DEF Quiet, SameQueued

\* sched_setscheduler under the lock.
LEMMA SetschedulerMoves ==
  ASSUME Inv, NEW t \in Tasks, NEW pol \in UserPolicies, NEW rtprio \in RtPrios,
         NEW bucket \in BucketArgs(pol), NEW prevClass,
         SetUnderLock(t, pol, rtprio, bucket, prevClass)
  PROVE  \/ Quiet
         \/ t \in rq.on_rq /\ \E m : Moved(m, t)
              /\ rq' \in check_class_changed(task', m, t, prevClass, task[t].prio)
<1> DEFINE d == deactivate_task(task, rq, t)
           out == PutIfRunning(task, d, t)
           off == PutIfRunning(task, rq, t)
           rec == __setscheduler(task[t], pol, rtprio, bucket, pi[t])
           tk == [task EXCEPT ![t] = rec]
           placed == AssignBucket(tk, out, t)
           queued == activate_task(placed, out, t)
           err == EnqueueFault(tk, out, t)
           outcomes == check_class_changed(placed, queued, t, prevClass, task[t].prio)
<1>1. StateRight(task, rq) /\ task \in [Tasks -> Task] /\ QueuesRight(task, rq)
      /\ rq \in RunQueue /\ pi \in [Tasks -> 0 .. MAX_PRIO] /\ rq.on_rq \in SUBSET Tasks
  BY DEF Inv, StateRight, QueuesRight, RunQueue
<1>2. rec \in Task
  <2>1. bucket \in Int /\ pol \in Policies
    BY UserBucketsAssumption, PoliciesAssumption DEF BucketArgs
  <2> QED BY <1>1, <2>1, SetschedulerTyped
<1> HIDE DEF rec
<1>3. tk \in [Tasks -> Task] /\ tk[t] = rec /\ \A u \in Tasks \ {t} : tk[u] = task[u]
  BY <1>1, <1>2
<1> HIDE DEF tk
<1>4. CASE t \notin rq.on_rq
  <2>1. task' = tk /\ rq' = off
    BY <1>4 DEF SetUnderLock, Keep, rec, tk
  <2>2. SoftStep(rq, off) /\ Kept(rq, off, Idle)
    BY <1>1, SoftPut, KeptPut
  <2> HIDE DEF off
  <2>3. OnlyChanges(t)
    BY <1>3, <2>1 DEF OnlyChanges
  <2> QED BY <1>4, <2>1, <2>2, <2>3, SoftQuiet
<1>5. CASE t \in rq.on_rq
  <2>1. Commit(err, placed, outcomes)
    BY <1>5 DEF SetUnderLock, rec, tk
  <2>2. CASE err # "none"
    BY <2>1, <2>2, NothingQuiet DEF Commit
  <2>3. CASE err = "none"
    <3>1. task' = placed /\ rq' \in outcomes
      BY <2>1, <2>3 DEF Commit
    <3>2. d \in RunQueue
      BY <1>1, <1>5, DeactivateTask DEF QueuesRight
    <3> HIDE DEF d
    <3>3. SoftStep(d, out) /\ Kept(d, out, t)
      BY <3>2, SoftPut, KeptPut
    <3> HIDE DEF out
    <3>4. /\ placed \in [Tasks -> Task]
          /\ \A u \in Tasks \ {t} : placed[u] = task[u]
          /\ Queueable(placed, t)
      BY <1>3, <2>3, Placed
    <3> HIDE DEF placed, err, outcomes
    <3>6. /\ Kept(rq, queued, t) /\ QueuesRight(placed, queued)
          /\ queued.on_rq = rq.on_rq /\ queued.curr = rq.curr
      <4> HIDE DEF queued
      <4> QED BY <1>1, <1>5, <3>3, <3>4, KeptMoved DEF d, queued
    <3>7. queued.on_rq = rq.on_rq \cup {t}
      BY <1>5, <3>6
    <3>8. Moved(queued, t) /\ rq' \in check_class_changed(task', queued, t, prevClass, task[t].prio)
      <4> HIDE DEF queued
      <4> QED BY <3>1, <3>4, <3>6, <3>7 DEF Moved, OnlyChanges, outcomes, queued
    <3> HIDE DEF queued
    <3> QED BY <1>5, <3>8
  <2> QED BY <2>2, <2>3
<1> QED BY <1>4, <1>5

\* rt_mutex_setprio.
LEMMA SetprioMoves ==
  ASSUME Inv, NEW t \in Tasks, NEW prio \in TaskPrios, rt_mutex_setprio(t, prio)
  PROVE  \/ Quiet
         \/ t \in rq.on_rq /\ \E m : Moved(m, t)
              /\ rq' \in check_class_changed(task', m, t, task[t].class, task[t].prio)
              /\ task'[t] = Reprioritised(task[t], prio)
<1> DEFINE d == dequeue_task(task, rq, t)
           out == PutIfRunning(task, d, t)
           off == PutIfRunning(task, rq, t)
           rec == Reprioritised(task[t], prio)
           tk == [task EXCEPT ![t] = rec]
           queued == enqueue_task(tk, out, t)
           err == EnqueueFault(tk, out, t)
           outcomes == check_class_changed(tk, queued, t, task[t].class, task[t].prio)
<1>1. StateRight(task, rq) /\ task \in [Tasks -> Task] /\ QueuesRight(task, rq)
      /\ rq \in RunQueue
  BY DEF Inv, StateRight, QueuesRight
<1>2. rec \in Task
  BY <1>1, ReprioritisedTyped
<1> HIDE DEF rec
<1>3. tk \in [Tasks -> Task] /\ tk[t] = rec /\ \A u \in Tasks \ {t} : tk[u] = task[u]
  BY <1>1, <1>2
<1> HIDE DEF tk
<1>4. CASE t \notin rq.on_rq
  <2>1. task' = tk /\ rq' = off
    BY <1>4 DEF rt_mutex_setprio, Keep, rec, tk
  <2>2. SoftStep(rq, off) /\ Kept(rq, off, Idle)
    BY <1>1, SoftPut, KeptPut
  <2> HIDE DEF off
  <2>3. OnlyChanges(t)
    BY <1>3, <2>1 DEF OnlyChanges
  <2> QED BY <1>4, <2>1, <2>2, <2>3, SoftQuiet
<1>5. CASE t \in rq.on_rq
  <2>1. Commit(err, tk, outcomes)
    BY <1>5 DEF rt_mutex_setprio, rec, tk
  <2>2. CASE err # "none"
    BY <2>1, <2>2, NothingQuiet DEF Commit
  <2>3. CASE err = "none"
    <3>1. task' = tk /\ rq' \in outcomes
      BY <2>1, <2>3 DEF Commit
    <3>2. d \in RunQueue
      BY <1>1, <1>5, DequeueTask DEF QueuesRight
    <3> HIDE DEF d
    <3>3. SoftStep(d, out) /\ Kept(d, out, t)
      BY <3>2, SoftPut, KeptPut
    <3> HIDE DEF out
    <3>4. Queueable(tk, t)
      BY <1>3, <2>3, Placed
    <3> HIDE DEF err, outcomes
    <3>6. /\ Kept(rq, queued, t) /\ QueuesRight(tk, queued)
          /\ queued.on_rq = rq.on_rq /\ queued.curr = rq.curr
      <4> HIDE DEF queued
      <4> QED BY <1>1, <1>3, <1>5, <3>3, <3>4, KeptMoved DEF d, queued
    <3>7. queued.on_rq = rq.on_rq \cup {t}
      BY <1>5, <3>6
    <3>8. Moved(queued, t) /\ rq' \in check_class_changed(task', queued, t, task[t].class, task[t].prio)
      <4> HIDE DEF queued
      <4> QED BY <1>3, <3>1, <3>6, <3>7 DEF Moved, OnlyChanges, outcomes, queued
    <3> HIDE DEF queued
    <3> QED BY <1>3, <1>5, <3>1, <3>8 DEF rec
  <2> QED BY <2>2, <2>3
<1> QED BY <1>4, <1>5

\* When set_user_nice asks for a reschedule: the task gained priority, or lost it
\* while it runs.
NiceAsks(t) ==
  \/ task'[t].prio < task[t].prio
  \/ task'[t].prio > task[t].prio /\ rq.curr = t

\* set_user_nice past its check.
LEMMA SetNiceMoves ==
  ASSUME Inv, NEW t \in Tasks, NEW static \in StaticPrios, SetNice(t, static)
  PROVE  \/ Quiet
         \/ /\ t \in rq.on_rq /\ ~ rt_policy(task[t].policy)
            /\ \E m : Moved(m, t) /\ rq' = ReschedIf(NiceAsks(t), m)
            /\ \E bid \in Int : task'[t] =
                 [effective_prio([task[t] EXCEPT !.static_prio = static]) EXCEPT !.bid = bid]
<1> DEFINE d == dequeue_task(task, rq, t)
           rec0 == [task[t] EXCEPT !.static_prio = static]
           rec == effective_prio(rec0)
           tk == [task EXCEPT ![t] = rec]
           err == EnqueueFault(tk, d, t)
           placed == AssignBucket(tk, d, t)
           queued == enqueue_task(placed, d, t)
<1>1. StateRight(task, rq) /\ task \in [Tasks -> Task] /\ QueuesRight(task, rq)
      /\ rq \in RunQueue /\ SoftStep(rq, rq) /\ Kept(rq, rq, Idle) /\ t # Idle
  BY SoftSelf, KeptSelf, TasksAssumption DEF Inv, StateRight, QueuesRight
<1>2. rec0 \in Task /\ rec0.prio = task[t].prio /\ rec0.normal_prio = task[t].normal_prio
      /\ rec0.class = task[t].class /\ rec0.bid = task[t].bid
  BY <1>1, StaticPriosAssumption DEF Task
<1>3. CASE task_has_rt_policy(task, t)
  <2>1. task' = [task EXCEPT ![t] = rec0] /\ rq' = rq
    BY <1>1, <1>3 DEF SetNice
  <2> HIDE DEF rec0
  <2>2. task'[t] = rec0 /\ \A u \in Tasks \ {t} : task'[u] = task[u]
    BY <1>1, <1>2, <2>1
  <2>3. rq.on_rq \in SUBSET Tasks
    BY <1>1 DEF RunQueue
  <2>4. SameQueued(task, task', rq)
    BY <1>2, <2>2, <2>3 DEF SameQueued
  <2> QED BY <1>1, <2>1, <2>4, SoftQuiet
<1>4. rec \in Task
  <2> HIDE DEF rec0
  <2> QED BY <1>2, EffectiveTyped
<1> HIDE DEF rec
<1>5. tk \in [Tasks -> Task] /\ tk[t] = rec /\ \A u \in Tasks \ {t} : tk[u] = task[u]
  BY <1>1, <1>4
<1> HIDE DEF tk
<1>6. CASE ~ task_has_rt_policy(task, t) /\ t \notin rq.on_rq
  <2>1. task' = tk /\ rq' = rq
    BY <1>6 DEF SetNice, Keep, rec, tk
  <2>2. OnlyChanges(t)
    BY <1>5, <2>1 DEF OnlyChanges
  <2> QED BY <1>1, <1>6, <2>1, <2>2, SoftQuiet
<1>7. CASE ~ task_has_rt_policy(task, t) /\ t \in rq.on_rq
  <2> DEFINE cond == \/ tk[t].prio < task[t].prio
                     \/ (tk[t].prio > task[t].prio /\ rq.curr = t)
             last == ReschedIf(cond, queued)
  <2>1. Commit(err, placed, {last})
    BY <1>7 DEF SetNice, rec, tk
  <2>2. CASE err # "none"
    BY <2>1, <2>2, NothingQuiet DEF Commit
  <2>3. CASE err = "none"
    <3>1. task' = placed /\ rq' = last
      BY <2>1, <2>3 DEF Commit
    <3>2. d \in RunQueue
      BY <1>1, <1>7, DequeueTask DEF QueuesRight
    <3>3. SoftStep(d, d) /\ Kept(d, d, t)
      BY <3>2, SoftSelf, KeptSelf
    <3> HIDE DEF d
    <3>4. /\ placed \in [Tasks -> Task]
          /\ \A u \in Tasks \ {t} : placed[u] = task[u]
          /\ Queueable(placed, t)
      BY <1>5, <2>3, Placed
    <3>5. \E bid \in Int : placed[t] = [rec EXCEPT !.bid = bid]
      BY <1>5, PlacedBid
    <3>6. placed[t].prio = tk[t].prio
      BY <1>4, <1>5, <3>5 DEF Task
    <3> HIDE DEF placed, err
    <3>7. /\ Kept(rq, queued, t) /\ QueuesRight(placed, queued)
          /\ queued.on_rq = rq.on_rq /\ queued.curr = rq.curr
      <4> HIDE DEF queued
      <4> QED BY <1>1, <1>7, <3>3, <3>4, KeptMoved DEF d, queued
    <3>8. queued.on_rq = rq.on_rq \cup {t}
      BY <1>7, <3>7
    <3> HIDE DEF queued
    <3>9. Moved(queued, t)
      BY <3>1, <3>4, <3>7, <3>8 DEF Moved, OnlyChanges
    <3>10. rq' = ReschedIf(NiceAsks(t), queued)
      BY <3>1, <3>6 DEF NiceAsks
    <3>11. ~ rt_policy(task[t].policy)
      BY <1>1, <1>7 DEF task_has_rt_policy
    <3> QED BY <1>7, <3>1, <3>5, <3>9, <3>10, <3>11 DEF rec
  <2> QED BY <2>2, <2>3
<1> QED BY <1>3, <1>6, <1>7

\* normalize_rt_tasks on one task: the real-time ones become fair and the running
\* task is asked to reschedule.
LEMMA NormalizeMoves ==
  ASSUME Inv, NEW t \in Tasks, normalize_task(t)
  PROVE  \/ SetNice(t, DEFAULT_PRIO)
         \/ Quiet
         \/ t \in rq.on_rq /\ \E m : Moved(m, t) /\ rq' = resched_task(m, rq.curr)
<1> DEFINE d == deactivate_task(task, rq, t)
           rec == __setscheduler(task[t], "NORMAL", 0, 0, pi[t])
           tk == [task EXCEPT ![t] = rec]
           queued == activate_task(tk, d, t)
           last == resched_task(queued, rq.curr)
<1>1. StateRight(task, rq) /\ task \in [Tasks -> Task] /\ QueuesRight(task, rq)
      /\ rq \in RunQueue /\ pi \in [Tasks -> 0 .. MAX_PRIO]
      /\ SoftStep(rq, rq) /\ Kept(rq, rq, Idle)
  BY SoftSelf, KeptSelf DEF Inv, StateRight, QueuesRight
<1>2. rec \in Task
  BY <1>1, SetschedulerTyped, PrioAssumption DEF Policies, RtPrios
<1>3. rec.class = "fair"
  BY <1>1 DEF __setscheduler, ClassOf, Task
<1>4. SetNice(t, DEFAULT_PRIO) \/ Keep(tk, IF t \in rq.on_rq THEN last ELSE rq)
  BY DEF normalize_task
<1> HIDE DEF rec
<1>5. tk \in [Tasks -> Task] /\ tk[t] = rec /\ \A u \in Tasks \ {t} : tk[u] = task[u]
  BY <1>1, <1>2
<1>6. Queueable(tk, t)
  BY <1>3, <1>5 DEF Queueable
<1> HIDE DEF tk
<1>7. CASE Keep(tk, IF t \in rq.on_rq THEN last ELSE rq) /\ t \notin rq.on_rq
  <2>1. task' = tk /\ rq' = rq
    BY <1>7 DEF Keep
  <2>2. OnlyChanges(t)
    BY <1>5, <2>1 DEF OnlyChanges
  <2> QED BY <1>1, <1>7, <2>1, <2>2, SoftQuiet
<1>8. CASE Keep(tk, IF t \in rq.on_rq THEN last ELSE rq) /\ t \in rq.on_rq
  <2>1. task' = tk /\ rq' = last
    BY <1>8 DEF Keep
  <2>2. d \in RunQueue
    BY <1>1, <1>8, DeactivateTask DEF QueuesRight
  <2>3. SoftStep(d, d) /\ Kept(d, d, t)
    BY <2>2, SoftSelf, KeptSelf
  <2> HIDE DEF d
  <2>4. /\ Kept(rq, queued, t) /\ QueuesRight(tk, queued)
        /\ queued.on_rq = rq.on_rq /\ queued.curr = rq.curr
    <3> HIDE DEF queued
    <3> QED BY <1>1, <1>5, <1>6, <1>8, <2>3, KeptMoved DEF d, queued
  <2>5. queued.on_rq = rq.on_rq \cup {t}
    BY <1>8, <2>4
  <2> HIDE DEF queued
  <2>6. Moved(queued, t)
    BY <1>5, <2>1, <2>4, <2>5 DEF Moved, OnlyChanges
  <2> QED BY <1>8, <2>1, <2>6
<1> QED BY <1>4, <1>7, <1>8

\* The wakeup of a sleeping task.
LEMMA WakeUpMoves ==
  ASSUME Inv, NEW t \in Tasks, try_to_wake_up(t)
  PROVE  \/ Quiet
         \/ t \notin rq.on_rq /\ \E m : Moved(m, t) /\ rq' \in check_preempt_curr(task', m, t)
<1> DEFINE rec == [task[t] EXCEPT !.state = "running"]
           tk == [task EXCEPT ![t] = rec]
           placed == AssignBucket(tk, rq, t)
           err == EnqueueFault(tk, rq, t)
           queued == activate_task(placed, rq, t)
           outcomes == check_preempt_curr(placed, queued, t)
<1>1. StateRight(task, rq) /\ task \in [Tasks -> Task] /\ QueuesRight(task, rq)
      /\ rq \in RunQueue
  BY DEF Inv, StateRight, QueuesRight
<1>2. rec \in Task /\ rec.prio = task[t].prio
      /\ rec.normal_prio = task[t].normal_prio
      /\ rec.class = task[t].class /\ rec.bid = task[t].bid
  BY <1>1 DEF Task, States
<1>4. CASE t \in rq.on_rq
  <2>1. task' = tk /\ rq' \in check_preempt_curr(task, rq, t) /\ fault' = fault
    BY <1>4 DEF try_to_wake_up
  <2> HIDE DEF rec
  <2>2. SameQueued(task, task', rq)
    BY <1>1, <1>2, <2>1 DEF SameQueued
  <2>3. SoftStep(rq, rq') /\ Kept(rq, rq', Idle)
    BY <1>1, <2>1, SoftCheck, KeptChecks
  <2> QED BY <1>1, <2>1, <2>2, <2>3, SoftQuiet
<1>5. CASE t \notin rq.on_rq
  <2>1. Commit(err, placed, outcomes)
    BY <1>5 DEF try_to_wake_up
  <2> HIDE DEF rec
  <2>2. tk \in [Tasks -> Task] /\ \A u \in Tasks \ {t} : tk[u] = task[u]
    BY <1>1, <1>2
  <2> HIDE DEF tk
  <2>3. CASE err # "none"
    BY <2>1, <2>3, NothingQuiet DEF Commit
  <2>4. CASE err = "none"
    <3>1. task' = placed /\ rq' \in outcomes
      BY <2>1, <2>4 DEF Commit
    <3>2. /\ placed \in [Tasks -> Task]
          /\ \A u \in Tasks \ {t} : placed[u] = task[u]
          /\ Queueable(placed, t)
      BY <2>2, <2>4, Placed
    <3> HIDE DEF placed, err
    <3>3. /\ Kept(rq, queued, t) /\ QueuesRight(placed, queued)
          /\ queued.on_rq = rq.on_rq \cup {t} /\ queued.curr = rq.curr
      <4> HIDE DEF queued
      <4> QED BY <1>1, <1>5, <3>2, KeptAdded DEF queued
    <3> HIDE DEF queued
    <3>4. Moved(queued, t) /\ rq' \in check_preempt_curr(task', queued, t)
      BY <3>1, <3>2, <3>3 DEF Moved, OnlyChanges
    <3> QED BY <1>5, <3>4
  <2> QED BY <2>3, <2>4
<1> QED BY <1>4, <1>5

\* The first wakeup of a new task.
LEMMA WakeUpNewMoves ==
  ASSUME Inv, NEW t \in Tasks, wake_up_new_task(t)
  PROVE  \/ Quiet
         \/ t \notin rq.on_rq /\ \E m : Moved(m, t) /\ rq' \in check_preempt_curr(task', m, t)
<1> DEFINE eff == effective_prio(task[t])
           rec == [eff EXCEPT !.state = "running"]
           tk == [task EXCEPT ![t] = rec]
           placed == AssignBucket(tk, rq, t)
           err == EnqueueFault(tk, rq, t)
           queued == activate_task(placed, rq, t)
           outcomes == check_preempt_curr(placed, queued, t)
<1>1. StateRight(task, rq) /\ task \in [Tasks -> Task] /\ QueuesRight(task, rq)
      /\ rq \in RunQueue /\ t \notin rq.on_rq
  BY DEF Inv, StateRight, QueuesRight, wake_up_new_task
<1>2. rec \in Task
  <2>1. eff \in Task
    BY <1>1, EffectiveTyped
  <2> HIDE DEF eff
  <2> QED BY <2>1 DEF Task, States
<1>3. Commit(err, placed, outcomes)
  BY DEF wake_up_new_task
<1> HIDE DEF rec
<1>4. tk \in [Tasks -> Task] /\ \A u \in Tasks \ {t} : tk[u] = task[u]
  BY <1>1, <1>2
<1> HIDE DEF tk
<1>5. CASE err # "none"
  BY <1>3, <1>5, NothingQuiet DEF Commit
<1>6. CASE err = "none"
  <2>1. task' = placed /\ rq' \in outcomes
    BY <1>3, <1>6 DEF Commit
  <2>2. /\ placed \in [Tasks -> Task]
        /\ \A u \in Tasks \ {t} : placed[u] = task[u]
        /\ Queueable(placed, t)
    BY <1>4, <1>6, Placed
  <2> HIDE DEF placed, err
  <2>3. /\ Kept(rq, queued, t) /\ QueuesRight(placed, queued)
        /\ queued.on_rq = rq.on_rq \cup {t} /\ queued.curr = rq.curr
    <3> HIDE DEF queued
    <3> QED BY <1>1, <2>2, KeptAdded DEF queued
  <2> HIDE DEF queued
  <2>4. Moved(queued, t) /\ rq' \in check_preempt_curr(task', queued, t)
    BY <2>1, <2>2, <2>3 DEF Moved, OnlyChanges
  <2> QED BY <1>1, <2>4
<1> QED BY <1>5, <1>6

\* Marking oneself sleeping and making a child.
LEMMA QuietHandlers ==
  ASSUME Inv, NEW t \in Tasks, prepare_to_sleep \/ sched_fork(t)
  PROVE  Quiet
<1>1. task \in [Tasks -> Task] /\ rq \in RunQueue /\ rq.on_rq \in SUBSET Tasks
      /\ SoftStep(rq, rq') /\ Kept(rq, rq', Idle)
  <2>1. task \in [Tasks -> Task] /\ rq \in RunQueue /\ rq' = rq
    BY DEF Inv, StateRight, QueuesRight, prepare_to_sleep, sched_fork
  <2> QED BY <2>1, SoftSelf, KeptSelf DEF RunQueue
<1>2. CASE prepare_to_sleep
  <2> DEFINE c == rq.curr
             rec == [task[c] EXCEPT !.state = "sleeping"]
  <2>1. c \in Tasks /\ task' = [task EXCEPT ![c] = rec]
    BY <1>1, <1>2 DEF prepare_to_sleep, MayCall, RunQueue
  <2>2. rec.prio = task[c].prio /\ rec.normal_prio = task[c].normal_prio
        /\ rec.class = task[c].class /\ rec.bid = task[c].bid
    BY <1>1, <2>1 DEF Task
  <2> HIDE DEF rec
  <2>3. SameQueued(task, task', rq)
    BY <1>1, <2>1, <2>2 DEF SameQueued
  <2> QED BY <1>1, <2>3, SoftQuiet
<1>3. CASE sched_fork(t)
  <2>1. t \notin rq.on_rq /\ OnlyChanges(t)
    BY <1>1, <1>3 DEF sched_fork, OnlyChanges, Inv, StateRight
  <2> QED BY <1>1, <2>1, SoftQuiet
<1> QED BY <1>2, <1>3

\* What is left of a list of tasks is one.
LEMMA RemoveFirstTyped ==
  ASSUME NEW s \in Seq(Tasks), NEW e
  PROVE  RemoveFirst(s, e) \in Seq(Tasks)
BY RemoveFirstIn, RemoveFirstOut

\* Moving the running task to the tail of its queue is not seen here.
LEMMA RequeueFields ==
  ASSUME NEW tk, NEW q \in RunQueue, NEW t, t = q.curr
  PROVE  LET r == requeue_rt_entity(tk, q, t) IN
         /\ Kept(q, r, Idle) /\ r.linked = q.linked /\ r.cfs = q.cfs /\ r.on_rq = q.on_rq
         /\ r.rt_nr_boosted = q.rt_nr_boosted /\ r.curr = q.curr
<1>1. CASE t \notin q.linked
  BY <1>1, KeptSelf DEF requeue_rt_entity
<1>2. CASE t \in q.linked
  <2> DEFINE queues == [q.queue EXCEPT ![tk[t].prio] = Append(RemoveFirst(@, t), t)]
             r == [q EXCEPT !.queue = queues]
  <2>1. requeue_rt_entity(tk, q, t) = r
    BY <1>2 DEF requeue_rt_entity
  <2> HIDE DEF queues
  <2>2. /\ r.linked = q.linked /\ r.cfs = q.cfs /\ r.on_rq = q.on_rq
        /\ r.rt_nr_boosted = q.rt_nr_boosted /\ r.curr = q.curr /\ r.resched = q.resched
        /\ r.rt_throttled = q.rt_throttled /\ r.rt_time = q.rt_time
        /\ r.rt_nr_running = q.rt_nr_running /\ r.timer = q.timer /\ r.queue = queues
    BY DEF RunQueue
  <2>4. TimerRight(q) => TimerRight(r)
    BY <2>2 DEF TimerRight
  <2>5. KeepsOrder(q.queue, queues, {Idle, q.curr})
    <3> SUFFICES ASSUME NEW p \in RtPrios, NEW u \in Tasks, NEW v \in Tasks \ {Idle, q.curr},
                        InOrder(queues[p], u, v)
                 PROVE  InOrder(q.queue[p], u, v)
      BY DEF KeepsOrder
    <3>1. q.queue \in [RtPrios -> Seq(Tasks)]
      BY DEF RunQueue
    <3>2. queues[p] = q.queue[p] \/ queues[p] = Append(RemoveFirst(q.queue[p], t), t)
      BY <3>1 DEF queues
    <3>3. RemoveFirst(q.queue[p], t) \in Seq(Tasks)
      BY <3>1, RemoveFirstTyped
    <3>4. InOrder(RemoveFirst(q.queue[p], t), u, v) => InOrder(q.queue[p], u, v)
      BY <3>1, RemoveInOrder
    <3>5. InOrder(Append(RemoveFirst(q.queue[p], t), t), u, v) => InOrder(RemoveFirst(q.queue[p], t), u, v)
      BY <3>3, AppendInOrder
    <3> QED BY <3>2, <3>4, <3>5
  <2> HIDE DEF r
  <2>3. Kept(q, r, Idle)
    BY <2>2, <2>4, <2>5 DEF Kept
  <2> QED BY <2>1, <2>2, <2>3
<1> QED BY <1>1, <1>2

\* sched_yield.
LEMMA YieldQuiet ==
  ASSUME Inv, sched_yield
  PROVE  Quiet
<1>1. rq \in RunQueue /\ task' = task /\ rq' = requeue_rt_entity(task, rq, rq.curr)
  BY DEF Inv, StateRight, QueuesRight, sched_yield
<1>2. SameQueued(task, task', rq)
  BY <1>1 DEF SameQueued
<1> QED BY <1>1, <1>2, RequeueFields DEF Quiet

\* A real-time task that runs is queued, so the timer is armed.
LEMMA TimerOfRunning ==
  ASSUME Inv, TimerRight(rq), rq.curr \in Tasks, task[rq.curr].class # "fair"
  PROVE  rq.timer
<1>1. QueuesRight(task, rq) /\ rq.curr \in rq.on_rq
  BY TasksAssumption DEF Inv, StateRight
<1>2. rq.curr \in rq.linked
  BY <1>1 DEF QueuesRight, ClassesMatch
<1>3. rq.rt_nr_running = Cardinality(rq.linked) /\ rq.linked \in SUBSET Tasks
  BY <1>1 DEF QueuesRight, RtInv, RtCountsMatch, RunQueue
<1>4. rq.rt_nr_running \in Nat /\ rq.rt_nr_running # 0
  BY <1>2, <1>3, CountTask
<1>5. rq.rt_nr_running > 0
  BY <1>4
<1> QED BY <1>5, Zenon DEF TimerRight

\* A tick charges at most, and asks for a reschedule at most.
LEMMA TickQuiet ==
  ASSUME Inv, TimerRight(rq), scheduler_tick
  PROVE  Quiet
<1> DEFINE q0 == Elapse(rq)
           t == rq.curr
           q == update_curr_rt(task, q0, 1)
<1>1. task \in [Tasks -> Task] /\ rq \in RunQueue /\ t \in Tasks \cup {Idle}
  BY DEF Inv, StateRight, QueuesRight, RunQueue
<1>2. SoftStep(rq, q0) /\ q0 \in RunQueue
  BY <1>1, SoftElapse DEF SoftStep
<1>3. Kept(rq, q0, Idle) /\ q0.timer = rq.timer
  <2> DEFINE e == IF rq.timer THEN rq.elapsed + 1 ELSE (rq.elapsed + 1) % RT_PERIOD
  <2>1. q0 = [rq EXCEPT !.elapsed = e]
    BY DEF Elapse
  <2> HIDE DEF e
  <2>2. /\ q0.linked = rq.linked /\ q0.cfs = rq.cfs
        /\ q0.curr = rq.curr /\ q0.resched = rq.resched
        /\ q0.rt_throttled = rq.rt_throttled /\ q0.rt_time = rq.rt_time
        /\ q0.rt_nr_running = rq.rt_nr_running /\ q0.timer = rq.timer /\ q0.queue = rq.queue
    BY <1>1, <2>1 DEF RunQueue
  <2> HIDE DEF q0
  <2> QED BY <2>2, KeptFields
<1>4. CASE TickOther
  <2>1. task' = task /\ (rq' = q0 \/ rq' = resched_task(q0, t))
    BY <1>4 DEF TickOther
  <2>2. SameQueued(task, task', rq)
    BY <2>1 DEF SameQueued
  <2> HIDE DEF q0
  <2>3. SoftStep(q0, resched_task(q0, t)) /\ Kept(q0, resched_task(q0, t), Idle)
    BY <1>1, <1>2, SoftResched, KeptResched
  <2>4. SoftStep(rq, rq') /\ Kept(rq, rq', Idle)
    BY <1>2, <1>3, <2>1, <2>3, SoftTwice, KeptTwice
  <2> QED BY <2>2, <2>4, SoftQuiet
<1>5. CASE TickRt
  <2>1. t \in Tasks /\ task[t].class # "fair"
    BY <1>1, <1>5 DEF TickRt
  <2>2. q0.timer
    BY <1>3, <2>1, TimerOfRunning
  <2> HIDE DEF q0
  <2>3. SoftStep(q0, q) /\ Kept(q0, q, Idle)
    BY <1>2, <2>2, SoftCharge, KeptCharge
  <2> HIDE DEF q
  <2>4. SoftStep(rq, q) /\ Kept(rq, q, Idle) /\ q \in RunQueue
    BY <1>2, <1>3, <2>3, SoftTwice, KeptTwice DEF SoftStep
  <2>5. CASE rq' = q /\ UNCHANGED task
    <3>1. SameQueued(task, task', rq)
      BY <2>5 DEF SameQueued
    <3> QED BY <2>4, <2>5, <3>1, SoftQuiet
  <2>6. CASE TickRoundRobin(q, t)
    <3> DEFINE rec == SliceAfterTick(task[t])
               moved == requeue_rt_entity(task, q, t)
    <3>1. task' = [task EXCEPT ![t] = rec] /\ (rq' = q \/ rq' = resched_task(moved, t))
      BY <2>6 DEF TickRoundRobin
    <3>2. /\ rec.prio = task[t].prio /\ rec.normal_prio = task[t].normal_prio
          /\ rec.class = task[t].class /\ rec.bid = task[t].bid
      BY <1>1, <2>1, SliceTyped
    <3> HIDE DEF rec
    <3>3. SameQueued(task, task', rq)
      BY <1>1, <2>1, <3>1, <3>2 DEF SameQueued
    <3>4. CASE rq' = q
      BY <2>4, <3>3, <3>4, SoftQuiet
    <3>5. CASE rq' = resched_task(moved, t)
      <4>1. /\ Kept(q, moved, Idle) /\ moved.linked = q.linked /\ moved.cfs = q.cfs
            /\ moved.rt_nr_boosted = q.rt_nr_boosted
        <5>1. t = q.curr
          BY <2>4 DEF SoftStep, Kept
        <5> QED BY <2>4, <5>1, RequeueFields
      <4>2. moved \in RunQueue
        <5>1. QueuesRight(task, q)
          BY <2>4, SoftKeeps DEF Inv, StateRight
        <5> QED BY <1>1, <5>1, RequeueKeeps DEF QueuesRight
      <4> HIDE DEF moved
      <4>3. Kept(moved, rq', Idle) /\ rq'.linked = moved.linked /\ rq'.cfs = moved.cfs
            /\ rq'.rt_nr_boosted = moved.rt_nr_boosted
        BY <3>5, <4>2, KeptResched DEF resched_task, RunQueue
      <4>4. Kept(rq, rq', Idle)
        BY <2>4, <4>1, <4>3, KeptTwice
      <4>5. q.linked = rq.linked /\ q.cfs = rq.cfs /\ q.rt_nr_boosted = rq.rt_nr_boosted
        BY <2>4 DEF SoftStep, SameRt
      <4> QED BY <3>3, <4>1, <4>3, <4>4, <4>5 DEF Quiet
    <3> QED BY <3>1, <3>4, <3>5
  <2> QED BY <1>5, <2>5, <2>6 DEF TickRt, q, q0
<1> QED BY <1>4, <1>5 DEF scheduler_tick

\* The running task is asked to reschedule where a real-time task may preempt it.
Pending(tk, q) ==
  \A u \in q.linked :
    tk[u].prio < CurrPrio(tk, q) => rt_rq_throttled(q) \/ q.curr \in q.resched

\* The period timer stays armed while it has something to do, and lifts the
\* throttling with the reschedule it owes.
LEMMA PeriodTimerRight ==
  ASSUME Inv, sched_rt_period_timer
  PROVE  /\ TimerRight(rq) => TimerRight(rq')
         /\ Pending(task, rq) => Pending(task', rq')
         /\ rq.resched \subseteq rq'.resched /\ rq'.cfs = rq.cfs /\ rq'.curr = rq.curr
<1> DEFINE overrun == rq.elapsed \div RT_PERIOD
           phase == rq.elapsed % RT_PERIOD
           now == [rq EXCEPT !.elapsed = phase]
           back == overrun * RT_RUNTIME
           time == rq.rt_time - Lesser(rq.rt_time, back)
           lifts == rq.rt_time # 0 /\ rq.rt_throttled /\ time < RT_RUNTIME
           thr == rq.rt_throttled /\ ~ lifts
           tmr == time # 0 \/ rq.rt_nr_running # 0
           new == [now EXCEPT !.rt_time = time, !.rt_throttled = thr, !.timer = tmr]
           last == sched_rt_rq_enqueue(task, new)
<1>1. task \in [Tasks -> Task] /\ QueuesRight(task, rq) /\ rq \in RunQueue
  BY DEF Inv, StateRight, QueuesRight
<1>2. task' = task /\ rq' = do_sched_rt_period_timer(task, now, overrun)
  BY DEF sched_rt_period_timer
<1>3. overrun \in Nat /\ phase \in Nat
  <2>1. rq.elapsed \in Nat /\ RT_PERIOD \in Nat \ {0}
    BY <1>1, BandwidthAssumption DEF RunQueue
  <2>2. \A n \in Nat, k \in Nat \ {0} : n \div k \in Nat /\ n % k \in Nat
    OBVIOUS
  <2> QED BY <2>1, <2>2
<1>4. back \in Nat
  BY <1>3, BandwidthAssumption
<1> HIDE DEF overrun, phase
<1>5. /\ now.rt_time = rq.rt_time /\ now.rt_throttled = rq.rt_throttled
      /\ now.rt_nr_running = rq.rt_nr_running /\ now \in RunQueue
  BY <1>1, <1>3 DEF RunQueue
<1>6. rq' = IF lifts THEN last ELSE new
  <2> HIDE DEF now
  <2> QED BY <1>2, <1>5 DEF do_sched_rt_period_timer
<1> HIDE DEF back
<1>7. time \in Nat /\ thr \in BOOLEAN /\ tmr \in BOOLEAN /\ lifts \in BOOLEAN
      /\ (rq.rt_throttled /\ rq.rt_time > 0 /\ ~ lifts => time > 0)
  BY <1>1, <1>4, BandwidthAssumption DEF RunQueue, Lesser
<1>8. time > 0 \/ rq.rt_nr_running > 0 => tmr
  <2>1. rq.rt_nr_running \in Int
    BY <1>1 DEF RunQueue
  <2> QED BY <1>7, <2>1
<1>9. lifts => ~ thr /\ rq.rt_throttled
  OBVIOUS
<1>10. ~ lifts => (thr <=> rq.rt_throttled)
  OBVIOUS
<1> HIDE DEF time, lifts, thr, tmr
<1>11. /\ new.rt_time = time /\ new.rt_throttled = thr /\ new.timer = tmr
       /\ new.rt_nr_running = rq.rt_nr_running /\ new.highest_prio = rq.highest_prio
       /\ new.linked = rq.linked /\ new.cfs = rq.cfs /\ new.curr = rq.curr
       /\ new.resched = rq.resched /\ new.rt_nr_boosted = rq.rt_nr_boosted
       /\ new \in RunQueue
  BY <1>1, <1>5, <1>7 DEF RunQueue
<1> HIDE DEF new
<1>12. TimerRight(rq) => TimerRight(new)
  <2> SUFFICES ASSUME TimerRight(rq) PROVE TimerRight(new)
    OBVIOUS
  <2>1. thr => rq.rt_throttled /\ ~ lifts
    BY <1>9, <1>10, Zenon
  <2>2. new.rt_throttled => new.rt_time > 0
    BY <1>7, <1>11, <2>1 DEF TimerRight
  <2> QED BY <1>8, <1>11, <2>2, Zenon DEF TimerRight
<1>13. /\ \/ last = new
          \/ last = resched_task(new, rq.curr)
       /\ rq.rt_nr_running # 0 /\ rq.highest_prio < CurrPrio(task, new) => last = resched_task(new, rq.curr)
  BY <1>11 DEF sched_rt_rq_enqueue, ReschedIf
<1> HIDE DEF last
<1>14. /\ rq'.rt_time = time /\ rq'.rt_throttled = thr /\ rq'.timer = tmr
       /\ rq'.rt_nr_running = rq.rt_nr_running
       /\ rq'.linked = rq.linked /\ rq'.cfs = rq.cfs /\ rq'.curr = rq.curr
       /\ rq.resched \subseteq rq'.resched /\ rq'.rt_nr_boosted = rq.rt_nr_boosted
       /\ (last = resched_task(new, rq.curr) => rq.curr \in last.resched)
  BY <1>6, <1>11, <1>13 DEF resched_task, RunQueue
<1>15. TimerRight(rq) => TimerRight(rq')
  BY <1>11, <1>12, <1>14, Zenon DEF TimerRight
<1>16. ASSUME Pending(task, rq), NEW u \in rq.linked, task[u].prio < CurrPrio(task, rq),
              rq.curr \notin rq'.resched
       PROVE  rt_rq_throttled(rq')
  <2>1. rt_rq_throttled(rq)
    BY <1>14, <1>16 DEF Pending
  <2>2. ~ lifts
    <3> SUFFICES ASSUME lifts PROVE FALSE
      OBVIOUS
    <3>1. /\ rq.highest_prio <= task[u].prio /\ rq.rt_nr_running # 0
          /\ CurrPrio(task, new) = CurrPrio(task, rq)
      <4>1. rq.rt_nr_running = Cardinality(rq.linked) /\ rq.linked \in SUBSET Tasks
        BY <1>1 DEF QueuesRight, RtInv, RtCountsMatch, RunQueue
      <4>2. rq.rt_nr_running # 0
        BY <1>16, <4>1, CountTask
      <4>3. rq.highest_prio <= task[u].prio
        BY <1>1, <1>16 DEF QueuesRight, RtInv, HighestOf
      <4> QED BY <1>11, <4>2, <4>3 DEF CurrPrio
    <3>2. rq.highest_prio \in Int /\ task[u].prio \in Int /\ CurrPrio(task, rq) \in Int
      <4>1. u \in Tasks
        BY <1>1, <1>16 DEF RunQueue
      <4> QED BY <1>1, <4>1, PrioAssumption DEF RunQueue, Task, TaskPrios, RtPrios, CurrPrio
    <3>3. rq.highest_prio < CurrPrio(task, new)
      BY <1>16, <3>1, <3>2
    <3> QED BY <1>6, <1>13, <1>14, <1>16, <3>1, <3>3
  <2> QED BY <1>10, <1>14, <2>1, <2>2 DEF rt_rq_throttled
<1>17. Pending(task, rq) => Pending(task', rq')
  <2>1. CurrPrio(task', rq') = CurrPrio(task, rq)
    BY <1>2, <1>14 DEF CurrPrio
  <2> QED BY <1>2, <1>14, <1>16, <2>1 DEF Pending
<1> QED BY <1>14, <1>15, <1>17

\* The CPU is given to the idle task when no fair task is queued.
LEMMA PickedIdle ==
  ASSUME NEW tk \in [Tasks -> Task], NEW q, QueuesRight(tk, q), Idle \in pick_next_task(q)
  PROVE  q.cfs = {}
<1>1. q \in RunQueue /\ ListsMatch(tk, q) /\ RtCountsMatch(tk, q) /\ q.linked \in SUBSET Tasks
      /\ q.cfs \in SUBSET Tasks /\ Idle \notin Tasks
  BY TasksAssumption DEF QueuesRight, RtInv, RunQueue
<1>2. q.rt_nr_running # 0 => q.linked # {}
  BY <1>1, CountTask DEF RtCountsMatch
<1>3. q.linked # {} => Head(q.queue[FirstBit(q.bitmap)]) \in q.linked
  BY <1>1, FirstQueue
<1>4. Idle \notin pick_next_task_rt(q)
  BY <1>1, <1>2, <1>3 DEF pick_next_task_rt
<1> QED BY <1>1, <1>4 DEF pick_next_task

\* schedule leaves the timer armed, and idles when no fair task is queued.
LEMMA ScheduleRight ==
  ASSUME Inv, NEW preempt \in BOOLEAN, NEW signal \in BOOLEAN, schedule(preempt, signal)
  PROVE  /\ TimerRight(rq) => TimerRight(rq')
         /\ rq'.curr = Idle => rq'.cfs = {}
<1> DEFINE prev == rq.curr
           flags == rq.resched \ {prev}
           cleared == [rq EXCEPT !.resched = flags]
           sleeps == prev # Idle /\ task[prev].state = "sleeping" /\ ~ preempt
           out == IF sleeps /\ ~ signal THEN deactivate_task(task, cleared, prev)
                  ELSE cleared
           put == put_prev_task(task, out, prev)
<1>1. task \in [Tasks -> Task] /\ QueuesRight(task, rq) /\ rq \in RunQueue
      /\ (prev # Idle => prev \in rq.on_rq)
  BY DEF Inv, StateRight, QueuesRight
<1>2. PICK next \in pick_next_task(put) : rq' = [put EXCEPT !.curr = next]
  BY DEF schedule
<1>3. flags \in SUBSET (Tasks \cup {Idle})
  BY <1>1 DEF RunQueue
<1> HIDE DEF flags
<1>4. cleared \in RunQueue
  BY <1>1, <1>3 DEF RunQueue
<1>5. /\ SoftStep(rq, cleared) /\ cleared.rt_throttled = rq.rt_throttled
      /\ cleared.rt_time = rq.rt_time /\ cleared.timer = rq.timer
      /\ cleared.rt_nr_running = rq.rt_nr_running
  BY <1>1, <1>4 DEF SoftStep, SameRt, RunQueue
<1> HIDE DEF cleared
<1>6. TimerRight(rq) => TimerRight(cleared)
  BY <1>5, Zenon DEF TimerRight
<1>7. QueuesRight(task, cleared) /\ (prev # Idle => prev \in cleared.on_rq)
  BY <1>1, <1>5, SoftKeeps DEF SoftStep
<1>8. QueuesRight(task, out) /\ (TimerRight(cleared) => TimerRight(out))
  <2>1. CASE sleeps /\ ~ signal
    BY <1>1, <1>7, <2>1, DeactivateTask, KeptDequeueTask DEF Kept
  <2>2. CASE ~ (sleeps /\ ~ signal)
    BY <1>7, <2>2
  <2> QED BY <2>1, <2>2
<1> HIDE DEF out
<1>9. out \in RunQueue
  BY <1>8 DEF QueuesRight
<1>10. SoftStep(out, put) /\ Kept(out, put, Idle)
  BY <1>9, SoftPut, KeptPut
<1> HIDE DEF put
<1>11. QueuesRight(task, put) /\ (TimerRight(out) => TimerRight(put)) /\ put \in RunQueue
  BY <1>8, <1>10, SoftKeeps DEF Kept, SoftStep
<1>12. /\ rq'.curr = next /\ rq'.cfs = put.cfs /\ rq'.rt_throttled = put.rt_throttled
       /\ rq'.rt_time = put.rt_time /\ rq'.timer = put.timer
       /\ rq'.rt_nr_running = put.rt_nr_running
  BY <1>2, <1>11 DEF RunQueue
<1>13. TimerRight(put) => TimerRight(rq')
  BY <1>12, Zenon DEF TimerRight
<1>14. rq'.curr = Idle => rq'.cfs = {}
  BY <1>1, <1>2, <1>11, <1>12, PickedIdle
<1> QED BY <1>6, <1>8, <1>11, <1>13, <1>14

-----------------------------------------------------------------------------
(* The period timer is armed, and the CPU does not idle.                   *)

\* The checks keep what the move kept.
LEMMA MovedKept ==
  ASSUME Inv', NEW t \in Tasks, NEW m, Moved(m, t), NEW prev, NEW oldprio, NEW c, NEW x,
         \/ rq' \in check_class_changed(task', m, t, prev, oldprio)
         \/ rq' \in check_preempt_curr(task', m, t)
         \/ rq' = ReschedIf(c, m)
         \/ rq' = resched_task(m, x)
  PROVE  Kept(rq, rq', t)
<1>1. task' \in [Tasks -> Task] /\ m \in RunQueue /\ Kept(rq, m, t)
  BY DEF Inv, StateRight, Moved, QueuesRight
<1>2. Kept(m, rq', t)
  BY <1>1, KeptChecks, KeptReschedIf, KeptResched
<1> QED BY <1>1, <1>2, KeptTwice

\* So do the handlers that set a task's policy, priority or nice value, or wake it.
LEMMA SetNiceKept ==
  ASSUME Inv, Inv', NEW t \in Tasks, NEW static \in StaticPrios, SetNice(t, static)
  PROVE  \E u : Kept(rq, rq', u)
<1>1. CASE Quiet
  BY <1>1 DEF Quiet
<1>2. CASE \E m : Moved(m, t) /\ rq' = ReschedIf(NiceAsks(t), m)
  BY <1>2, MovedKept
<1> QED BY <1>1, <1>2, SetNiceMoves

\* All the handlers of one task.
LEMMA HandlersKept ==
  ASSUME Inv, Inv', NEW t \in Tasks,
         \/ \E pol \in UserPolicies, rtprio \in RtPrios, prevClass \in Classes :
              \E bucket \in BucketArgs(pol) : SetUnderLock(t, pol, rtprio, bucket, prevClass)
         \/ \E waiter \in PiPrios \cup {MAX_PRIO} : PiChange(t, waiter)
         \/ \E static \in StaticPrios : set_user_nice(t, static)
         \/ normalize_task(t) \/ try_to_wake_up(t) \/ sched_fork(t) \/ wake_up_new_task(t)
         \/ prepare_to_sleep
  PROVE  \E u : Kept(rq, rq', u)
<1>1. Quiet => \E u : Kept(rq, rq', u)
  BY DEF Quiet
<1>2. ASSUME NEW pol \in UserPolicies, NEW rtprio \in RtPrios, NEW prevClass \in Classes,
             NEW bucket \in BucketArgs(pol), SetUnderLock(t, pol, rtprio, bucket, prevClass)
      PROVE  \E u : Kept(rq, rq', u)
  <2>1. Quiet \/ \E m : Moved(m, t)
                   /\ rq' \in check_class_changed(task', m, t, prevClass, task[t].prio)
    BY <1>2, SetschedulerMoves
  <2> QED BY <1>1, <2>1, MovedKept
<1>3. ASSUME NEW waiter \in PiPrios \cup {MAX_PRIO}, PiChange(t, waiter)
      PROVE  \E u : Kept(rq, rq', u)
  <2> DEFINE prio == rt_mutex_getprio(task[t], waiter)
  <2>1. prio \in TaskPrios
    <3>1. waiter \in 0 .. MAX_PRIO /\ task[t].normal_prio \in TaskPrios
      BY WaiterPrios DEF Inv, StateRight, Task
    <3> QED BY <3>1, PrioTypes DEF rt_mutex_getprio
  <2>2. CASE prio = task[t].prio
    BY <1>1, <1>3, <2>2, NothingQuiet DEF PiChange
  <2>3. CASE prio # task[t].prio
    <3>1. rt_mutex_setprio(t, prio)
      BY <1>3, <2>3 DEF PiChange
    <3> HIDE DEF prio
    <3>2. Quiet \/ \E m : Moved(m, t)
             /\ rq' \in check_class_changed(task', m, t, task[t].class, task[t].prio)
      BY <2>1, <3>1, SetprioMoves
    <3> QED BY <1>1, <3>2, MovedKept
  <2> QED BY <2>2, <2>3
<1>4. ASSUME NEW static \in StaticPrios, set_user_nice(t, static)
      PROVE  \E u : Kept(rq, rq', u)
  BY <1>4, SetNiceKept DEF set_user_nice
<1>5. ASSUME normalize_task(t)
      PROVE  \E u : Kept(rq, rq', u)
  <2>1. \/ SetNice(t, DEFAULT_PRIO)
        \/ Quiet
        \/ \E m : Moved(m, t) /\ rq' = resched_task(m, rq.curr)
    BY <1>5, NormalizeMoves
  <2> QED BY <1>1, <2>1, SetNiceKept, StaticPriosAssumption, MovedKept
<1>6. ASSUME try_to_wake_up(t) \/ wake_up_new_task(t)
      PROVE  \E u : Kept(rq, rq', u)
  <2>1. Quiet \/ \E m : Moved(m, t) /\ rq' \in check_preempt_curr(task', m, t)
    BY <1>6, WakeUpMoves, WakeUpNewMoves
  <2> QED BY <1>1, <2>1, MovedKept
<1>7. ASSUME prepare_to_sleep \/ sched_fork(t)
      PROVE  \E u : Kept(rq, rq', u)
  BY <1>1, <1>7, QuietHandlers
<1> QED BY <1>2, <1>3, <1>4, <1>5, <1>6, <1>7

\* The calls in flight have read a class, and their caller is not idle.
LEMMA ResumeUnderLock ==
  ASSUME Inv, PrevClassType, NEW pol \in UserPolicies, NEW rtprio \in RtPrios,
         NEW bucket \in BucketArgs(pol), ResumeSetscheduler(pol, rtprio, bucket)
  PROVE  rq.curr \in Tasks /\ \E prevClass \in Classes : SetUnderLock(rq.curr, pol, rtprio, bucket, prevClass)
<1>1. rq.curr \in Tasks
  BY DEF ResumeSetscheduler, Inv, StateRight, QueuesRight, RunQueue
<1>2. prev_class[rq.curr] \in Classes
  BY <1>1 DEF ResumeSetscheduler, PrevClassType
<1> QED BY <1>1, <1>2 DEF ResumeSetscheduler

\* The invariant of the period timer.
TimerInv == TimerRight(rq)

\* Every step keeps the timer armed.
LEMMA TimerNext == Inv /\ Inv' /\ PrevClassType /\ TimerInv /\ [Next]_vars => TimerInv'
<1> SUFFICES ASSUME Inv, Inv', PrevClassType, TimerInv, [Next]_vars PROVE TimerRight(rq')
  BY DEF TimerInv
<1>1. (\E u : Kept(rq, rq', u)) => TimerRight(rq')
  BY DEF Kept, TimerInv
<1>2. ASSUME NEW t \in Tasks, NEW pol \in UserPolicies, NEW rtprio \in RtPrios,
             NEW bucket \in BucketArgs(pol), sched_setscheduler(t, pol, rtprio, bucket)
      PROVE  TimerRight(rq')
  <2>1. SetUnderLock(t, pol, rtprio, bucket, task[t].class) /\ task[t].class \in Classes
    BY <1>2 DEF sched_setscheduler, Inv, StateRight, Task
  <2> QED BY <1>1, <2>1, HandlersKept
<1>3. ASSUME NEW pol \in UserPolicies, NEW rtprio \in RtPrios,
             NEW bucket \in BucketArgs(pol), ResumeSetscheduler(pol, rtprio, bucket)
      PROVE  TimerRight(rq')
  <2>1. rq.curr \in Tasks
        /\ \E prevClass \in Classes : SetUnderLock(rq.curr, pol, rtprio, bucket, prevClass)
    BY <1>3, ResumeUnderLock
  <2> QED BY <1>1, <2>1, HandlersKept
<1>4. ASSUME NEW t \in Tasks,
             \/ \E waiter \in PiPrios \cup {MAX_PRIO} : PiChange(t, waiter)
             \/ \E static \in StaticPrios : set_user_nice(t, static)
             \/ normalize_task(t) \/ try_to_wake_up(t) \/ sched_fork(t) \/ wake_up_new_task(t)
      PROVE  TimerRight(rq')
  BY <1>1, <1>4, HandlersKept
<1>5. CASE prepare_to_sleep
  <2>1. rq.curr \in Tasks
    BY <1>5 DEF prepare_to_sleep, MayCall, Inv, StateRight, QueuesRight, RunQueue
  <2> QED BY <1>1, <1>5, <2>1, HandlersKept
<1>6. CASE sched_yield \/ scheduler_tick
  BY <1>1, <1>6, YieldQuiet, TickQuiet DEF Quiet, TimerInv
<1>7. CASE sched_rt_period_timer
  BY <1>7, PeriodTimerRight DEF TimerInv
<1>8. ASSUME NEW preempt \in BOOLEAN, NEW signal \in BOOLEAN, schedule(preempt, signal)
      PROVE  TimerRight(rq')
  BY <1>8, ScheduleRight DEF TimerInv
<1>9. CASE ReadPrevClass \/ UNCHANGED vars
  BY <1>9 DEF ReadPrevClass, vars, TimerInv
<1> QED BY <1>2, <1>3, <1>4, <1>5, <1>6, <1>7, <1>8, <1>9 DEF Next

\* In every reachable state.
LEMMA TimerInvHolds == Spec => [](PrevClassType /\ TimerInv)
<1>1. Init => PrevClassType /\ TimerInv
  BY DEF Init, InitRunQueue, PrevClassType, TimerInv, TimerRight
<1>2. Inv /\ PrevClassType /\ [Next]_vars => PrevClassType'
  BY PrevClassStep
<1> QED BY <1>1, <1>2, InvInit, InvNext, TimerNext, PTL DEF Spec

\* A throttled real-time queue, or one that owes runtime or has a task, has an
\* armed period timer, which alone lifts the throttling: through every order of
\* wakeups, policy changes, boosts, ticks and late timer interrupts.
THEOREM ThrottleAlwaysRecovers == Spec => []ThrottleRecovers
<1>1. TimerInv => ThrottleRecovers
  BY DEF TimerInv, TimerRight, ThrottleRecovers
<1> QED BY <1>1, TimerInvHolds, PTL

\* What acts while the CPU idles is an interrupt, and the wakeups it makes ask the
\* idle task to reschedule.
LEMMA IdleNext ==
  Inv /\ Inv' /\ PrevClassType /\ TimerInv /\ NoLostFairWakeup /\ [Next]_vars => NoLostFairWakeup'
<1> SUFFICES ASSUME Inv, Inv', PrevClassType, TimerInv, NoLostFairWakeup, [Next]_vars,
                    rq'.curr = Idle, rq'.cfs # {}
             PROVE  Idle \in rq'.resched
  BY DEF NoLostFairWakeup
<1>1. rq'.curr = Idle => rq'.cfs = {} \/ ~ \E preempt, signal \in BOOLEAN : schedule(preempt, signal)
  BY ScheduleRight
<1>2. ~ \E preempt, signal \in BOOLEAN : schedule(preempt, signal)
  BY <1>1
<1>3. ASSUME Quiet PROVE Idle \in rq'.resched
  BY <1>3 DEF Quiet, Kept, NoLostFairWakeup
<1>4. ASSUME UNCHANGED rq PROVE Idle \in rq'.resched
  BY <1>4 DEF NoLostFairWakeup
<1>5. ASSUME MayCall, rq'.curr = rq.curr PROVE FALSE
  BY <1>5 DEF MayCall
<1>6. ASSUME NEW t \in Tasks, NEW pol \in UserPolicies, NEW rtprio \in RtPrios,
             NEW bucket \in BucketArgs(pol), sched_setscheduler(t, pol, rtprio, bucket)
      PROVE  FALSE
  BY <1>5, <1>6, SetschedulerStep DEF sched_setscheduler
<1>7. ASSUME NEW pol \in UserPolicies, NEW rtprio \in RtPrios,
             NEW bucket \in BucketArgs(pol), ResumeSetscheduler(pol, rtprio, bucket)
      PROVE  FALSE
  <2>1. rq.curr \in Tasks /\ rq.curr # Idle
    BY <1>7, ResumeUnderLock DEF ResumeSetscheduler
  <2>2. SetUnderLock(rq.curr, pol, rtprio, bucket, prev_class[rq.curr])
    BY <1>7 DEF ResumeSetscheduler
  <2> QED BY <2>1, <2>2, SetschedulerStep
<1>8. ASSUME NEW t \in Tasks,
             \/ \E waiter \in PiPrios \cup {MAX_PRIO} : PiChange(t, waiter)
             \/ \E static \in StaticPrios : set_user_nice(t, static)
             \/ sched_fork(t) \/ wake_up_new_task(t)
      PROVE  FALSE
  <2>1. MayCall
    BY <1>8 DEF PiChange, set_user_nice, sched_fork, wake_up_new_task
  <2>2. rq'.curr = rq.curr
    BY <1>8, PiChangeStep, NiceStep, ForkStep, WakeUpNewStep
  <2> QED BY <1>5, <2>1, <2>2
<1>9. CASE prepare_to_sleep \/ sched_yield \/ ReadPrevClass \/ UNCHANGED vars
  <2>1. prepare_to_sleep \/ sched_yield => FALSE
    BY <1>5, SleepStep, YieldStep DEF prepare_to_sleep, sched_yield
  <2>2. UNCHANGED rq
    BY <1>9, <2>1 DEF ReadPrevClass, vars
  <2> QED BY <1>4, <2>2
<1>10. CASE scheduler_tick
  BY <1>3, <1>10, TickQuiet DEF TimerInv
<1>11. CASE sched_rt_period_timer
  <2>1. rq.resched \subseteq rq'.resched /\ rq'.cfs = rq.cfs /\ rq'.curr = rq.curr
    BY <1>11, PeriodTimerRight
  <2> QED BY <2>1 DEF NoLostFairWakeup
<1>12. ASSUME NEW t \in Tasks, normalize_task(t) PROVE Idle \in rq'.resched
  <2>1. rq'.curr = rq.curr
    BY <1>12, NormalizeStep
  <2>2. CASE SetNice(t, DEFAULT_PRIO)
    <3>1. CASE Quiet
      BY <1>3, <3>1
    <3>2. ASSUME NEW m, Moved(m, t), t \in rq.on_rq, NEW bid \in Int,
                 rq' = ReschedIf(NiceAsks(t), m),
                 task'[t] = [effective_prio([task[t] EXCEPT !.static_prio = DEFAULT_PRIO])
                               EXCEPT !.bid = bid]
          PROVE  Idle \in rq'.resched
      <4>1. rq'.cfs = m.cfs /\ rq.resched \subseteq rq'.resched
        <5>1. m \in RunQueue /\ rq.resched \subseteq m.resched
          BY <3>2 DEF Moved, QueuesRight, Kept
        <5> QED BY <3>2, <5>1 DEF ReschedIf, resched_task, RunQueue
      <4>2. task'[t].class = task[t].class
        BY <3>2 DEF effective_prio, Inv, StateRight, Task
      <4>3. t \in m.cfs <=> t \in rq.cfs
        BY <3>2, <4>2 DEF Moved, Inv, StateRight, QueuesRight, ClassesMatch
      <4>4. m.cfs \ {t} = rq.cfs \ {t}
        BY <3>2 DEF Moved, Kept
      <4>5. rq.cfs # {}
        BY <4>1, <4>3, <4>4
      <4> QED BY <2>1, <4>1, <4>5 DEF NoLostFairWakeup
    <3>3. CASE ~ Quiet
      <4>1. /\ t \in rq.on_rq
            /\ \E m : Moved(m, t) /\ rq' = ReschedIf(NiceAsks(t), m)
            /\ \E bid \in Int : task'[t] =
                 [effective_prio([task[t] EXCEPT !.static_prio = DEFAULT_PRIO]) EXCEPT !.bid = bid]
        BY <2>2, <3>3, SetNiceMoves, StaticPriosAssumption
      <4>2. PICK m : Moved(m, t) /\ rq' = ReschedIf(NiceAsks(t), m)
        BY <4>1
      <4> QED BY <3>2, <4>1, <4>2
    <3> QED BY <3>1, <3>3
  <2>3. CASE Quiet
    BY <1>3, <2>3
  <2>4. CASE \E m : Moved(m, t) /\ rq' = resched_task(m, rq.curr)
    BY <2>1, <2>4 DEF resched_task, Moved, QueuesRight, RunQueue
  <2> QED BY <1>12, <2>2, <2>3, <2>4, NormalizeMoves
<1>13. ASSUME NEW t \in Tasks, try_to_wake_up(t) PROVE Idle \in rq'.resched
  <2>1. rq'.curr = rq.curr
    BY <1>13, WakeUpStep
  <2>2. CASE Quiet
    BY <1>3, <2>2
  <2>3. CASE ~ Quiet
    <3>1. PICK m : Moved(m, t) /\ rq' \in check_preempt_curr(task', m, t)
      BY <1>13, <2>3, WakeUpMoves
    <3>2. m \in RunQueue /\ m.curr = Idle
      BY <2>1, <3>1 DEF Moved, QueuesRight
    <3> QED BY <3>1, <3>2 DEF check_preempt_curr, CurrClass, resched_task, RunQueue
  <2> QED BY <2>2, <2>3
<1> QED BY <1>2, <1>6, <1>7, <1>8, <1>9, <1>10, <1>11, <1>12, <1>13 DEF Next

\* The CPU never idles on a queued fair task without a reschedule pending.
THEOREM FairWakeupsNotLost == Spec => []NoLostFairWakeup
<1>1. Init => NoLostFairWakeup
  BY DEF Init, InitRunQueue, NoLostFairWakeup
<1> QED BY <1>1, InvInit, InvNext, TimerInvHolds, IdleNext, PTL DEF Spec

-----------------------------------------------------------------------------
(* No preemption is lost.                                                  *)

\* The waiters of which a boost to a real-time priority comes have the best one.
OnlyTopBoosts == PiPrios \cap RtPrios \subseteq {0}

\* A boosted real-time task has the best priority.
LEMMA BoostedIsTop ==
  ASSUME OnlyTopBoosts, NEW rec, NEW w, RankRight(rec, w), rt_prio(rec.prio),
         rec.prio # rec.normal_prio
  PROVE  rec.prio = 0 /\ w = 0
<1>1. rec.prio = rt_mutex_getprio(rec, w) /\ w \in PiPrios \cup {MAX_PRIO}
  BY DEF RankRight, Dropped
<1>2. rec.prio = w
  BY <1>1 DEF rt_mutex_getprio, Lesser
<1>3. w \in PiPrios \cap RtPrios
  BY <1>1, <1>2, WaiterPrios, PiPriosAssumption, PrioTypes
<1> QED BY <1>2, <1>3 DEF OnlyTopBoosts

\* A task that changes to another real-time class does not lose priority: its new
\* policy is one with a better normal priority, or it is boosted.
LEMMA SwitchedRaises ==
  ASSUME OnlyTopBoosts, NEW a, NEW w, RankRight(a, w), NEW b, NEW v, RankRight(b, v),
         v = w \/ b.policy = a.policy, b.class # "fair", rt_prio(b.prio), a.class # b.class
  PROVE  b.prio <= a.prio
<1>1. a \in Task /\ b \in Task /\ a.prio \in Nat /\ b.prio \in Nat
  BY PrioTypes DEF RankRight, Task
<1>2. rt_prio(a.normal_prio) <=> rt_policy(a.policy)
  BY <1>1, NormalPrioClass DEF RankRight
<1>3. rt_prio(b.normal_prio) <=> rt_policy(b.policy)
  BY <1>1, NormalPrioClass DEF RankRight
<1>4. CASE ~ rt_prio(a.prio)
  BY <1>1, <1>4, PrioAssumption DEF rt_prio
<1>5. CASE b.prio # b.normal_prio
  BY <1>1, <1>5, BoostedIsTop
<1>6. CASE rt_prio(a.prio) /\ b.prio = b.normal_prio
  <2>1. rt_policy(b.policy)
    BY <1>3, <1>6
  <2>2. ~ rt_policy(a.policy)
    <3>1. a.class \in {"fair", "rt", "brr"} /\ b.class \in {"fair", "rt", "brr"}
      BY <1>1 DEF Task, Classes
    <3>2. b.class = "rt"
      BY <2>1, <3>1 DEF RankRight, rt_policy
    <3> QED BY <3>1, <3>2 DEF RankRight, rt_policy
  <2>3. a.prio # a.normal_prio
    BY <1>2, <1>6, <2>2
  <2>4. w = 0 /\ v = 0
    BY <1>6, <2>1, <2>2, <2>3, BoostedIsTop
  <2>5. b.prio = rt_mutex_getprio(b, 0)
    BY <2>4 DEF RankRight, Dropped
  <2>6. b.prio = 0
    BY <1>1, <1>6, <2>5 DEF rt_mutex_getprio, Lesser
  <2> QED BY <1>1, <2>6
<1> QED BY <1>4, <1>5, <1>6

\* Nothing pending is lost in a step the run queue hardly sees.
LEMMA QuietPending ==
  ASSUME Inv, Quiet, Pending(task, rq)
  PROVE  Pending(task', rq')
<1>1. rq.linked \subseteq rq.on_rq /\ (rq.curr # Idle => rq.curr \in rq.on_rq)
  BY DEF Inv, StateRight, QueuesRight, ClassesMatch, RunQueue
<1>2. \A u \in rq.on_rq : task'[u].prio = task[u].prio
  BY DEF Quiet, SameQueued
<1>3. rq'.curr = rq.curr /\ CurrPrio(task', rq') = CurrPrio(task, rq)
  BY <1>1, <1>2 DEF Quiet, Kept, CurrPrio
<1>4. rt_rq_throttled(rq) => rt_rq_throttled(rq')
  BY DEF Quiet, Kept, rt_rq_throttled
<1> QED BY <1>1, <1>2, <1>3, <1>4 DEF Pending, Quiet, Kept

\* A queue with a boosted task is not throttled.
LEMMA NoneBoosted ==
  ASSUME NEW tk, NEW q, QueuesRight(tk, q)
  PROVE  q.rt_nr_boosted = 0 <=> \A u \in q.linked : ~ rt_se_boosted(tk, u)
<1>1. BoostedOf(tk, q) \in SUBSET Tasks /\ q.rt_nr_boosted = Cardinality(BoostedOf(tk, q))
  BY DEF QueuesRight, RtInv, RtCountsMatch, RunQueue, BoostedOf
<1>2. q.rt_nr_boosted = 0 <=> BoostedOf(tk, q) = {}
  BY <1>1, CountTask
<1> QED BY <1>2 DEF BoostedOf

\* t is moved: when it runs on with less priority, or is queued with more than the
\* running task has, a reschedule is asked for.
LEMMA MovedPending ==
  ASSUME OnlyTopBoosts, Inv, Inv', RankInv', NEW t \in Tasks, OnlyChanges(t),
         Kept(rq, rq', t), Pending(task, rq),
         rq.curr = t => task'[t].prio <= task[t].prio \/ rq.curr \in rq'.resched,
         rq.curr # t /\ t \in rq'.linked =>
           \/ task'[t].prio < CurrPrio(task', rq') => rq.curr \in rq'.resched
           \/ t \in rq.linked /\ task'[t].prio = task[t].prio /\ rt_se_boosted(task, t)
  PROVE  Pending(task', rq')
<1> SUFFICES ASSUME NEW u \in rq'.linked, task'[u].prio < CurrPrio(task', rq'),
                    rq.curr \notin rq'.resched
             PROVE  rt_rq_throttled(rq')
  BY DEF Pending, Kept
<1>1. /\ task \in [Tasks -> Task] /\ task' \in [Tasks -> Task]
      /\ QueuesRight(task, rq) /\ QueuesRight(task', rq')
      /\ rq.linked \in SUBSET Tasks /\ rq'.linked \in SUBSET Tasks
      /\ rq'.curr = rq.curr /\ rq.curr \in Tasks \cup {Idle}
  BY DEF Inv, StateRight, QueuesRight, RunQueue, Kept
<1>2. \A x \in Tasks : task[x].prio \in Nat /\ task'[x].prio \in Nat
  BY <1>1, PrioTypes DEF Task
<1>3. CurrPrio(task, rq) \in Nat /\ CurrPrio(task', rq') \in Nat
      /\ CurrPrio(task', rq') <= CurrPrio(task, rq)
  <2>1. CASE rq.curr = t
    BY <1>1, <1>2, <2>1, TasksAssumption DEF CurrPrio
  <2>2. CASE rq.curr # t
    <3>1. CurrPrio(task', rq') = CurrPrio(task, rq)
      BY <1>1, <2>2 DEF CurrPrio, OnlyChanges
    <3> QED BY <1>1, <1>2, <3>1, PrioAssumption DEF CurrPrio
  <2> QED BY <2>1, <2>2
<1>4. rq.curr = t => CurrPrio(task', rq') = task'[t].prio
  BY <1>1, TasksAssumption DEF CurrPrio
<1>5. u \in rq.linked /\ task[u].prio = task'[u].prio
  <2>1. CASE u # t
    BY <1>1, <2>1 DEF Kept, OnlyChanges
  <2>2. CASE u = t
    BY <1>2, <1>4, <2>2
  <2> QED BY <2>1, <2>2
<1>6. rt_rq_throttled(rq)
  <2>1. task[u].prio < CurrPrio(task, rq) /\ rq.curr \notin rq.resched
    BY <1>1, <1>2, <1>3, <1>5 DEF Kept
  <2> QED BY <1>5, <2>1 DEF Pending
<1>7. \A x \in rq.linked : ~ rt_se_boosted(task, x)
  BY <1>1, <1>6, NoneBoosted DEF rt_rq_throttled
<1>8. ASSUME NEW x \in rq'.linked, rt_se_boosted(task', x) PROVE FALSE
  <2>1. CASE x # t
    BY <1>1, <1>7, <1>8, <2>1 DEF Kept, OnlyChanges, rt_se_boosted
  <2>2. CASE x = t
    <3>1. task'[t].prio = 0
      <4>1. RankRight(task'[t], pi'[t]) /\ rt_prio(task'[t].prio)
        BY <1>1, <1>8, <2>2 DEF RankInv, RanksRight, QueuesRight, RtInv, ListsMatch
      <4> QED BY <1>8, <2>2, <4>1, BoostedIsTop DEF rt_se_boosted
    <3>2. task'[t].prio < CurrPrio(task', rq')
      BY <1>1, <1>2, <1>3, <3>1
    <3>3. rq.curr # t
      BY <1>2, <1>4, <3>2
    <3> QED BY <1>7, <1>8, <2>2, <3>2, <3>3
  <2> QED BY <2>1, <2>2
<1>9. rq'.rt_nr_boosted = 0
  BY <1>1, <1>8, NoneBoosted
<1> QED BY <1>6, <1>9 DEF Kept, rt_rq_throttled

\* What the checks leave: the queues of m, with at most a reschedule more.
LEMMA CheckedQueues ==
  ASSUME Inv', NEW t \in Tasks, NEW m, Moved(m, t), NEW prev, NEW oldprio, NEW c, NEW x \in Tasks \cup {Idle},
         \/ rq' \in check_class_changed(task', m, t, prev, oldprio)
         \/ rq' \in check_preempt_curr(task', m, t)
         \/ rq' = ReschedIf(c, m)
         \/ rq' = resched_task(m, x)
  PROVE  /\ m \in RunQueue /\ m.curr = rq.curr /\ rq'.curr = rq.curr
         /\ task' \in [Tasks -> Task] /\ t \in rq'.on_rq
         /\ t \in rq'.linked <=> task'[t].class # "fair"
         /\ t \in rq'.linked => rt_prio(task'[t].prio)
         /\ CurrPrio(task', m) = CurrPrio(task', rq')
<1>1. task' \in [Tasks -> Task] /\ m \in RunQueue /\ m.curr = rq.curr /\ t \in m.on_rq
      /\ QueuesRight(task', rq')
  BY DEF Inv, StateRight, Moved, QueuesRight
<1>2. SoftStep(m, rq')
  BY <1>1, SoftCheck, SoftReschedIf, SoftResched
<1>3. rq'.curr = m.curr /\ t \in rq'.on_rq
  BY <1>1, <1>2 DEF SoftStep
<1>4. t \in rq'.linked <=> task'[t].class # "fair"
  BY <1>1, <1>3 DEF QueuesRight, ClassesMatch
<1>5. t \in rq'.linked => rt_prio(task'[t].prio)
  BY <1>1 DEF QueuesRight, RtInv, ListsMatch
<1>6. CurrPrio(task', m) = CurrPrio(task', rq')
  BY <1>3 DEF CurrPrio
<1> QED BY <1>1, <1>3, <1>4, <1>5, <1>6

\* A reschedule that is asked for is pending.
LEMMA AskedFor ==
  ASSUME NEW m \in RunQueue, NEW c, NEW r, r = ReschedIf(c, m) \/ r = resched_task(m, m.curr)
  PROVE  (c \/ r # ReschedIf(c, m)) => m.curr \in r.resched
BY DEF ReschedIf, resched_task, RunQueue

\* A queued task changes class or priority, and check_class_changed looks.
LEMMA ChangedPending ==
  ASSUME OnlyTopBoosts, Inv, Inv', RankInv, RankInv', NEW t \in Tasks, NEW m, Moved(m, t),
         rq' \in check_class_changed(task', m, t, task[t].class, task[t].prio),
         pi'[t] = pi[t] \/ task'[t].policy = task[t].policy,
         Pending(task, rq)
  PROVE  Pending(task', rq')
<1>1. /\ m \in RunQueue /\ m.curr = rq.curr /\ rq'.curr = rq.curr
      /\ t \in rq'.linked <=> task'[t].class # "fair"
      /\ t \in rq'.linked => rt_prio(task'[t].prio)
      /\ CurrPrio(task', m) = CurrPrio(task', rq')
  BY CheckedQueues, TasksAssumption
<1>2. Kept(rq, rq', t) /\ OnlyChanges(t)
  BY MovedKept DEF Moved
<1>3. /\ task[t].class \in {"fair", "rt", "brr"} /\ task'[t].class \in {"fair", "rt", "brr"}
      /\ task[t].prio \in Nat /\ task'[t].prio \in Nat
  <2>1. task[t] \in Task /\ task'[t] \in Task
    BY DEF Inv, StateRight
  <2> QED BY <2>1, PrioTypes DEF Task, Classes
<1>4. RankRight(task[t], pi[t]) /\ RankRight(task'[t], pi'[t])
  BY DEF RankInv, RanksRight
<1>5. ASSUME rq.curr = t, rq.curr \notin rq'.resched PROVE task'[t].prio <= task[t].prio
  <2>2. CASE task'[t].class # "fair" /\ task[t].class # task'[t].class
    BY <1>1, <1>4, <2>2, SwitchedRaises
  <2>3. CASE task'[t].class # "fair" /\ task[t].class = task'[t].class
    <3>1. rq' = ReschedIf(task[t].prio < task'[t].prio, m)
      BY <1>1, <1>5, <2>3 DEF check_class_changed
    <3>2. ~ (task[t].prio < task'[t].prio)
      BY <1>1, <1>5, <3>1, AskedFor
    <3> QED BY <1>3, <3>2
  <2>4. CASE task'[t].class = "fair"
    <3>1. rq' = ReschedIf(task[t].class # "fair" \/ task[t].prio < task'[t].prio, m)
      BY <1>1, <1>5, <2>4 DEF check_class_changed
    <3>2. ~ (task[t].class # "fair" \/ task[t].prio < task'[t].prio)
      BY <1>1, <1>5, <3>1, AskedFor
    <3> QED BY <1>3, <3>2
  <2> QED BY <2>2, <2>3, <2>4
<1>6. ASSUME rq.curr # t, t \in rq'.linked, task'[t].prio < CurrPrio(task', rq')
      PROVE  rq.curr \in rq'.resched
  <2>1. rq' = ReschedIf(task'[t].prio < CurrPrio(task', m), m)
    BY <1>1, <1>3, <1>6 DEF check_class_changed
  <2> QED BY <1>1, <1>6, <2>1, AskedFor
<1> QED BY <1>2, <1>5, <1>6, MovedPending

\* A task is woken, and check_preempt_curr looks.
LEMMA WokenPending ==
  ASSUME OnlyTopBoosts, Inv, Inv', RankInv', NEW t \in Tasks \ rq.on_rq, NEW m, Moved(m, t),
         rq' \in check_preempt_curr(task', m, t),
         Pending(task, rq)
  PROVE  Pending(task', rq')
<1>1. /\ m \in RunQueue /\ m.curr = rq.curr /\ rq'.curr = rq.curr
      /\ t \in rq'.linked => rt_prio(task'[t].prio)
      /\ CurrPrio(task', m) = CurrPrio(task', rq') /\ task' \in [Tasks -> Task]
  BY CheckedQueues, TasksAssumption
<1>2. Kept(rq, rq', t) /\ OnlyChanges(t)
  BY MovedKept DEF Moved
<1>3. rq.curr # t
  BY TasksAssumption DEF Inv, StateRight
<1>4. ASSUME t \in rq'.linked, task'[t].prio < CurrPrio(task', rq')
      PROVE  rq.curr \in rq'.resched
  <2>1. CurrClass(task', m) \in {"idle", "fair", "rt", "brr"}
    BY <1>1 DEF CurrClass, RunQueue, Task, Classes
  <2>2. rq' = resched_task(m, m.curr) \/ rq' = ReschedIf(task'[t].prio < CurrPrio(task', m), m)
    BY <1>1, <1>4, <2>1 DEF check_preempt_curr
  <2>3. m.curr \in resched_task(m, m.curr).resched
    BY <1>1 DEF resched_task, RunQueue
  <2> QED BY <1>1, <1>4, <2>2, <2>3 DEF ReschedIf
<1> QED BY <1>2, <1>3, <1>4, MovedPending

\* A nice value changes: a queued real-time task without a real-time policy is
\* boosted and keeps its priority.
LEMMA NicePending ==
  ASSUME OnlyTopBoosts, Inv, Inv', RankInv, RankInv', NEW t \in Tasks,
         NEW static \in StaticPrios, SetNice(t, static), Pending(task, rq)
  PROVE  Pending(task', rq')
<1> DEFINE stat == [task[t] EXCEPT !.static_prio = static]
           eff == effective_prio(stat)
<1>1. CASE Quiet
  BY <1>1, QuietPending
<1>2. CASE ~ Quiet
  <2>1. /\ t \in rq.on_rq /\ ~ rt_policy(task[t].policy)
        /\ \E m : Moved(m, t) /\ rq' = ReschedIf(NiceAsks(t), m)
        /\ \E bid \in Int : task'[t] =
             [effective_prio([task[t] EXCEPT !.static_prio = static]) EXCEPT !.bid = bid]
    BY <1>2, SetNiceMoves
  <2>2. PICK m : Moved(m, t) /\ rq' = ReschedIf(NiceAsks(t), m)
    BY <2>1
  <2>3. PICK bid \in Int : task'[t] = [eff EXCEPT !.bid = bid]
    BY <2>1
  <2>4. /\ m \in RunQueue /\ m.curr = rq.curr /\ rq'.curr = rq.curr
        /\ t \in rq'.linked <=> task'[t].class # "fair"
        /\ t \in rq'.linked => rt_prio(task'[t].prio)
    BY <2>2, CheckedQueues, TasksAssumption
  <2>5. Kept(rq, rq', t) /\ OnlyChanges(t)
    BY <2>2, MovedKept DEF Moved
  <2>6. NiceAsks(t) => rq.curr \in rq'.resched
    BY <2>2, <2>4, AskedFor
  <2>7. task[t] \in Task /\ task[t].prio \in Nat /\ task'[t].prio \in Nat
        /\ RankRight(task[t], pi[t])
    BY PrioTypes DEF Inv, StateRight, Task, RankInv, RanksRight
  <2>8. rq.curr = t => task'[t].prio <= task[t].prio \/ rq.curr \in rq'.resched
    BY <2>6, <2>7 DEF NiceAsks
  <2>9. ASSUME t \in rq'.linked
        PROVE  t \in rq.linked /\ task'[t].prio = task[t].prio /\ rt_se_boosted(task, t)
    <3>1. /\ stat \in Task /\ stat.policy = task[t].policy /\ stat.prio = task[t].prio
          /\ stat.class = task[t].class /\ stat.static_prio = static
      BY <2>7, StaticPriosAssumption DEF Task
    <3> HIDE DEF stat
    <3>2. /\ task'[t].class = task[t].class
          /\ task'[t].prio = IF rt_prio(task[t].prio) THEN task[t].prio ELSE static
      BY <2>1, <2>3, <3>1 DEF effective_prio, normal_prio, Task
    <3>3. ~ rt_prio(static)
      BY StaticPriosAssumption, WaiterPrios
    <3>4. rt_prio(task[t].prio) /\ task'[t].prio = task[t].prio
      BY <2>4, <2>9, <3>2, <3>3
    <3>5. t \in rq.linked
      BY <2>1, <2>4, <2>9, <3>2 DEF Inv, StateRight, QueuesRight, ClassesMatch
    <3>6. rt_se_boosted(task, t)
      BY <2>1, <2>7, <3>4, NormalPrioClass DEF RankRight, rt_se_boosted
    <3> QED BY <3>4, <3>5, <3>6
  <2> QED BY <2>5, <2>8, <2>9, MovedPending
<1> QED BY <1>1, <1>2

\* No task is between the two halves of a call.
NoCalls == \A t \in Tasks : prev_class[t] = "none"

\* Without preempted callers there is never one.
LEMMA NoCallsNext ==
  ASSUME Preempted = {}
  PROVE  Inv /\ NoCalls /\ [Next]_vars => NoCalls'
<1> SUFFICES ASSUME Inv, NoCalls, [Next]_vars PROVE NoCalls'
  OBVIOUS
<1>1. ~ ReadPrevClass
  BY DEF ReadPrevClass
<1>2. ASSUME NEW pol \in UserPolicies, NEW rtprio \in RtPrios,
             NEW bucket \in BucketArgs(pol), ResumeSetscheduler(pol, rtprio, bucket)
      PROVE  FALSE
  <2>1. rq.curr \in Tasks
    BY <1>2 DEF ResumeSetscheduler, Inv, StateRight, QueuesRight, RunQueue
  <2> QED BY <1>2, <2>1 DEF ResumeSetscheduler, NoCalls
<1> QED BY <1>1, <1>2, PrevClassKept DEF NoCalls

\* What a handler of one task does about a preemption that is due.
LEMMA HandlersPending ==
  ASSUME OnlyTopBoosts, Inv, Inv', RankInv, RankInv', Pending(task, rq), NEW t \in Tasks,
         \/ \E pol \in UserPolicies, rtprio \in RtPrios :
              \E bucket \in BucketArgs(pol) : sched_setscheduler(t, pol, rtprio, bucket)
         \/ \E waiter \in PiPrios \cup {MAX_PRIO} : PiChange(t, waiter)
         \/ \E static \in StaticPrios : set_user_nice(t, static)
         \/ normalize_task(t) \/ try_to_wake_up(t) \/ sched_fork(t) \/ wake_up_new_task(t)
         \/ prepare_to_sleep
  PROVE  Pending(task', rq')
<1>1. Quiet => Pending(task', rq')
  BY QuietPending
<1>2. ASSUME NEW pol \in UserPolicies, NEW rtprio \in RtPrios,
             NEW bucket \in BucketArgs(pol), sched_setscheduler(t, pol, rtprio, bucket)
      PROVE  Pending(task', rq')
  <2>1. SetUnderLock(t, pol, rtprio, bucket, task[t].class) /\ pi'[t] = pi[t]
    BY <1>2 DEF sched_setscheduler, SetUnderLock
  <2>2. Quiet \/ \E m : Moved(m, t)
                   /\ rq' \in check_class_changed(task', m, t, task[t].class, task[t].prio)
    BY <2>1, SetschedulerMoves
  <2> QED BY <1>1, <2>1, <2>2, ChangedPending
<1>3. ASSUME NEW waiter \in PiPrios \cup {MAX_PRIO}, PiChange(t, waiter)
      PROVE  Pending(task', rq')
  <2> DEFINE prio == rt_mutex_getprio(task[t], waiter)
  <2>1. prio \in TaskPrios /\ task[t] \in Task
    <3>1. waiter \in 0 .. MAX_PRIO /\ task[t].normal_prio \in TaskPrios /\ task[t] \in Task
      BY WaiterPrios DEF Inv, StateRight, Task
    <3> QED BY <3>1, PrioTypes DEF rt_mutex_getprio
  <2>2. CASE prio = task[t].prio
    BY <1>3, <2>2 DEF PiChange
  <2>3. CASE prio # task[t].prio
    <3>1. rt_mutex_setprio(t, prio)
      BY <1>3, <2>3 DEF PiChange
    <3> HIDE DEF prio
    <3>2. \/ Quiet
          \/ \E m : Moved(m, t)
               /\ rq' \in check_class_changed(task', m, t, task[t].class, task[t].prio)
               /\ task'[t] = Reprioritised(task[t], prio)
      BY <2>1, <3>1, SetprioMoves
    <3>3. Reprioritised(task[t], prio).policy = task[t].policy
      BY <2>1 DEF Reprioritised, Task
    <3> QED BY <1>1, <3>2, <3>3, ChangedPending
  <2> QED BY <2>2, <2>3
<1>4. ASSUME NEW static \in StaticPrios, set_user_nice(t, static)
      PROVE  Pending(task', rq')
  BY <1>4, NicePending DEF set_user_nice
<1>5. ASSUME normalize_task(t)
      PROVE  Pending(task', rq')
  <2>1. \/ SetNice(t, DEFAULT_PRIO)
        \/ Quiet
        \/ t \in rq.on_rq /\ \E m : Moved(m, t) /\ rq' = resched_task(m, rq.curr)
    BY <1>5, NormalizeMoves
  <2>2. CASE \E m : Moved(m, t) /\ rq' = resched_task(m, rq.curr)
    <3>1. PICK m : Moved(m, t) /\ rq' = resched_task(m, rq.curr)
      BY <2>2
    <3>2. m \in RunQueue /\ m.curr = rq.curr
      BY <3>1 DEF Moved, QueuesRight
    <3> QED BY <3>1, <3>2 DEF resched_task, RunQueue, Pending
  <2> QED BY <1>1, <2>1, <2>2, NicePending, StaticPriosAssumption
<1>6. ASSUME try_to_wake_up(t) \/ wake_up_new_task(t)
      PROVE  Pending(task', rq')
  <2>1. \/ Quiet
        \/ t \notin rq.on_rq /\ \E m : Moved(m, t) /\ rq' \in check_preempt_curr(task', m, t)
    BY <1>6, WakeUpMoves, WakeUpNewMoves
  <2> QED BY <1>1, <2>1, WokenPending
<1>7. ASSUME prepare_to_sleep \/ sched_fork(t)
      PROVE  Pending(task', rq')
  BY <1>1, <1>7, QuietHandlers
<1> QED BY <1>2, <1>3, <1>4, <1>5, <1>6, <1>7

\* The invariant of a pending preemption.
PendingInv == Pending(task, rq)

\* Every step keeps it.
LEMMA PendingNext ==
  ASSUME OnlyTopBoosts
  PROVE  Inv /\ Inv' /\ RankInv /\ RankInv' /\ TimerInv /\ NoCalls /\ PendingInv /\ [Next]_vars
           => PendingInv'
<1> SUFFICES ASSUME Inv, Inv', RankInv, RankInv', TimerInv, NoCalls, Pending(task, rq), [Next]_vars
             PROVE  Pending(task', rq')
  BY DEF PendingInv
<1>1. ASSUME NEW t \in Tasks,
             \/ \E pol \in UserPolicies, rtprio \in RtPrios :
                  \E bucket \in BucketArgs(pol) : sched_setscheduler(t, pol, rtprio, bucket)
             \/ \E waiter \in PiPrios \cup {MAX_PRIO} : PiChange(t, waiter)
             \/ \E static \in StaticPrios : set_user_nice(t, static)
             \/ normalize_task(t) \/ try_to_wake_up(t) \/ sched_fork(t) \/ wake_up_new_task(t)
      PROVE  Pending(task', rq')
  BY <1>1, HandlersPending
<1>2. CASE prepare_to_sleep
  <2>1. rq.curr \in Tasks
    BY <1>2 DEF prepare_to_sleep, MayCall, Inv, StateRight, QueuesRight, RunQueue
  <2> QED BY <1>2, <2>1, HandlersPending
<1>3. CASE sched_yield \/ scheduler_tick
  BY <1>3, YieldQuiet, TickQuiet, QuietPending DEF TimerInv
<1>4. CASE sched_rt_period_timer
  BY <1>4, PeriodTimerRight
<1>5. ASSUME NEW preempt \in BOOLEAN, NEW signal \in BOOLEAN, schedule(preempt, signal)
      PROVE  Pending(task', rq')
  <2>1. rq'.linked # {} /\ ~ rt_rq_throttled(rq') =>
          \A u \in rq'.linked : CurrPrio(task', rq') <= task'[u].prio
    BY <1>5, ScheduleStep
  <2>2. /\ task' \in [Tasks -> Task] /\ rq'.linked \in SUBSET Tasks
        /\ rq'.curr \in Tasks \cup {Idle}
    BY DEF Inv, StateRight, QueuesRight, RunQueue
  <2>3. \A u \in Tasks : task'[u].prio \in Nat
    BY <2>2, PrioTypes DEF Task
  <2>4. CurrPrio(task', rq') \in Nat
    BY <2>2, <2>3, PrioAssumption DEF CurrPrio
  <2> QED BY <2>1, <2>2, <2>3, <2>4 DEF Pending
<1>6. CASE ReadPrevClass \/ UNCHANGED vars
  BY <1>6 DEF ReadPrevClass, vars
<1>7. ASSUME NEW pol \in UserPolicies, NEW rtprio \in RtPrios,
             NEW bucket \in BucketArgs(pol), ResumeSetscheduler(pol, rtprio, bucket)
      PROVE  FALSE
  <2>1. rq.curr \in Tasks
    BY <1>7 DEF ResumeSetscheduler, Inv, StateRight, QueuesRight, RunQueue
  <2> QED BY <1>7, <2>1 DEF ResumeSetscheduler, NoCalls
<1> QED BY <1>1, <1>2, <1>3, <1>4, <1>5, <1>6, <1>7 DEF Next

\* No preemption is lost: whenever a real-time task that may run has a better
\* priority than the running task, a reschedule is pending.  The boosts to a
\* real-time priority have to come from waiters of the best one, and no caller of
\* sched_setscheduler is preempted before it takes the lock: without the first a
\* task that is boosted changes class and is not compared, without the second the
\* class compared is stale.
THEOREM PreemptionsNotLost ==
  ASSUME OnlyTopBoosts, Preempted = {}
  PROVE  Spec => []PreemptNotLost
<1>1. Init => NoCalls /\ PendingInv
  BY DEF Init, InitRunQueue, NoCalls, PendingInv, Pending
<1>2. PendingInv => PreemptNotLost
  BY DEF PendingInv, Pending, PreemptNotLost
<1> QED BY <1>1, <1>2, InvInit, InvNext, RankInvHolds, TimerInvHolds, NoCallsNext, PendingNext, PTL DEF Spec


-----------------------------------------------------------------------------
(* Nobody jumps a queue.                                                   *)

\* What NoQueueJump says of a step.
NoJump == \A t, u \in rq.linked : Ahead(rq, t, u) /\ Ahead(rq', u, t) => Requeued(t)

\* Two tasks are one before the other in one way only.
LEMMA OneWay ==
  ASSUME NEW tk, NEW q \in RunQueue, ListsMatch(tk, q), NEW t, NEW u, Ahead(q, t, u),
         NEW p \in RtPrios, InOrder(q.queue[p], u, t)
  PROVE  FALSE
<1>1. PICK r \in RtPrios : InOrder(q.queue[r], t, u)
  BY DEF Ahead, InOrder
<1>2. \A k \in RtPrios : ToSet(q.queue[k]) = {x \in q.linked : tk[x].prio = k} /\ IsInjective(q.queue[k])
      /\ DOMAIN q.queue[k] \subseteq Nat
  BY DEF ListsMatch, RunQueue
<1>3. t \in ToSet(q.queue[r]) /\ t \in ToSet(q.queue[p])
  BY <1>1 DEF InOrder, ToSet
<1>4. r = p
  BY <1>2, <1>3
<1> DEFINE s == q.queue[p]
<1>5. IsInjective(s) /\ DOMAIN s \subseteq Nat /\ InOrder(s, t, u) /\ InOrder(s, u, t)
  BY <1>1, <1>2, <1>4
<1> HIDE DEF s
<1>6. PICK i \in DOMAIN s, j \in DOMAIN s : i < j /\ s[i] = t /\ s[j] = u
  BY <1>5 DEF InOrder
<1>7. PICK k \in DOMAIN s, l \in DOMAIN s : k < l /\ s[k] = u /\ s[l] = t
  BY <1>5 DEF InOrder
<1>8. k = j /\ l = i
  BY <1>5, <1>6, <1>7 DEF IsInjective
<1>9. i \in Nat /\ j \in Nat
  BY <1>5
<1> QED BY <1>6, <1>7, <1>8, <1>9

\* A step that moves one task, which asked for it, and perhaps the running one.
LEMMA OrderedStep ==
  ASSUME Inv, NEW m, KeepsOrder(rq.queue, rq'.queue, {m, rq.curr}), m \in rq.linked => Requeued(m)
  PROVE  NoJump
<1> SUFFICES ASSUME NEW t \in rq.linked, NEW u \in rq.linked, Ahead(rq, t, u), Ahead(rq', u, t),
                    ~ Requeued(t)
             PROVE  FALSE
  BY DEF NoJump
<1>1. rq \in RunQueue /\ ListsMatch(task, rq) /\ t \in Tasks /\ u \in Tasks
  BY DEF Inv, StateRight, QueuesRight, RtInv, RunQueue
<1>2. t \notin {m, rq.curr}
  BY DEF Requeued
<1>3. PICK p \in RtPrios : InOrder(rq'.queue[p], u, t)
  BY DEF Ahead, InOrder
<1>4. InOrder(rq.queue[p], u, t)
  BY <1>1, <1>2, <1>3 DEF KeepsOrder
<1> QED BY <1>1, <1>4, OneWay

\* A step that moves none.
LEMMA QuietOrdered ==
  ASSUME Inv, Kept(rq, rq', Idle)
  PROVE  NoJump
<1>1. KeepsOrder(rq.queue, rq'.queue, {Idle, rq.curr})
  BY DEF Kept
<1>2. Idle \notin rq.linked
  BY TasksAssumption DEF Inv, StateRight, QueuesRight, RunQueue
<1> QED BY <1>1, <1>2, OrderedStep

\* A step of a handler of m.
LEMMA HandledOrdered ==
  ASSUME Inv, NEW m, Kept(rq, rq', m), m \in rq.linked => Requeued(m)
  PROVE  NoJump
BY OrderedStep DEF Kept

\* A bucket that was chosen is chosen again.
LEMMA ChosenStays ==
  ASSUME NEW q, NEW bid
  PROVE  ChooseBucket(q, ChooseBucket(q, bid)) = ChooseBucket(q, bid)
<1> DEFINE free == {c \in Buckets : q.numInBucket[c] = 0}
<1>1. CASE bid = -1 /\ free # {}
  <2>1. free \in SUBSET Nat
    BY BucketAssumption DEF Buckets
  <2>2. Min(free) \in free
    BY <1>1, <2>1, MinOfNaturals
  <2> HIDE DEF free
  <2>3. Min(free) # -1
    BY <2>1, <2>2
  <2>4. ChooseBucket(q, bid) = Min(free)
    BY <1>1 DEF ChooseBucket, free
  <2> QED BY <2>3, <2>4 DEF ChooseBucket
<1>2. CASE ~ (bid = -1 /\ free # {})
  BY <1>2 DEF ChooseBucket
<1> QED BY <1>1, <1>2

\* A call that leaves its task as it was is one with the parameters it had.
LEMMA SameCall ==
  ASSUME Inv, NEW t \in Tasks, t \in rq.on_rq, NEW pol \in UserPolicies, NEW rtprio \in RtPrios,
         NEW bucket \in BucketArgs(pol), sched_setscheduler(t, pol, rtprio, bucket),
         fault' = "none", task'[t] = task[t]
  PROVE  sched_setscheduler(t, task[t].policy, task[t].rt_priority, task[t].bid)
<1> DEFINE b == task[t].bid
           out == PutIfRunning(task, deactivate_task(task, rq, t), t)
           rec == __setscheduler(task[t], pol, rtprio, bucket, pi[t])
           rec2 == __setscheduler(task[t], pol, rtprio, b, pi[t])
           tk == [task EXCEPT ![t] = rec]
           tk2 == [task EXCEPT ![t] = rec2]
           placed == AssignBucket(tk, out, t)
           placed2 == AssignBucket(tk2, out, t)
           class == task[t].class
<1>1. /\ MayCall /\ fault = "none" /\ Alive(t) /\ ParamsValid(pol, rtprio)
      /\ UNCHANGED <<pi, prev_class>>
      /\ Commit(EnqueueFault(tk, out, t), placed,
           check_class_changed(placed, activate_task(placed, out, t), t, class, task[t].prio))
  BY DEF sched_setscheduler, SetUnderLock
<1>2. task \in [Tasks -> Task] /\ pi \in [Tasks -> 0 .. MAX_PRIO]
  BY DEF Inv, StateRight
<1>3. EnqueueFault(tk, out, t) = "none" /\ task' = placed
  BY <1>1 DEF Commit
<1>4. rec \in Task /\ rec2 \in Task /\ bucket \in Int /\ b \in Int
  <2>1. bucket \in Int /\ pol \in Policies /\ b \in Int
    BY <1>2, UserBucketsAssumption, PoliciesAssumption DEF BucketArgs, Task
  <2> QED BY <1>2, <2>1, SetschedulerTyped
<1>5. /\ rec.policy = pol /\ rec.rt_priority = rtprio
      /\ rec2 = [rec EXCEPT !.bid = b] /\ (pol # "BRR" => rec.bid = b)
      /\ (pol = "BRR" => rec.bid = bucket) /\ (rec.class = "brr" <=> pol = "BRR")
  <2>1. pol \in Policies
    BY PoliciesAssumption
  <2> QED BY <1>2, <2>1 DEF __setscheduler, Task, ClassOf, normal_prio, rt_mutex_getprio, Policies
<1> HIDE DEF rec, rec2, out
<1>6. tk[t] = rec /\ tk2[t] = rec2
  BY <1>2
<1>7. placed[t] = task[t] /\ placed[t].policy = pol /\ placed[t].rt_priority = rtprio
  <2>1. placed[t] = task[t]
    BY <1>3
  <2>2. placed[t].policy = rec.policy /\ placed[t].rt_priority = rec.rt_priority
    BY <1>2, <1>4, <1>6 DEF AssignBucket, Task
  <2> QED BY <1>5, <2>1, <2>2
<1>8. placed2 = placed /\ EnqueueFault(tk2, out, t) = EnqueueFault(tk, out, t)
  <2>1. CASE pol # "BRR"
    <3>1. rec2 = rec
      BY <1>4, <1>5, <2>1 DEF Task
    <3> QED BY <3>1
  <2>2. CASE pol = "BRR"
    <3> DEFINE c == ChooseBucket(out, bucket)
    <3>1. placed = [tk EXCEPT ![t] = [rec EXCEPT !.bid = c]]
      BY <1>5, <1>6, <2>2 DEF AssignBucket
    <3>2. placed[t].bid = c
      BY <1>4, <1>2, <3>1 DEF Task
    <3>3. c = b
      BY <1>7, <3>2
    <3>4. ChooseBucket(out, b) = b
      BY <3>3, ChosenStays
    <3>5. rec2.bid = b /\ rec2.class = "brr" /\ rec2.prio = rec.prio /\ rec.class = "brr"
          /\ rec.bid = bucket /\ [rec2 EXCEPT !.bid = b] = [rec EXCEPT !.bid = b]
      BY <1>4, <1>5, <2>2 DEF Task
    <3>6. placed2 = [tk2 EXCEPT ![t] = [rec2 EXCEPT !.bid = b]]
      BY <1>6, <3>4, <3>5 DEF AssignBucket
    <3>7. placed2 = placed
      <4> DEFINE same == [rec EXCEPT !.bid = b]
      <4>1. placed = [tk EXCEPT ![t] = same] /\ placed2 = [tk2 EXCEPT ![t] = same]
        BY <3>1, <3>3, <3>5, <3>6
      <4> HIDE DEF same
      <4>2. [tk EXCEPT ![t] = same] = [tk2 EXCEPT ![t] = same]
        BY <1>2
      <4> QED BY <4>1, <4>2
    <3>8. EnqueueFault(tk2, out, t) = EnqueueFault(tk, out, t)
      <4>1. tk2[t].class = tk[t].class /\ tk2[t].prio = tk[t].prio
            /\ ChooseBucket(out, tk2[t].bid) = ChooseBucket(out, tk[t].bid)
        BY <1>6, <3>3, <3>4, <3>5
      <4> QED BY <4>1 DEF EnqueueFault
    <3> QED BY <3>7, <3>8
  <2> QED BY <2>1, <2>2
<1>9. task[t].policy = pol /\ task[t].rt_priority = rtprio
  BY <1>7
<1>10. SetUnderLock(t, pol, rtprio, b, class)
  <2>1. Commit(EnqueueFault(tk2, out, t), placed2,
           check_class_changed(placed2, activate_task(placed2, out, t), t, class, task[t].prio))
    BY <1>1, <1>8
  <2> QED BY <1>1, <2>1 DEF SetUnderLock, out, rec2
<1> QED BY <1>1, <1>9, <1>10 DEF sched_setscheduler

\* sched_setscheduler on a task.
LEMMA SetschedulerOrdered ==
  ASSUME Inv, Inv', NEW t \in Tasks, NEW pol \in UserPolicies, NEW rtprio \in RtPrios,
         NEW bucket \in BucketArgs(pol), sched_setscheduler(t, pol, rtprio, bucket)
  PROVE  NoJump
<1>1. SetUnderLock(t, pol, rtprio, bucket, task[t].class)
  BY DEF sched_setscheduler
<1>2. CASE Quiet
  BY <1>2, QuietOrdered DEF Quiet
<1>3. CASE ~ Quiet
  <2>1. PICK m : t \in rq.on_rq /\ Moved(m, t)
                 /\ rq' \in check_class_changed(task', m, t, task[t].class, task[t].prio)
    BY <1>1, <1>3, SetschedulerMoves
  <2>2. Kept(rq, rq', t)
    BY <2>1, MovedKept
  <2>3. CASE fault' # "none"
    <3>1. rq' = rq
      BY <1>1, <2>1, <2>3 DEF SetUnderLock, Commit
    <3> QED BY <3>1, KeptSelf, QuietOrdered
  <2>4. CASE fault' = "none"
    <3>1. Requeued(t)
      BY <2>1, <2>4, SameCall DEF Requeued
    <3> QED BY <2>2, <3>1, HandledOrdered
  <2> QED BY <2>3, <2>4
<1> QED BY <1>2, <1>3

\* The running task's own call, resumed.
LEMMA ResumeOrdered ==
  ASSUME Inv, Inv', PrevClassType, NEW pol \in UserPolicies, NEW rtprio \in RtPrios,
         NEW bucket \in BucketArgs(pol), ResumeSetscheduler(pol, rtprio, bucket)
  PROVE  NoJump
<1> DEFINE t == rq.curr
<1>1. t \in Tasks /\ \E prevClass \in Classes : SetUnderLock(t, pol, rtprio, bucket, prevClass)
  BY ResumeUnderLock
<1>2. PICK prevClass \in Classes : SetUnderLock(t, pol, rtprio, bucket, prevClass)
  BY <1>1
<1>3. Requeued(t)
  BY DEF Requeued
<1> HIDE DEF t
<1>4. Quiet \/ \E m : Moved(m, t)
                 /\ rq' \in check_class_changed(task', m, t, prevClass, task[t].prio)
  BY <1>1, <1>2, SetschedulerMoves
<1>5. CASE Quiet
  BY <1>5, QuietOrdered DEF Quiet
<1>6. CASE \E m : Moved(m, t)
                 /\ rq' \in check_class_changed(task', m, t, prevClass, task[t].prio)
  <2>1. Kept(rq, rq', t)
    BY <1>1, <1>6, MovedKept
  <2> QED BY <1>3, <2>1, HandledOrdered
<1> QED BY <1>4, <1>5, <1>6

\* A boost or the end of one moves a task when its priority changes.
LEMMA PiOrdered ==
  ASSUME Inv, Inv', NEW t \in Tasks, NEW waiter \in PiPrios \cup {MAX_PRIO}, PiChange(t, waiter)
  PROVE  NoJump
<1> DEFINE prio == rt_mutex_getprio(task[t], waiter)
<1>1. prio \in TaskPrios
  <2>1. waiter \in 0 .. MAX_PRIO /\ task[t].normal_prio \in TaskPrios
    BY WaiterPrios DEF Inv, StateRight, Task
  <2> QED BY <2>1, PrioTypes DEF rt_mutex_getprio
<1>2. CASE prio = task[t].prio
  <2>1. rq' = rq
    BY <1>2 DEF PiChange
  <2> QED BY <2>1, KeptSelf, QuietOrdered
<1>3. CASE prio # task[t].prio
  <2>1. rt_mutex_setprio(t, prio)
    BY <1>3 DEF PiChange
  <2> HIDE DEF prio
  <2>2. CASE Quiet
    BY <2>2, QuietOrdered DEF Quiet
  <2>3. CASE ~ Quiet
    <3>1. PICK m : Moved(m, t) /\ task'[t] = Reprioritised(task[t], prio)
                   /\ rq' \in check_class_changed(task', m, t, task[t].class, task[t].prio)
      BY <1>1, <2>1, <2>3, SetprioMoves
    <3>2. Kept(rq, rq', t)
      BY <3>1, MovedKept
    <3>3. task[t] \in Task
      BY DEF Inv, StateRight
    <3>4. task'[t].prio = prio
      BY <3>1, <3>3 DEF Reprioritised, Task
    <3>5. Requeued(t)
      BY <1>3, <3>4 DEF Requeued
    <3> QED BY <3>2, <3>5, HandledOrdered
  <2> QED BY <2>2, <2>3
<1> QED BY <1>2, <1>3

\* A new nice value is a change of the task.
LEMMA NiceOrdered ==
  ASSUME Inv, Inv', NEW t \in Tasks, NEW static \in StaticPrios, static # task[t].static_prio,
         SetNice(t, static)
  PROVE  NoJump
<1> DEFINE stat == [task[t] EXCEPT !.static_prio = static]
           eff == effective_prio(stat)
<1>1. CASE Quiet
  BY <1>1, QuietOrdered DEF Quiet
<1>2. CASE ~ Quiet
  <2>1. /\ \E m : Moved(m, t) /\ rq' = ReschedIf(NiceAsks(t), m)
        /\ \E bid \in Int : task'[t] = [eff EXCEPT !.bid = bid]
    BY <1>2, SetNiceMoves
  <2>2. Kept(rq, rq', t)
    BY <2>1, MovedKept
  <2>3. stat \in Task /\ stat.static_prio = static
    <3>1. task[t] \in Task
      BY DEF Inv, StateRight
    <3> QED BY <3>1, StaticPriosAssumption DEF Task
  <2> HIDE DEF stat
  <2>4. task'[t].static_prio = static
    BY <2>1, <2>3 DEF effective_prio, Task
  <2>5. Requeued(t)
    BY <2>4 DEF Requeued
  <2> QED BY <2>2, <2>5, HandledOrdered
<1> QED BY <1>1, <1>2

\* A real-time task that SysRq normalises leaves its list.
LEMMA NormalizeOrdered ==
  ASSUME Inv, Inv', NEW t \in Tasks, normalize_task(t)
  PROVE  NoJump
<1>1. CASE Quiet
  BY <1>1, QuietOrdered DEF Quiet
<1>2. CASE ~ rt_prio(task[t].prio)
  <2>1. SetNice(t, DEFAULT_PRIO) /\ task[t].static_prio < DEFAULT_PRIO
    BY <1>2 DEF normalize_task
  <2>2. task[t].static_prio \in Int /\ DEFAULT_PRIO \in StaticPrios /\ DEFAULT_PRIO \in Int
    <3>1. task[t] \in Task
      BY DEF Inv, StateRight
    <3>2. task[t].static_prio \in TaskPrios /\ DEFAULT_PRIO \in TaskPrios /\ TaskPrios \subseteq Nat
      BY <3>1, StaticPriosAssumption, PrioTypes DEF Task
    <3>3. DEFAULT_PRIO \in StaticPrios
      BY StaticPriosAssumption
    <3>4. task[t].static_prio \in Nat /\ DEFAULT_PRIO \in Nat
      BY <3>2, Zenon
    <3> QED BY <3>3, <3>4
  <2>3. DEFAULT_PRIO # task[t].static_prio
    BY <2>1, <2>2
  <2> QED BY <2>1, <2>2, <2>3, NiceOrdered
<1>3. CASE rt_prio(task[t].prio) /\ ~ Quiet
  <2>1. task'[t].class = "fair"
    <3> DEFINE rec == __setscheduler(task[t], "NORMAL", 0, 0, pi[t])
    <3>1. task \in [Tasks -> Task]
      BY DEF Inv, StateRight
    <3>2. rec.class = "fair"
      BY <3>1 DEF __setscheduler, ClassOf, Task
    <3> HIDE DEF rec
    <3>3. task' = [task EXCEPT ![t] = rec]
      BY <1>3 DEF normalize_task, Keep, rec
    <3> QED BY <3>1, <3>2, <3>3
  <2>2. t \in rq.linked => task[t].class # "fair"
    BY DEF Inv, StateRight, QueuesRight, ClassesMatch
  <2>3. t \in rq.linked => Requeued(t)
    BY <2>1, <2>2 DEF Requeued
  <2>4. SetNice(t, DEFAULT_PRIO) => t \in rq.on_rq /\ \E m : Moved(m, t) /\ rq' = ReschedIf(NiceAsks(t), m)
    BY <1>3, SetNiceMoves, StaticPriosAssumption
  <2>5. \E m : Moved(m, t) /\ (rq' = resched_task(m, rq.curr) \/ rq' = ReschedIf(NiceAsks(t), m))
    BY <1>3, <2>4, NormalizeMoves
  <2>6. Kept(rq, rq', t)
    BY <2>5, MovedKept
  <2> QED BY <2>3, <2>6, HandledOrdered
<1> QED BY <1>1, <1>2, <1>3

\* A task that is woken was in no list.
LEMMA WokenOrdered ==
  ASSUME Inv, Inv', NEW t \in Tasks, try_to_wake_up(t) \/ wake_up_new_task(t)
  PROVE  NoJump
<1>1. CASE Quiet
  BY <1>1, QuietOrdered DEF Quiet
<1>2. CASE ~ Quiet
  <2>1. t \notin rq.on_rq /\ \E m : Moved(m, t) /\ rq' \in check_preempt_curr(task', m, t)
    BY <1>2, WakeUpMoves, WakeUpNewMoves
  <2>2. Kept(rq, rq', t)
    BY <2>1, MovedKept
  <2>3. t \notin rq.linked
    BY <2>1 DEF Inv, StateRight, QueuesRight, ClassesMatch, RunQueue
  <2> QED BY <2>2, <2>3, HandledOrdered
<1> QED BY <1>1, <1>2

\* The period timer leaves the lists alone.
LEMMA PeriodTimerOrdered ==
  ASSUME Inv, sched_rt_period_timer
  PROVE  rq'.queue = rq.queue
<1>1. rq \in RunQueue
  BY DEF Inv, StateRight, QueuesRight
<1> QED BY <1>1 DEF sched_rt_period_timer, do_sched_rt_period_timer, sched_rt_rq_enqueue,
                    ReschedIf, resched_task, RunQueue

\* schedule takes the running task off its list at most.
LEMMA ScheduleOrdered ==
  ASSUME Inv, NEW preempt \in BOOLEAN, NEW signal \in BOOLEAN, schedule(preempt, signal)
  PROVE  NoJump
<1> DEFINE prev == rq.curr
           flags == rq.resched \ {prev}
           cleared == [rq EXCEPT !.resched = flags]
           sleeps == prev # Idle /\ task[prev].state = "sleeping" /\ ~ preempt
           out == IF sleeps /\ ~ signal THEN deactivate_task(task, cleared, prev)
                  ELSE cleared
           put == put_prev_task(task, out, prev)
<1>1. task \in [Tasks -> Task] /\ QueuesRight(task, rq) /\ rq \in RunQueue
      /\ (prev # Idle => prev \in rq.on_rq)
  BY DEF Inv, StateRight, QueuesRight
<1>2. PICK next \in pick_next_task(put) : rq' = [put EXCEPT !.curr = next]
  BY DEF schedule
<1>3. flags \in SUBSET (Tasks \cup {Idle})
  BY <1>1 DEF RunQueue
<1> HIDE DEF flags
<1>4. cleared \in RunQueue /\ cleared.queue = rq.queue /\ cleared.curr = prev
  BY <1>1, <1>3 DEF RunQueue
<1>5. SoftStep(rq, cleared)
  BY <1>1, <1>4 DEF SoftStep, SameRt, RunQueue
<1> HIDE DEF cleared
<1>6. QueuesRight(task, cleared) /\ (prev # Idle => prev \in cleared.on_rq)
  BY <1>1, <1>5, SoftKeeps DEF SoftStep
<1>7. QueuesRight(task, out) /\ KeepsOrder(cleared.queue, out.queue, {prev, prev})
      /\ out.curr = prev
  <2>1. CASE sleeps /\ ~ signal
    <3> DEFINE off == deactivate_task(task, cleared, prev)
    <3>1. QueuesRight(task, off) /\ off.curr = cleared.curr
      BY <1>1, <1>6, <2>1, DeactivateTask
    <3>2. Kept(cleared, off, prev)
      BY <1>1, <1>6, <2>1, KeptDequeueTask
    <3>3. out = off
      BY <2>1
    <3> HIDE DEF off, out
    <3> QED BY <1>4, <3>1, <3>2, <3>3 DEF Kept
  <2>2. CASE ~ (sleeps /\ ~ signal)
    BY <1>4, <1>6, <2>2 DEF KeepsOrder
  <2> QED BY <2>1, <2>2
<1> HIDE DEF out
<1>8. out \in RunQueue
  BY <1>7 DEF QueuesRight
<1>9. SoftStep(out, put)
  BY <1>8, SoftPut
<1> HIDE DEF put
<1>10. rq'.queue = put.queue
  BY <1>2, <1>9 DEF SoftStep, RunQueue
<1>11. put.queue = out.queue
  BY <1>9 DEF SoftStep, SameRt
<1>12. KeepsOrder(rq.queue, rq'.queue, {prev, rq.curr})
  BY <1>4, <1>7, <1>10, <1>11
<1>13. Requeued(prev)
  BY DEF Requeued
<1> HIDE DEF prev
<1> QED BY <1>12, <1>13, OrderedStep

\* No step lets a task jump its queue.
LEMMA NoJumpNext ==
  Inv /\ Inv' /\ PrevClassType /\ TimerInv /\ [Next]_vars => [NoJump]_vars
<1> SUFFICES ASSUME Inv, Inv', PrevClassType, TimerInv, Next PROVE NoJump
  OBVIOUS
<1>1. ASSUME NEW t \in Tasks, NEW pol \in UserPolicies, NEW rtprio \in RtPrios,
             NEW bucket \in BucketArgs(pol), sched_setscheduler(t, pol, rtprio, bucket)
      PROVE  NoJump
  BY <1>1, SetschedulerOrdered
<1>2. ASSUME NEW pol \in UserPolicies, NEW rtprio \in RtPrios,
             NEW bucket \in BucketArgs(pol), ResumeSetscheduler(pol, rtprio, bucket)
      PROVE  NoJump
  BY <1>2, ResumeOrdered
<1>3. ASSUME NEW t \in Tasks, NEW waiter \in PiPrios \cup {MAX_PRIO}, PiChange(t, waiter)
      PROVE  NoJump
  BY <1>3, PiOrdered
<1>4. ASSUME NEW t \in Tasks, NEW static \in StaticPrios, set_user_nice(t, static)
      PROVE  NoJump
  BY <1>4, NiceOrdered DEF set_user_nice
<1>5. ASSUME NEW t \in Tasks, normalize_task(t)
      PROVE  NoJump
  BY <1>5, NormalizeOrdered
<1>6. ASSUME NEW t \in Tasks, try_to_wake_up(t) \/ wake_up_new_task(t)
      PROVE  NoJump
  BY <1>6, WokenOrdered
<1>7. ASSUME NEW t \in Tasks, sched_fork(t)
      PROVE  NoJump
  BY <1>7, QuietHandlers, QuietOrdered DEF Quiet
<1>8. CASE prepare_to_sleep \/ sched_yield \/ scheduler_tick
  <2>1. rq.curr \in Tasks \/ ~ prepare_to_sleep
    BY DEF prepare_to_sleep, MayCall, Inv, StateRight, QueuesRight, RunQueue
  <2>2. Quiet
    BY <1>8, <2>1, QuietHandlers, YieldQuiet, TickQuiet DEF TimerInv
  <2> QED BY <2>2, QuietOrdered DEF Quiet
<1>9. CASE sched_rt_period_timer
  <2>1. KeepsOrder(rq.queue, rq'.queue, {Idle, rq.curr})
    BY <1>9, PeriodTimerOrdered DEF KeepsOrder
  <2>2. Idle \notin rq.linked
    BY TasksAssumption DEF Inv, StateRight, QueuesRight, RunQueue
  <2> QED BY <2>1, <2>2, OrderedStep
<1>10. ASSUME NEW preempt \in BOOLEAN, NEW signal \in BOOLEAN, schedule(preempt, signal)
       PROVE  NoJump
  BY <1>10, ScheduleOrdered
<1>11. CASE ReadPrevClass
  <2>1. rq' = rq
    BY <1>11 DEF ReadPrevClass
  <2> QED BY <2>1, KeptSelf, QuietOrdered
<1> QED BY <1>1, <1>2, <1>3, <1>4, <1>5, <1>6, <1>7, <1>8, <1>9, <1>10, <1>11 DEF Next

\* Of two tasks in a priority list the one before stays before the other, until
\* it runs, is changed or is given its own parameters anew: a tick, a wakeup, a
\* boost, a yield or a switch of other tasks lets nobody jump the queue, and a
\* task that is dequeued and queued again for another reason goes to the tail.
THEOREM NeverQueueJumps == Spec => NoQueueJump
<1>1. NoQueueJump <=> [][NoJump]_vars
  BY DEF NoQueueJump, NoJump
<1> QED BY <1>1, InvInit, InvNext, TimerInvHolds, NoJumpNext, PTL DEF Spec

=============================================================================
