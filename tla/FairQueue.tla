----------------------------- MODULE FairQueue ------------------------------
(***************************************************************************)
(* The completely fair run queue of one CPU (src/sched_fair.c, with        *)
(* calc_delta_mine, set_task_cpu, wake_up_new_task and idle_balance's hole *)
(* in src/sched.c): virtual time, where a woken, new or arriving task is   *)
(* placed, the buddies, the preemption by tick and by wakeup.              *)
(*                                                                         *)
(* Time is counted in ticks; virtual time is unsigned, of 2 ^ Width values,*)
(* and starts, as in the code, shortly before it wraps.  No group          *)
(* scheduling: cfs_rq is the root one.  The sched_feat bits have their     *)
(* usual values (START_DEBIT, NEW_FAIR_SLEEPERS, LAST_BUDDY, ADAPTIVE_GRAN,*)
(* ASYM_GRAN, WAKEUP_PREEMPT).                                             *)
(***************************************************************************)
EXTENDS Integers, FiniteSets, SequencesExt

CONSTANTS
    Tasks,
    Policy,         \* of each task: "normal", "batch" or "idle"
    Weight,         \* se->load.weight of each task
    NICE_0_LOAD,
    Latency,        \* sysctl_sched_latency, in ticks
    MinGranularity, \* sysctl_sched_min_granularity
    WakeupGranularity,
    CompatYield,    \* sysctl_sched_compat_yield
    ChildRunsFirst, \* sysctl_sched_child_runs_first
    Width,          \* bits of a virtual time
    Behind,         \* bound: how far behind a task of another class falls
    Ahead,          \* what a task may be ahead of min_vruntime
    Lags,           \* bound: what a pulled task brings as its distance
    Switchers,      \* bound: the tasks that change class
    Travellers,     \* bound: the tasks that other CPUs pull
    Forkers,        \* bound: the tasks that exit and are forked anew
    None

ASSUME PolicyAssumption == Policy \in [Tasks -> {"normal", "batch", "idle"}]
ASSUME WeightAssumption == Weight \in [Tasks -> Nat \ {0}]
ASSUME LagsAssumption == Lags \subseteq -Latency..Ahead
ASSUME WidthAssumption == Latency + Behind + Ahead < 2 ^ (Width - 1)

VARIABLES
    q,          \* the run queue and its entities, see RunQueue
    mid,        \* schedule() has dequeued prev and idle_balance, with
                \* rq->lock dropped, looks for another task
    stale       \* auxiliary: tasks that came back from another class

vars == <<q, mid, stale>>

Period == 2 ^ Width
Clip(v) == v % Period
Signed(v) == IF Clip(v) < Period \div 2 THEN Clip(v) ELSE Clip(v) - Period
\* A slice is no longer than this.
MaxRan == Latency + MinGranularity * Cardinality(Tasks)
Places == {"queued", "asleep", "away", "other", "dead"}

\* vruntime and place of each entity; the tree from its leftmost node on;
\* what curr has run since it was picked (no further than it matters), and
\* the time since it was last charged; TIF_NEED_RESCHED.
RunQueue ==
    [vruntime : [Tasks -> 0..(Period - 1)], place : [Tasks -> Places],
     min_vruntime : 0..(Period - 1), tree : Seq(Tasks), curr : Tasks \union {None},
     last : Tasks \union {None}, next : Tasks \union {None},
     ran : 0..MaxRan, delta : 0..2, resched : BOOLEAN]

-----------------------------------------------------------------------------
(* Arithmetic.                                                             *)

\* SRR rounds to nearest.
calc_delta_mine(delta, weight, load) == (2 * delta * weight + load) \div (2 * load)
calc_delta_fair(delta, t) ==
    IF Weight[t] = NICE_0_LOAD THEN delta ELSE calc_delta_mine(delta, NICE_0_LOAD, Weight[t])

max_vruntime(min, v) == IF Signed(v - min) > 0 THEN v ELSE min
min_vruntime(min, v) == IF Signed(v - min) < 0 THEN v ELSE min
entity_key(s, t) == Signed(s.vruntime[t] - s.min_vruntime)

OnRq(s) == {t \in Tasks : s.place[t] = "queued"}
nr_running(s) == Cardinality(OnRq(s))
Load(set) == FoldSet(LAMBDA t, n : n + Weight[t], 0, set)

sched_nr_latency == (Latency + MinGranularity - 1) \div MinGranularity
__sched_period(n) == IF n > sched_nr_latency THEN MinGranularity * n ELSE Latency
sched_slice(s, t) ==
    LET on == OnRq(s) \union {t}
    IN calc_delta_mine(__sched_period(Cardinality(on)), Weight[t], Load(on))
sched_vslice(s, t) == calc_delta_fair(sched_slice(s, t), t)

-----------------------------------------------------------------------------
(* The entities and the tree.                                              *)

\* Bounds the model: what is not queued is remembered no further than it can
\* matter.  place_entity looks back by Latency, and another CPU's queue gives
\* a task its place afresh (PullBack).
Forget(s) ==
    [s EXCEPT !.vruntime = [t \in Tasks |->
        CASE s.place[t] = "queued" -> @[t]
          [] s.place[t] = "asleep" -> max_vruntime(Clip(s.min_vruntime - Latency), @[t])
          [] s.place[t] = "other"  -> max_vruntime(Clip(s.min_vruntime - Behind), @[t])
          [] OTHER                 -> s.min_vruntime]]

update_min_vruntime(s) ==
    LET running == IF s.curr = None THEN s.min_vruntime ELSE s.vruntime[s.curr]
        least == CASE s.tree = <<>>  -> running
                   [] s.curr = None  -> s.vruntime[Head(s.tree)]
                   [] OTHER          -> min_vruntime(running, s.vruntime[Head(s.tree)])
    IN Forget([s EXCEPT !.min_vruntime = max_vruntime(@, least)])

update_curr(s) ==
    IF s.curr = None \/ s.delta = 0 THEN s
    ELSE update_min_vruntime(
            [s EXCEPT !.vruntime[s.curr] = Clip(@ + calc_delta_fair(s.delta, s.curr)),
                      !.ran = IF @ + s.delta > MaxRan THEN MaxRan ELSE @ + s.delta,
                      !.delta = 0])

\* Faulty variant: the keys are compared as the unsigned numbers they are.
ComparesUnsigned(s, t) ==
    LET before == SelectSeq(s.tree, LAMBDA e : s.vruntime[e] <= s.vruntime[t])
    IN [s EXCEPT !.tree = before \o <<t>> \o SubSeq(@, Len(before) + 1, Len(@))]

\* Behind the entities with the same key.
__enqueue_entity(s, t) ==
    LET before == SelectSeq(s.tree, LAMBDA e : entity_key(s, e) <= entity_key(s, t))
    IN [s EXCEPT !.tree = before \o <<t>> \o SubSeq(@, Len(before) + 1, Len(@))]

__dequeue_entity(s, t) == [s EXCEPT !.tree = SelectSeq(@, LAMBDA e : e # t)]

\* Faulty variant: a sleeper is put back to the same place whatever it has had.
AlwaysCredits(s, t, initial) ==
    [s EXCEPT !.vruntime[t] =
        Clip(s.min_vruntime + IF initial THEN sched_vslice(s, t) ELSE -Latency)]

\* A sleeper gets up to Latency of virtual time, a new task starts after the
\* slice it would have had.
place_entity(s, t, initial) ==
    [s EXCEPT !.vruntime[t] =
        IF initial THEN Clip(s.min_vruntime + sched_vslice(s, t))
        ELSE max_vruntime(@, Clip(s.min_vruntime - Latency))]

enqueue_entity(s, t, wakeup) ==
    LET charged == update_curr(s)
        counted == [charged EXCEPT !.place[t] = "queued"]
        placed == IF wakeup THEN place_entity(counted, t, FALSE) ELSE counted
    IN IF t = s.curr THEN placed ELSE __enqueue_entity(placed, t)

clear_buddies(s, t) ==
    [s EXCEPT !.last = IF @ = t THEN None ELSE @, !.next = IF @ = t THEN None ELSE @]

dequeue_entity(s, t, to) ==
    LET charged == clear_buddies(update_curr(s), t)
        off == IF t = s.curr THEN charged ELSE __dequeue_entity(charged, t)
    IN update_min_vruntime([off EXCEPT !.place[t] = to])

-----------------------------------------------------------------------------
(* Preemption and the choice of the next task.                             *)

resched_task(s) == [s EXCEPT !.resched = TRUE]

check_preempt_tick(s, curr) ==
    IF s.ran > sched_slice(s, curr) THEN clear_buddies(resched_task(s), curr) ELSE s

entity_tick(s, curr) ==
    LET charged == update_curr(s)
    IN IF nr_running(charged) > 1 THEN check_preempt_tick(charged, curr) ELSE charged

\* gran is wakeup_gran in ticks: with a current entity adaptive_gran makes it
\* anything up to the sysctl.
wakeup_preempt_entity(s, curr, se, gran) ==
    LET vdiff == Signed(s.vruntime[curr] - s.vruntime[se])
    IN CASE vdiff <= 0 -> -1
         [] vdiff > calc_delta_fair(gran, se) -> 1
         [] OTHER -> 0

set_buddies(s, curr, p) ==
    [s EXCEPT !.last = IF s.place[curr] = "queued" /\ Policy[curr] # "idle" THEN curr ELSE @,
              !.next = IF Policy[p] # "idle" THEN p ELSE @]

\* When no task of the class is current, that of the idle task or of another
\* class decides: here it makes way.
check_preempt_wakeup(s, p, gran) ==
    IF s.curr = None THEN resched_task(s)
    ELSE LET charged == update_curr(s)
             curr == s.curr
             buddies == set_buddies(charged, curr, p)
         IN CASE p = curr -> charged
              [] p # curr /\ Policy[p] = "normal" /\ ~s.resched
                   /\ (Policy[curr] = "idle" \/ wakeup_preempt_entity(charged, curr, p, gran) = 1)
                   -> resched_task(buddies)
              [] OTHER -> buddies

Favoured(s, t, left) == t # None /\ wakeup_preempt_entity(s, t, left, WakeupGranularity) < 1

\* Faulty variant: a buddy is picked however far ahead it is.
BuddyFirst(s) ==
    IF s.next # None THEN s.next ELSE IF s.last # None THEN s.last ELSE Head(s.tree)

pick_next_entity(s) ==
    LET left == Head(s.tree)
    IN CASE Favoured(s, s.next, left) -> s.next
         [] ~Favoured(s, s.next, left) /\ Favoured(s, s.last, left) -> s.last
         [] OTHER -> left

put_prev_entity(s, prev) ==
    LET charged == IF s.place[prev] = "queued" THEN __enqueue_entity(update_curr(s), prev) ELSE s
    IN [charged EXCEPT !.curr = None, !.delta = 0]

\* Nothing else happens before the task has run for some time, the least that
\* sched_clock tells apart.
set_next_entity(s, t) ==
    [__dequeue_entity(s, t) EXCEPT !.curr = t, !.ran = 0, !.delta = 1]

pick_next_task_fair(s) ==
    IF nr_running(s) = 0 THEN s
    ELSE LET t == pick_next_entity(s) IN set_next_entity(clear_buddies(s, t), t)

\* The rest of schedule(), from put_prev_task on.
Switch(s) ==
    LET put == IF s.curr = None THEN s ELSE put_prev_entity(s, s.curr)
    IN pick_next_task_fair([put EXCEPT !.resched = FALSE])

-----------------------------------------------------------------------------
Init ==
    /\ q = [vruntime |-> [t \in Tasks |-> Period - 1], place |-> [t \in Tasks |-> "asleep"],
            min_vruntime |-> Period - 1, tree |-> <<>>, curr |-> None, last |-> None,
            next |-> None, ran |-> 0, delta |-> 0, resched |-> FALSE]
    /\ mid = FALSE /\ stale = {}

\* A tick of time and its interrupt; what runs for less is charged one unit
\* too (set_next_entity).  A task that has to be rescheduled is so within the
\* tick (CONFIG_PREEMPT, short critical sections).
task_tick_fair ==
    /\ ~q.resched /\ ~mid /\ q.curr # None
    /\ q' = entity_tick([q EXCEPT !.delta = @ + 1], q.curr)
    /\ UNCHANGED <<mid, stale>>

try_to_wake_up(t) ==
    /\ q.place[t] = "asleep"
    /\ \E gran \in 0..WakeupGranularity :
         q' = check_preempt_wakeup(enqueue_entity(q, t, TRUE), t, gran)
    /\ UNCHANGED <<mid, stale>>

\* schedule() of a task that sleeps or exits.  When nothing is left to run
\* idle_balance drops rq->lock before prev is put.
Deschedule(t) ==
    /\ q.curr = t /\ q.place[t] = "queued" /\ ~mid
    /\ \E to \in IF t \in Forkers THEN {"asleep", "dead"} ELSE {"asleep"} :
         LET off == dequeue_entity(q, t, to)
         IN IF nr_running(off) = 0 THEN mid' = TRUE /\ q' = off
            ELSE UNCHANGED mid /\ q' = Switch(off)
    /\ stale' = stale \ {t}

FinishSchedule ==
    /\ mid /\ mid' = FALSE
    /\ q' = Switch(q)
    /\ UNCHANGED stale

preempt_schedule ==
    /\ q.resched /\ ~mid
    /\ q' = Switch(q)
    /\ UNCHANGED <<mid, stale>>

yield_task_fair(s, t) ==
    LET rightmost == Last(s.tree)
        cleared == clear_buddies(s, t)
    IN CASE nr_running(s) = 1 -> s
         [] nr_running(s) > 1 /\ ~CompatYield /\ Policy[t] # "batch" -> update_curr(cleared)
         [] OTHER -> IF s.vruntime[rightmost] < s.vruntime[t] THEN cleared
                     ELSE [cleared EXCEPT !.vruntime[t] = Clip(s.vruntime[rightmost] + 1)]

sched_yield(t) ==
    /\ q.curr = t /\ q.place[t] = "queued" /\ ~mid
    /\ q' = Switch(yield_task_fair(q, t))
    /\ UNCHANGED <<mid, stale>>

\* The child starts behind; on its parent's CPU it may swap places with it.
task_new_fair(s, p, here) ==
    LET placed == place_entity(update_curr(s), p, TRUE)
        swaps == ChildRunsFirst /\ here /\ placed.vruntime[s.curr] < placed.vruntime[p]
        swapped == [placed EXCEPT !.vruntime[s.curr] = placed.vruntime[p],
                                  !.vruntime[p] = placed.vruntime[s.curr], !.resched = TRUE]
    IN enqueue_entity(IF swaps THEN swapped ELSE placed, p, FALSE)

wake_up_new_task(p) ==
    /\ q.place[p] = "dead"
    /\ \E here \in {FALSE} \union (IF q.curr = None \/ mid THEN {} ELSE {TRUE}),
          gran \in 0..WakeupGranularity :
         q' = check_preempt_wakeup(task_new_fair(q, p, here), p, gran)
    /\ UNCHANGED <<mid, stale>>

\* Another CPU pulls a waiting task; deactivate_task, set_task_cpu.
PullAway(t) ==
    /\ t \in Travellers /\ q.place[t] = "queued" /\ t # q.curr
    /\ q' = dequeue_entity(q, t, "away")
    /\ stale' = stale \ {t}
    /\ UNCHANGED mid

\* set_task_cpu keeps the distance to min_vruntime, which the other queue
\* bounds as this one does; activate_task, check_preempt_curr.
PullBack(t) ==
    /\ q.place[t] = "away"
    /\ \E lag \in Lags, gran \in 0..WakeupGranularity :
         LET s == [q EXCEPT !.vruntime[t] = Clip(q.min_vruntime + lag)]
         IN q' = check_preempt_wakeup(enqueue_entity(s, t, FALSE), t, gran)
    /\ UNCHANGED <<mid, stale>>

\* __sched_setscheduler and rt_mutex_setprio: to another class, and back with
\* the vruntime it left with.
LeaveClass(t) ==
    /\ t \in Switchers /\ q.place[t] = "queued" /\ ~mid
    /\ LET off == dequeue_entity(q, t, "other")
       IN q' = IF t = q.curr THEN resched_task(put_prev_entity(off, t)) ELSE off
    /\ stale' = stale \ {t}
    /\ UNCHANGED mid

switched_to_fair(t) ==
    /\ q.place[t] = "other"
    /\ \/ /\ q.curr = None
          /\ q' = resched_task(enqueue_entity([set_next_entity(q, t) EXCEPT !.delta = 0], t, FALSE))
       \/ \E gran \in 0..WakeupGranularity :
            q' = check_preempt_wakeup(enqueue_entity(q, t, FALSE), t, gran)
    /\ stale' = stale \union {t}
    /\ UNCHANGED mid

Next ==
    \/ task_tick_fair \/ FinishSchedule \/ preempt_schedule
    \/ \E t \in Tasks :
        \/ try_to_wake_up(t) \/ Deschedule(t) \/ sched_yield(t) \/ wake_up_new_task(t)
        \/ PullAway(t) \/ PullBack(t) \/ LeaveClass(t) \/ switched_to_fair(t)

\* Weak fairness, with the guards written for what enables the actions: time
\* passes; and schedule(), which leaves nothing to be rescheduled, is called
\* where it has to be and ends (preempt_schedule, FinishSchedule).
Fairness ==
    /\ []<>(q.curr = None \/ q.resched \/ mid) \/ []<><<task_tick_fair>>_vars
    /\ []<>(~q.resched /\ ~mid)

Spec == Init /\ [][Next]_vars /\ Fairness
-----------------------------------------------------------------------------
TypeOK ==
    /\ q.vruntime \in [Tasks -> 0..(Period - 1)] /\ q.place \in [Tasks -> Places]
    /\ q.min_vruntime \in 0..(Period - 1) /\ q.ran \in 0..MaxRan /\ q.delta \in 0..2
    /\ {q.curr, q.last, q.next} \subseteq Tasks \union {None}
    /\ q.resched \in BOOLEAN /\ mid \in BOOLEAN /\ stale \subseteq Tasks

\* What is queued is in the tree, once, but the current task, in the order of
\* virtual time, as min_vruntime moves and across the wrap of the counter.
TreeSorted ==
    /\ IsInjective(q.tree) /\ Range(q.tree) = OnRq(q) \ {q.curr}
    /\ \A i, j \in DOMAIN q.tree :
         i < j => Signed(q.vruntime[q.tree[i]] - q.vruntime[q.tree[j]]) <= 0

\* pick_next_entity returns a buddy without looking for it in the tree.
BuddiesQueued == {q.last, q.next} \subseteq OnRq(q) \union {None}

(* The queue stays one that pick_next_entity can pick from: the cached     *)
(* leftmost node is the task that has run least, and a buddy is queued.    *)
QueueSound == TypeOK /\ TreeSorted /\ BuddiesQueued

(* Fairness as the placement promises it: nobody is owed more than the     *)
(* sleeper's credit, and nobody has run far ahead of the others; so all    *)
(* keys stay within half of the counter.  A task that comes from another   *)
(* class keeps its vruntime and may be owed more.                          *)
LagBounded ==
    \A t \in OnRq(q) :
        /\ entity_key(q, t) <= Ahead
        /\ entity_key(q, t) >= -(IF t \in stale THEN Behind ELSE Latency)

(* Once no task comes any more from fork, another CPU or another class,    *)
(* every queued task runs or leaves, whatever the others do: sleep and     *)
(* wake up with credit, favour each other as buddies, yield.               *)
Settled == \A t \in Tasks : q.place[t] \in {"queued", "asleep"}
NoStarvation ==
    <>[]Settled => \A t \in Tasks : (q.place[t] = "queued") ~> (q.curr = t \/ q.place[t] # "queued")
=============================================================================
