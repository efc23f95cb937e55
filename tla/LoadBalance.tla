---------------------------- MODULE LoadBalance -----------------------------
(***************************************************************************)
(* Load balancing of src/sched.c between the fair run queues: the periodic *)
(* load_balance, load_balance_newidle, the active balance that the         *)
(* migration thread does for them, and where forked and woken tasks go.    *)
(*                                                                         *)
(* The domains of a CPU are a sequence from the bottom up, as sched_init   *)
(* builds them: a domain is the set of its groups, and its span their      *)
(* union.  A CPU has power 1 (SCHED_LOAD_SCALE in the code).  Not modelled:*)
(* cpu_load (load indices are 0, as in a sibling domain), SMT power sharing *)
(* and power savings, task groups, real-time tasks (load_balance_rt moves   *)
(* none), the intervals.  A search reads all run queues at once.            *)
(***************************************************************************)
EXTENDS Integers, FiniteSets, FiniteSetsExt, SequencesExt

CONSTANTS
    CPU, Tasks,
    Weight,         \* load.weight of each task
    Allowed,        \* cpus_allowed of each task
    Domains,        \* of each CPU: a sequence of sets of groups
    Serialize,      \* the domains with SD_SERIALIZE
    imbalance_pct, cache_nice_tries,
    sysctl_sched_nr_migrate,
    Sleepers,       \* bound: the tasks that sleep
    None

ASSUME WeightAssumption == Weight \in [Tasks -> Nat \ {0}]
ASSUME DomainAssumption ==
    \A c \in CPU : \A l \in DOMAIN Domains[c] : \E g \in Domains[c][l] : c \in g

VARIABLES
    queue,      \* cfs_rq.tasks of each CPU, the newest first; curr is in it
    curr,       \* rq->curr of each CPU, None for the idle task
    home,       \* task_cpu of each task, None before it is forked
    failed,     \* sd->nr_balance_failed of each domain of each CPU
    push,       \* active_balance of each run queue: push_cpu, and whether
                \* its migration thread was woken
    work        \* what each CPU is doing of load balancing

vars == <<queue, curr, home, failed, push, work>>

Levels == UNION {DOMAIN Domains[c] : c \in CPU}
OnRq == UNION {Range(queue[c]) : c \in CPU}
nr_running(c) == Len(queue[c])
idle_cpu(c) == curr[c] = None
Span(domain) == UNION domain
GroupOf(domain, c) == CHOOSE g \in domain : c \in g
Lesser(x, y) == IF x < y THEN x ELSE y
FirstOf(groups) == CHOOSE g \in groups : \A h \in groups : Min(g) <= Min(h)
HalfImbalance == 100 + (imbalance_pct - 100) \div 2

weighted_cpuload(c) == FoldSeq(LAMBDA t, n : n + Weight[t], 0, queue[c])
cpu_avg_load_per_task(c) == IF nr_running(c) = 0 THEN 0 ELSE weighted_cpuload(c) \div nr_running(c)

-----------------------------------------------------------------------------
(* find_busiest_group and what it calls.                                   *)

Power(group) == Cardinality(group)
Total(f(_), set) == MapThenSumSet(f, set)

\* update_sg_lb_stats.  avg_load is relative to the power of the group.
Stats(group, cpus) ==
    LET seen == group \intersect cpus
        sum == Total(weighted_cpuload, seen)
        loads == {weighted_cpuload(c) : c \in seen}
    IN [avg_load |-> sum \div Power(group), load |-> sum,
        nr_running |-> Total(nr_running, seen),
        imb |-> seen # {} /\ Max(loads) - Min(loads)
                    > 2 * (Total(cpu_avg_load_per_task, seen) \div Power(group))]

\* The first idle CPU of a group, or its first CPU, balances for the group.
Balancer(group, cpus) ==
    LET idle == {c \in group \intersect cpus : idle_cpu(c)}
    IN IF idle = {} THEN Min(group) ELSE Min(idle)

\* The busiest of the other groups that have more tasks than power; stats has
\* the Stats of each group.
BusiestGroups(stats, this) ==
    LET heavy == {g \in DOMAIN stats : /\ this \notin g
                                       /\ stats[g].avg_load > 0
                                       /\ stats[g].nr_running > Power(g) \/ stats[g].imb}
    IN {g \in heavy : \A h \in heavy : stats[h].avg_load <= stats[g].avg_load}

\* How much to move for one task to be worth it.
fix_small_imbalance(here, there, this, group, per_task, imbalance) ==
    LET this_per_task == IF here.nr_running = 0 THEN 0 ELSE here.load \div here.nr_running
        imbn == IF here.nr_running # 0 /\ per_task > this_per_task THEN 1 ELSE 2
        now == Power(group) * Lesser(per_task, there.avg_load)
                 + Power(this) * Lesser(this_per_task, here.avg_load)
        less == per_task \div Power(group)
        more == (IF there.avg_load * Power(group) < per_task
                 THEN there.avg_load * Power(group) ELSE per_task) \div Power(this)
        then == (IF there.avg_load > less
                 THEN Power(group) * Lesser(per_task, there.avg_load - less) ELSE 0)
                 + Power(this) * Lesser(this_per_task, here.avg_load + more)
    IN IF there.avg_load - here.avg_load + per_task >= per_task * imbn \/ then > now
       THEN per_task ELSE imbalance

calculate_imbalance(here, there, this, group, per_task, avg_load) ==
    LET pull == Lesser(there.avg_load - avg_load, there.avg_load - per_task)
        equal == Lesser(pull * Power(group), (avg_load - here.avg_load) * Power(this))
    IN CASE there.avg_load < avg_load ->
                fix_small_imbalance(here, there, this, group, per_task, 0)
         [] there.avg_load >= avg_load /\ equal < per_task ->
                fix_small_imbalance(here, there, this, group, per_task, equal)
         [] OTHER -> equal

\* The group to pull from to mine and how much, or None: of the busiest groups,
\* with the average load of the domain.
Pullable(stats, mine, busiest, avg_load) ==
    LET group == FirstOf(busiest)
        here == stats[mine]
        there == stats[group]
        mean == there.load \div there.nr_running
        per_task == IF there.imb THEN Lesser(mean, avg_load) ELSE mean
    IN IF \/ busiest = {}
          \/ here.avg_load >= there.avg_load
          \/ here.avg_load >= avg_load
          \/ 100 * there.avg_load <= imbalance_pct * here.avg_load
          \/ there.avg_load <= per_task
       THEN None
       ELSE [group |-> group,
             imbalance |-> calculate_imbalance(here, there, mine, group, per_task, avg_load)]

find_busiest_group(domain, this, cpus) ==
    LET stats == [g \in domain |-> Stats(g, cpus)]
    IN Pullable(stats, GroupOf(domain, this), BusiestGroups(stats, this),
                Total(weighted_cpuload, Span(domain) \intersect cpus) \div Power(Span(domain)))

find_busiest_queue(found, cpus) ==
    LET fit == {c \in found.group \intersect cpus :
                  /\ weighted_cpuload(c) > 0
                  /\ ~(nr_running(c) = 1 /\ weighted_cpuload(c) > found.imbalance)}
        most == {c \in fit : \A o \in fit : weighted_cpuload(o) <= weighted_cpuload(c)}
    IN IF most = {} THEN None ELSE Min(most)

-----------------------------------------------------------------------------
(* Moving tasks, with both run queues locked.                              *)

\* Faulty variant: a cache-hot task stays, however often balancing failed.
KeepsHot(t, to, hot, fails) == to \in Allowed[t] /\ t \notin hot

\* Aggressive once too many balance attempts have failed.
Migratable(t, to, hot, fails) ==
    to \in Allowed[t] /\ (t \notin hot \/ fails > cache_nice_tries)

can_migrate_task(t, to, hot, fails) ==
    (\A c \in CPU : curr[c] # t) /\ Migratable(t, to, hot, fails)

\* balance_tasks: from the newest task on, while there is load to move.
Pulled(from, to, max, newly, hot, fails) ==
    LET Try(acc, t) ==
          CASE acc.done \/ acc.loops > sysctl_sched_nr_migrate -> [acc EXCEPT !.done = TRUE]
            [] ~acc.done /\ acc.loops <= sysctl_sched_nr_migrate
                 /\ Weight[t] \div 2 <= acc.rem /\ can_migrate_task(t, to, hot, fails) ->
                 [loops |-> acc.loops + 1, rem |-> acc.rem - Weight[t], moved |-> <<t>> \o acc.moved,
                  pinned |-> FALSE, done |-> newly \/ acc.rem <= Weight[t]]
            [] OTHER -> [acc EXCEPT !.loops = @ + 1,
                           !.pinned = @ /\ ~(Weight[t] \div 2 <= acc.rem /\ to \in Allowed[t])]
    IN FoldLeft(Try, [loops |-> 0, rem |-> max, moved |-> <<>>, pinned |-> max > 0, done |-> max = 0],
                queue[from])

\* pull_task of each of a sequence of tasks.
Pull(tasks, from, to) ==
    /\ queue' = [queue EXCEPT ![from] = SelectSeq(@, LAMBDA t : t \notin Range(tasks)),
                              ![to] = tasks \o @]
    /\ home' = [t \in Tasks |-> IF t \in Range(tasks) THEN to ELSE home[t]]

-----------------------------------------------------------------------------
(* What a CPU that balances is at: a domain to look at, a run queue to pull *)
(* from, one that gave nothing, one whose migration thread is to be woken.  *)
NoWork == [step |-> "none", level |-> 0, newly |-> FALSE, cpus |-> {}, from |-> None, imbalance |-> 0]
At(l, newly) == [NoWork EXCEPT !.step = "find", !.level = l, !.newly = newly, !.cpus = CPU]
Later(w, step, from) == [w EXCEPT !.step = step, !.from = from, !.cpus = {}, !.imbalance = 0]
NoPush == [cpu |-> None, woken |-> FALSE]

Does(c, what) == work' = [work EXCEPT ![c] = what]
Fails(c, n) == failed' = [failed EXCEPT ![c][work[c].level] = n]
Domain(c) == Domains[c][work[c].level]

Init ==
    /\ queue = [c \in CPU |-> <<>>] /\ curr = [c \in CPU |-> None]
    /\ home = [t \in Tasks |-> None]
    /\ failed = [c \in CPU |-> [l \in DOMAIN Domains[c] |-> 0]]
    /\ push = [c \in CPU |-> NoPush]
    /\ work = [c \in CPU |-> NoWork]

\* spin_trylock(&balancing) fails.
Balancing(c) == work[c] # NoWork /\ ~work[c].newly /\ Domain(c) \in Serialize

\* run_rebalance_domains, of the CPU or of the nohz owner for it: a level is
\* due.  One CPU at a time is at a level with SD_SERIALIZE.
rebalance_domains(c, l) ==
    /\ work[c] = NoWork /\ l \in DOMAIN Domains[c]
    /\ Domains[c][l] \in Serialize => \A o \in CPU : ~Balancing(o)
    /\ Does(c, At(l, FALSE))
    /\ UNCHANGED <<queue, curr, home, failed, push>>

\* schedule() has nothing left to run.
idle_balance(c) ==
    /\ work[c] = NoWork /\ idle_cpu(c) /\ queue[c] = <<>>
    /\ \E l \in DOMAIN Domains[c] : Does(c, At(l, TRUE))
    /\ UNCHANGED <<queue, curr, home, failed, push>>

\* load_balance and load_balance_newidle, before they lock: what to pull from
\* where.
Find(c) ==
    LET w == work[c]
        found == find_busiest_group(Domain(c), c, w.cpus)
        from == IF found = None THEN None ELSE find_busiest_queue(found, w.cpus)
        mine == w.newly \/ Balancer(GroupOf(Domain(c), c), w.cpus) = c
    IN /\ w.step = "find"
       /\ IF mine /\ from # None
          THEN UNCHANGED failed
               /\ Does(c, IF nr_running(from) > 1
                          THEN [w EXCEPT !.step = "move", !.cpus = @ \ {from},
                                         !.from = from, !.imbalance = found.imbalance]
                          ELSE Later(w, "fail", from))
          ELSE Fails(c, 0) /\ Does(c, NoWork)
       /\ UNCHANGED <<queue, curr, home, push>>

\* Both locks are held.  When all tasks there are pinned, look elsewhere.
Move(c) ==
    LET w == work[c]
    IN /\ w.step = "move"
       /\ \E hot \in SUBSET Range(queue[w.from]) :
            LET got == Pulled(w.from, c, w.imbalance, w.newly, hot, failed[c][w.level])
            IN /\ Pull(got.moved, w.from, c)
               /\ IF got.moved = <<>> THEN UNCHANGED failed ELSE Fails(c, 0)
               /\ Does(c, CASE got.moved # <<>> -> NoWork
                            [] got.moved = <<>> /\ got.pinned ->
                                 [w EXCEPT !.step = "find", !.from = None, !.imbalance = 0]
                            [] OTHER -> Later(w, "fail", w.from))
       /\ UNCHANGED <<curr, push>>

\* Faulty variant: active_balance is set before the affinity of the running
\* task is looked at.
KicksFirst(c) ==
    LET w == work[c]
        fails == Lesser(failed[c][w.level] + 1, cache_nice_tries + 3)
        running == curr[w.from]
        due == fails > cache_nice_tries + 2
        allowed == running # None /\ c \in Allowed[running]
        kicks == ~w.newly /\ due /\ push[w.from].cpu = None
    IN /\ w.step = "fail"
       /\ IF w.newly THEN UNCHANGED failed
          ELSE Fails(c, IF due /\ allowed THEN cache_nice_tries + 1 ELSE fails)
       /\ push' = IF kicks THEN [push EXCEPT ![w.from].cpu = c] ELSE push
       /\ Does(c, IF kicks /\ allowed THEN Later(w, "wake", w.from) ELSE NoWork)
       /\ UNCHANGED <<queue, curr, home>>

\* Nothing moved.  After enough failures the migration thread of the busiest
\* CPU is to push its running task, if that may run here (the idle task may
\* not).  A failure more than that makes no difference.
Fail(c) ==
    LET w == work[c]
        fails == Lesser(failed[c][w.level] + 1, cache_nice_tries + 3)
        running == curr[w.from]
        due == fails > cache_nice_tries + 2 /\ running # None /\ c \in Allowed[running]
        kicks == ~w.newly /\ due /\ push[w.from].cpu = None
    IN /\ w.step = "fail"
       /\ IF w.newly THEN UNCHANGED failed
          ELSE Fails(c, IF due THEN cache_nice_tries + 1 ELSE fails)
       /\ push' = IF kicks THEN [push EXCEPT ![w.from].cpu = c] ELSE push
       /\ Does(c, IF kicks THEN Later(w, "wake", w.from) ELSE NoWork)
       /\ UNCHANGED <<queue, curr, home>>

\* wake_up_process(busiest->migration_thread), after the unlock.
WakeMigrationThread(c) ==
    /\ work[c].step = "wake"
    /\ push' = [push EXCEPT ![work[c].from].woken = TRUE]
    /\ Does(c, NoWork)
    /\ UNCHANGED <<queue, curr, home, failed>>

\* The task that schedule() picks of a queue, if there is any.
PickedOf(q) == IF q = <<>> THEN {None} ELSE Range(q)

\* The migration thread of c runs, woken for this or for a request: no task
\* of the queue runs, so that move_one_task may take any.
active_load_balance(c) ==
    /\ push[c] # NoPush
    /\ \E hot \in SUBSET Range(queue[c]) :
         LET to == push[c].cpu
             shared == {l \in DOMAIN Domains[to] : c \in Span(Domains[to][l])}
             movable == SelectSeq(queue[c], LAMBDA t : Migratable(t, to, hot, failed[to][Min(shared)]))
         IN IF to = None \/ shared = {} \/ movable = <<>>
            THEN UNCHANGED <<queue, home, curr>>
            ELSE /\ Pull(<<Head(movable)>>, c, to)
                 /\ \E t \in PickedOf(queue'[c]) : curr' = [curr EXCEPT ![c] = t]
    /\ push' = [push EXCEPT ![c] = NoPush]
    /\ UNCHANGED <<failed, work>>

-----------------------------------------------------------------------------
(* Tasks run, sleep, and are placed.                                       *)

\* Not within idle_balance, which schedule() waits for.
schedule(c) ==
    /\ ~work[c].newly
    /\ \E t \in Range(queue[c]) \ {curr[c]} : curr' = [curr EXCEPT ![c] = t]
    /\ UNCHANGED <<queue, home, failed, push, work>>

Sleep(c) ==
    /\ curr[c] \in Sleepers
    /\ LET rest == SelectSeq(queue[c], LAMBDA t : t # curr[c])
       IN queue' = [queue EXCEPT ![c] = rest]
          /\ \E t \in PickedOf(rest) : curr' = [curr EXCEPT ![c] = t]
    /\ UNCHANGED <<home, failed, push, work>>

Enqueue(t, c) ==
    /\ queue' = [queue EXCEPT ![c] = <<t>> \o @]
    /\ home' = [home EXCEPT ![t] = c]
    /\ UNCHANGED <<curr, failed, push, work>>

\* The least loaded allowed group, if it is so by half of the imbalance.
find_idlest_group(domain, t, this) ==
    LET Avg(g) == Total(weighted_cpuload, g) \div Power(g)
        mine == GroupOf(domain, this)
        open == {g \in domain : g \intersect Allowed[t] # {} /\ g # mine}
        least == {g \in open : \A h \in open : Avg(g) <= Avg(h)}
        here == IF mine \intersect Allowed[t] = {} THEN 0 ELSE Avg(mine)
        group == FirstOf(least)
    IN IF least = {} \/ 100 * here < HalfImbalance * Avg(group) THEN None ELSE group

\* Its least loaded allowed CPU; this is not one of them.
find_idlest_cpu(group, t) ==
    LET open == group \intersect Allowed[t]
    IN Min({c \in open : \A o \in open : weighted_cpuload(c) <= weighted_cpuload(o)})

\* From the top domain of this down; each time to a smaller domain, of the
\* CPU chosen so far.
sched_balance_self(t, this) ==
    LET Down(at, i) ==
          LET smaller == {l \in DOMAIN Domains[at.cpu] :
                            Cardinality(Span(Domains[at.cpu][l])) < at.weight}
              domain == Domains[at.cpu][Max(smaller)]
              group == find_idlest_group(domain, t, at.cpu)
          IN IF smaller = {} THEN at
             ELSE [cpu |-> IF group = None THEN at.cpu ELSE find_idlest_cpu(group, t),
                   weight |-> Cardinality(Span(domain))]
    IN FoldLeft(Down, [cpu |-> this, weight |-> Cardinality(CPU) + 1],
                [i \in 1..Max(Levels) |-> i]).cpu

\* By a parent of the same affinity, which runs on this.
sched_fork(t) ==
    /\ home[t] = None
    /\ \E this \in Allowed[t] : Enqueue(t, sched_balance_self(t, this))

\* SD_WAKE_IDLE in the lowest domain: an idle CPU of it, unless the CPU at
\* hand is idle or has more than one task.
wake_idle(t, c) ==
    LET idle == {o \in Span(Domains[c][1]) \intersect Allowed[t] : idle_cpu(o)}
    IN IF idle_cpu(c) \/ nr_running(c) > 1 \/ idle = {} THEN c ELSE Min(idle)

\* sync: the current task of this is about to sleep.
wake_affine(t, prev, this, sync) ==
    LET tl == weighted_cpuload(this) - (IF sync /\ curr[this] # None THEN Weight[curr[this]] ELSE 0)
        load == weighted_cpuload(prev)
    IN \/ 100 * (tl + Weight[t]) <= HalfImbalance * load
       \/ tl <= load /\ tl + load <= cpu_avg_load_per_task(this)

select_task_rq_fair(t, this, sync) ==
    LET prev == home[t]
    IN IF prev # this /\ this \in Allowed[t] /\ wake_affine(t, prev, this, sync)
       THEN this ELSE wake_idle(t, prev)

try_to_wake_up(t) ==
    /\ home[t] # None /\ t \notin OnRq
    /\ \E this \in CPU, sync \in BOOLEAN : Enqueue(t, select_task_rq_fair(t, this, sync))

-----------------------------------------------------------------------------
Balances(c) == Find(c) \/ Move(c) \/ Fail(c) \/ WakeMigrationThread(c)

Next ==
    \/ \E c \in CPU :
         \/ \E l \in Levels : rebalance_domains(c, l)
         \/ idle_balance(c) \/ Balances(c) \/ active_load_balance(c)
         \/ schedule(c) \/ Sleep(c)
    \/ \E t \in Tasks : sched_fork(t) \/ try_to_wake_up(t)

\* A CPU goes on to a level as long as it balances the ones below for its group.
Reaches(c, l) == \A k \in 1..(l - 1) : Balancer(GroupOf(Domains[c][k], c), CPU) = c

\* Softirqs, migration threads and schedule() do not stop half-way; a level
\* that a CPU goes on reaching comes due, and spin_trylock succeeds, again and
\* again.  (Each formula is the weak fairness of the action it names, the last
\* one of the tick, softirq and lock together.)
Fairness ==
    \A c \in CPU :
        /\ []<>(work[c] = NoWork)                                   \* Balances
        /\ []<>(~push[c].woken)                                     \* active_load_balance
        /\ []<>(queue[c] # <<>> => ~idle_cpu(c) \/ work[c].newly)   \* schedule
        /\ \A l \in DOMAIN Domains[c] :
             []<>(~Reaches(c, l) \/ work[c] = At(l, FALSE))         \* rebalance_domains

Spec == Init /\ [][Next]_vars /\ Fairness

-----------------------------------------------------------------------------
(* Properties.                                                             *)

\* A runnable task is in one queue, once, that of its CPU, which may run it;
\* the current task of a CPU is in its queue, whoever moves tasks meanwhile.
QueuesSound ==
    /\ \A c \in CPU :
        /\ IsInjective(queue[c])
        /\ curr[c] # None => curr[c] \in Range(queue[c])
        /\ \A t \in Range(queue[c]) : home[t] = c /\ c \in Allowed[t]
    /\ \A c \in CPU : \A l \in DOMAIN failed[c] : failed[c][l] \in 0..(cache_nice_tries + 3)

\* active_balance of a run queue stays set only until its migration thread
\* runs: that was woken, or whoever set it has still to wake it.  A CPU is
\* never to push to itself ("impossible": the BUG_ON of active_load_balance).
PushAnnounced ==
    \A c \in CPU : push[c].cpu # None =>
        /\ push[c].cpu # c
        /\ push[c].woken \/ \E o \in CPU : work[o].step = "wake" /\ work[o].from = c

\* Both, through every interleaving of searches, moves, kicks and pushes.
BalanceSound == QueuesSound /\ PushAnnounced

\* A CPU that idles while another has two tasks that it may run.  (When there
\* is one, that may be running whenever a balancer looks, and wait otherwise.)
Wasted(c) ==
    /\ idle_cpu(c)
    /\ \E o \in CPU : Cardinality({t \in Range(queue[o]) : c \in Allowed[t]}) > 1

\* Once tasks neither sleep nor wake, no CPU idles for ever while there is
\* such work for it.
WorkConserving ==
    (\A t \in Sleepers : <>[](t \in OnRq) \/ <>[](t \notin OnRq))
        => \A c \in CPU : []<>~Wasted(c)
=============================================================================
