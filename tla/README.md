# A verification project for the BRR scheduler kernel

The repository is the scheduler of a Linux 2.6.30-era kernel (`src/sched.c`,
`sched_rt.c`, `sched_fair.c`, `sched.h`) to which a scheduling class was added:
`SCHED_BRR`, "bucket round robin" (`src/sched_brr.c`), with user programs that
ask for it (`src/Driver*.c`).  The three `.c` files of the classes are included
into `sched.c`; everything else a kernel has (rtmutex.c, hrtimer.c, fork.c) is
external and is modelled from the way this code uses it.

The modules here say in TLA+ what the scheduler does, and TLC checks them on small
instances.  TLAPS proves for every instance the safety invariants of one CPU (queues, priorities,
preemption, throttling), of push and pull, of the migration threads and of the nohz election,
and that the completions implement a counting semaphore.

## The system

| part | state | operations | who calls it |
|---|---|---|---|
| Real-time run queue (`struct rt_rq`, sched_rt.c) | lists by priority, bitmap, `rt_nr_running`, `rt_nr_boosted`, `highest_prio` | enqueue, dequeue, requeue, pick next | the core, through `rt_sched_class` |
| BRR class (sched_brr.c) | the same `rt_rq`, and `numInBucket`; `p->bid` | choose a bucket, count it, enqueue, dequeue | the core, through `brr_sched_class` |
| Core (sched.c) | `rq->curr`, `nr_running`, `se.on_rq`, `TIF_NEED_RESCHED`, `p->state` | `try_to_wake_up`, `sched_fork`, `wake_up_new_task`, `schedule`, `scheduler_tick`, `sched_yield` | interrupts, the kernel, system calls |
| Policies and priorities (sched.c) | `policy`, `rt_priority`, `static_prio`, `normal_prio`, `prio`, `sched_class` | `__sched_setscheduler`, `set_user_nice`, `normalize_rt_tasks`, `rt_mutex_setprio` | system calls, SysRq, rtmutex.c |
| Real-time bandwidth | `rt_time`, `rt_throttled`, the period timer | charge, throttle, `do_sched_rt_period_timer` | ticks, every dequeue, an hrtimer interrupt |
| Bandwidth between CPUs | `rt_runtime` of each CPU | borrow, reclaim at hotplug | the period timer, notifiers |
| RT push and pull | pushable tasks, `rto_mask`, `highest_prio.next` | push, pull, choose a CPU | `schedule`, wakeups |
| Wait queues, completions | `done`, the waiters | `complete`, `wait_for_common` | the kernel; the migration thread |
| Migration, affinity, hotplug | `migration_queue`, `cpus_allowed` | `set_cpus_allowed_ptr`, `migration_thread` | system calls, hotplug |
| Fair class (sched_fair.c) | an rb-tree by `vruntime` | enqueue, dequeue, pick, tick, wakeup preemption | the core |
| Load balancing, nohz | domains, `nohz.load_balancer` | `load_balance`, `select_nohz_load_balancer` | softirq, idle |
| Run queue locks | `rq->lock` of each CPU | `task_rq_lock`, `double_rq_lock`, `double_lock_balance` | everyone |
| Task groups | the group tree, `rt_runtime`, shares | create, move, set bandwidth | cgroups |
| Domains, accounting, cpuacct, hrtick | topology and statistics | | boot, ticks |

How the parts interact.  A task is queued twice over: `se.on_rq` and `nr_running`
belong to the core, the list position and the bitmap to its class, and
`p->sched_class`, which names the class, is changed by three different
functions by two different rules (`__setscheduler` from the policy,
`rt_mutex_setprio` and `sched_fork` from the priority).  Each of them takes a
queued task out under its old class and priority and puts it back under the new
ones, while the counters, the bitmap and `highest_prio` are kept incrementally
by each enqueue and dequeue.  BRR tasks share the lists, the counters and the
bandwidth of the rt class, and the rt class is asked for a task first.

What is hard.  On one CPU all handlers but one run entirely under `rq->lock`, so
the interleavings are between handlers, in orders nobody wrote a test for (a wakeup
between `set_current_state` and `schedule`; a boost, a policy change and a new
waiter; a nice change of a boosted task); the exception reads `prev_class`
before the lock.  Throttling couples ticks, the lateness of the period timer
and the emptying of the queue.  The BRR buckets are indexed by values from user
space.  Between CPUs the code reads other run queues without their locks, drops its
own to take two, queues requests for threads it wakes after the unlock, and elects
owners with an atomic exchange; virtual times wrap; balancing decides by rounded
averages whether an idle CPU gets work.

### What makes each part correct

- Run queue: lists, bitmap, counts and `highest_prio` agree with each other and
  with the tasks; first in, first out within a priority.
- Core: the best real-time task runs as soon as a reschedule is served; no
  preemption and no wakeup is lost.
- Priorities: `prio` is what policy and waiters give, whatever came last.
- Bandwidth: a throttled queue runs again, and the fair class gets its share.
- BRR: no index leaves its array; the counts are the populations; the pick
  rotates over the buckets.
- Bandwidth between CPUs: runtime is conserved.  Push and pull: the task moved is
  still the one to move, and no urgent task waits for a CPU that does less.  Completions: each
  `complete` is consumed once.  Migration: a task never runs where it may not.
  Locks: no deadlock.  Groups: admitted bandwidth never exceeds the parent's.

## The modules

| module | what it is |
|---|---|
| `RtQueue.tla` | `rt_rq` and the list handling of sched_rt.c and sched_brr.c as operators on a record `q` and the tasks `tk`: no variables |
| `CpuSched.tla` | the state machine of one CPU over `RtQueue`: one action for each handler; the properties |
| `RtBandwidth.tla` | one group's bandwidth on several CPUs: charging, borrowing, the period timer, hotplug, root domains, at each lock |
| `RtPushPull.tla` | the real-time queues of several CPUs: wakeup, push, pull, class and affinity changes, at each lock |
| `CompletionSpec.tla` | what a completion promises: a counting semaphore |
| `Completion.tla` | the code of completions and the wait queue; it implements `CompletionSpec` |
| `Migration.tla` | requests to the migration threads, and a CPU that goes down and comes up |
| `FairQueue.tla` | the fair queue of one CPU, by virtual time |
| `LoadBalance.tla` | the fair load balancer between CPUs |
| `Nohz.tla` | the election of the idle load balancer |
| `MC_*.tla` | values for the constants, and the symmetry; one `.cfg` for each run (`Nohz` needs no such module) |
| `ListLemmas.tla` | lemmas about sequences and finite sets that the proofs share |
| `RtQueueProofs.tla` | lemmas about the operators of `RtQueue` |
| `CpuSchedProofs.tla` | the inductive invariant of `CpuSched`, and the theorems about its queues |
| `PreemptionProofs.tla` | the theorems about priorities, the period timer and preemption on one CPU |
| `RtPushPullProofs.tla`, `MigrationProofs.tla`, `NohzProofs.tla` | the inductive invariant of the module named, and the theorems |
| `CompletionProofs.tla` | the invariant of `Completion`, and its steps as steps of `CompletionSpec` |

The modules meet at the handlers they share.  `CpuSched` abstracts the fair class to a
set of queued tasks with open choices, which `FairQueue` and `LoadBalance` detail; it
abstracts other CPUs away, which `RtPushPull` adds for the real-time class; `Migration`
carries the completion of a request as a flag, which `Completion` details; `Nohz`
decides for which CPUs the owner calls `rebalance_domains` of `LoadBalance`.

An operator that nothing uses (`ClearAlways`, `LendsForFree`, ...), marked as a faulty
variant, is the definition after it with a plausible bug in it.  Put in that definition's
place, it makes TLC find a property violated; the list under `mutants` in PROJECT.json has
one for each property of each run, which shows that no property holds whatever the
code does.

### One CPU: `RtQueue`, `CpuSched`

State of `CpuSched`.  `task[t]` is the `task_struct` (policy, class, state, the four
priorities, bid, slice); `rq` is `struct rq` with its `rt_rq`; `pi[t]` is the
priority of the top waiter of the mutexes `t` owns (`rt_mutex_getprio` is
`min` of it and `normal_prio`); `fault` records the first write outside an
array, after which nothing is specified and the model stops; `prev_class[t]` is
what a preempted `__sched_setscheduler` of `t` on itself has read.  Names are those
of the source.  A handler that calls the fair class, whose choices are not
modelled, has a set of outcomes: wakeup preemption between fair tasks, the
preemption of a tick, which fair task is picked.

| action | code |
|---|---|
| `sched_setscheduler`, `ReadPrevClass`, `ResumeSetscheduler` | `__sched_setscheduler`, run through or preempted before the lock |
| `PiChange` | rtmutex.c adjusting an owner, `rt_mutex_setprio` |
| `set_user_nice`, `normalize_task` | the functions of those names (SysRq-n one task at a time) |
| `prepare_to_sleep` | `set_current_state` of a caller of `schedule` |
| `try_to_wake_up`, `sched_fork`, `wake_up_new_task` | the functions of those names |
| `schedule` | `__schedule`, voluntary or preemptive, with or without a pending signal |
| `sched_yield` | `yield_task_rt` under the system call (the `schedule` that follows is its own step) |
| `scheduler_tick` | `task_tick_rt`, `task_tick_rt_brr`, `task_tick_fair` |
| `sched_rt_period_timer` | the hrtimer callback with `do_sched_rt_period_timer` |

The build modelled by `RtQueue` and `CpuSched` is a uniprocessor one (`CONFIG_SMP=n`) with
`CONFIG_RT_GROUP_SCHED` (sched_brr.c uses `for_each_sched_rt_entity` and group
entities of it) and `CONFIG_BRR_GROUP_SCHED` (without it there is no `bid`), all
tasks in the root group.  On one CPU the caller of a system call is the running
task, which `MayCall` says; interrupts (wakeups, ticks, the timer, SysRq) come at
any time.  Not in the model: `update_rq_clock` and the statistics, load weights,
the RLIMIT_RTTIME watchdog, permission checks of system calls (a refused call
changes nothing), SCHED_BATCH and SCHED_IDLE (the core treats them as
SCHED_NORMAL), changes of the bandwidth settings at run time.

### Bandwidth between CPUs: `RtBandwidth`

`rt[c]` is the `rt_rq` of CPU `c` as far as bandwidth goes;
`runtime` the setting of the group; `rd`, `online` and `plugged` what root domain
and what stage of hotplug a CPU is in; `timer` the hrtimer with its callback's
progress through the domain.  Locks are not variables of their own: `path[c]` says
which charge or timer visit holds `rq->lock` of `c` (hotplug holds that of
`hotplug.cpu`), and `rtb` who holds `rt_b->rt_runtime_lock` and how far its loop has
got.  A step is one critical section of an `rt_rq->rt_runtime_lock`.  The loops
read the masks as they go, as `for_each_cpu` does.

| action | code |
|---|---|
| `enqueue_task`, `dequeue_task` | the counts, and `start_rt_bandwidth` |
| `update_curr_rt`, `sched_rt_runtime_exceeded` | the charge before and after `balance_runtime` |
| `do_balance_runtime`, `BorrowFrom`, `BorrowEnds` | lock, one neighbour, unlock |
| `timer_expires`, `do_sched_rt_period_timer`, `TimerPaysBack`, `timer_returns` | the callback: start, one CPU before and after `balance_runtime`, result |
| `CPU_DOWN_PREPARE`, `CPU_DOWN_FAILED`, `CPU_DYING`, `CPU_ONLINE`, `update_runtime_online` | `update_runtime` and `migration_call` in the notifier chain |
| `rq_attach_root`, `AttachRoot` | the function, with `set_rq_offline` before and `set_rq_online` after |
| `DisableBalanced`, `__disable_runtime`, `ReclaimFrom`, `ReclaimEnds` | `__disable_runtime`: nothing to reclaim, or the loop with `BUG_ON(want)` |
| `__enable_runtime`, `tg_set_bandwidth` | the functions of those names |

`set_rq_online` calls `rq_online` of every class, and both `rt_sched_class` and
`brr_sched_class` name `rq_online_rt`: one change of `rq->online` enables or disables
the CPU twice (`Enables`, `Disables`).  `RtBandwidth` is the `CONFIG_SMP=y` build.
Its tasks are counts, none is boosted, and a charge is a tick or less.  The notifier
chain, `stop_machine` (nothing runs beside `CPU_DYING`) and hrtimers (active inside
the callback) are external.

### Push and pull: `RtPushPull`

`frame[c]` is the call CPU `c` is in, with the locals that live across a lock; `lock`
says which CPU holds each `rq->lock`.  A step reaches from one place where a lock is taken or
dropped, or another run queue is read without its lock, to the next.
`task`, `rq` and `rd` are the code's; the operators take this state before a call and
give it after, so that `activate_task` reads like the function.  The priority array is one sequence,
sorted as `sched_find_first_bit` would walk it.  All fair tasks have one priority.
`throttled` is `rt_throttled`, and `spent` says that the time that has passed, once it is charged, exceeds the
runtime: when it does, and when a period has refilled it, is left open here, because `CpuSched` and
`RtBandwidth` count it.

| action | code |
|---|---|
| `try_to_wake_up`, `wake_on_new_rq` | `try_to_wake_up`, with `select_task_rq_rt`, up to and after the second `task_rq_lock`, and `task_wake_up_rt` |
| `set_current_state`, `__schedule`, `post_schedule_rt` | `schedule` with `pre_schedule_rt`, the pick (none of a throttled queue), and the push after the switch |
| `push_rt_task`, `find_again` | `push_rt_task` with `find_lock_lowest_rq`, first try and retries |
| `pull_rt_task` | the walk over `rto_mask`, one run queue at a time |
| `take_lock` | the locks `double_lock_balance` waits for; then the move |
| `setscheduler` | `__sched_setscheduler` with the `switched_to`, `switched_from` and `prio_changed` methods |
| `set_cpus_allowed` | `set_cpus_allowed_rt` where no migration thread is needed |
| `RunOut` | time passes: the runtime of a CPU is used up, and nothing is charged yet |
| `task_tick_rt` | the charge by the tick (`update_curr_rt`); a dequeue and a switch charge too |
| `do_sched_rt_period_timer` | the timer refills a run queue, its own CPU's or another's, and `sched_rt_rq_enqueue` |

The tick and the timer are interrupts, and come only where the call of the CPU they interrupt has interrupts on
(`Interruptible`).  The build is that of `CpuSched` with `CONFIG_SMP`.  No task is boosted here: a boost takes the steps
of `setscheduler`, but a queue with a boosted task is not throttled (`rt_nr_boosted`), which only `CpuSched` has.
The slices of SCHED_RR are in `CpuSched` as well.

`left` and `pulled` are auxiliary: the tasks of which the code does not promise that
somebody finds them a CPU (below).  cpupri (sched_cpupri.c) is external: it answers the
allowed CPUs of the lowest priority.

### Completions: `CompletionSpec`, `Completion`

A step is a critical section of `x->wait.lock`, `schedule`, the timer or a signal.
`state[w]` tells a thread that has set its task state from one that sleeps, because
`try_to_wake_up` returns 1 for the second only and `__wake_up_common` counts on that.
Actions: `complete`, `complete_all`, `wait_for_common` (the entry), `Relock` (back from
`schedule_timeout`), `try_wait_for_completion`, `schedule`, `process_timeout`, `signal_wake_up`,
`do_signal`.  The refinement maps `permits` to `done`, `waiting` to the threads in the queue, and
leaves out everything else: a take is what makes `wait_for_*` return success.

### Migration threads, affinity, hotplug: `Migration`

A step is one hold of `rq->lock`, or what runs with interrupts off.  `thread[x]` has the
CPU, affinity and queuing of each task and migration thread, `call[t]` the
`migration_req` on the stack of the caller `t`, `mt[c]` where the migration thread
of `c` is in its loop.

| action | code |
|---|---|
| `sched_setaffinity`, `sched_exec` | with `set_cpus_allowed_ptr` and `migrate_task`, up to the unlock |
| `wake_migration_thread`, `wait_for_completion` | what the caller does after it |
| `migration_thread`, `HandleRequest`, `CompleteRequest`, `MigrationThreadSleeps`, `set_current_state`, `wait_to_die` | the loop of `migration_thread`, with `__migrate_task` |
| `Schedule`, `Block`, `Wakeup`, `Exit` | the scheduler around them: who is `rq->curr`, who is off the queue but still current |
| `cpu_down` to `CPU_ONLINE` | `migration_call` in the notifier chain, with `migrate_live_tasks`, `migrate_dead_tasks` and the draining of the requests as steps of their own |

### The fair class: `FairQueue`

`q` is the `cfs_rq` with its entities; the functions of sched_fair.c are operators on
it.  The tree is the sequence of its nodes from the leftmost on.  Virtual times are unsigned numbers of
`Width` bits, and start shortly before the wrap, as `init_cfs_rq` does.

| action | code |
|---|---|
| `task_tick_fair` | time passes: `entity_tick`, `check_preempt_tick` |
| `try_to_wake_up`, `wake_up_new_task` | `place_entity`, `enqueue_entity`, `check_preempt_wakeup`; `task_new_fair` with the swap of child and parent |
| `Deschedule`, `FinishSchedule` | `schedule` of a task that sleeps or exits; in two halves when `idle_balance` drops the lock |
| `preempt_schedule`, `sched_yield` | the same with the task left queued; `yield_task_fair` |
| `PullAway`, `PullBack` | a task pulled by another CPU, and one coming from there: `set_task_cpu` keeps its distance to `min_vruntime` |
| `LeaveClass`, `switched_to_fair` | a class change away and back, with the virtual time it left with |

Assumed: a reschedule that is due is done within the tick, what is picked runs at least one unit, and
the `sched_feat` bits have their defaults.  `Forget` lets TLC see a finite state: a
virtual time further back than any code can tell is rounded.

### Load balancing: `LoadBalance`

`queue[c]` is `cfs_rq.tasks`, `curr` and `home` the running task and `task_cpu`, `failed` the
`nr_balance_failed` of each domain, `push[c]` the `active_balance` and `push_cpu` of a run queue,
`work[c]` where `c` is in `load_balance`.

| action | code |
|---|---|
| `rebalance_domains`, `idle_balance` | a level comes due (with `SD_SERIALIZE`), or the CPU has nothing to run |
| `Find` | `find_busiest_group`, `find_busiest_queue` |
| `Move` | `move_tasks`, `balance_tasks`, `can_migrate_task`; the retry when all were pinned |
| `Fail`, `WakeMigrationThread` | the nomination of a push, and the wakeup after the unlock |
| `active_load_balance` | the migration thread with `move_one_task` |
| `sched_fork`, `try_to_wake_up` | `sched_balance_self`; `select_task_rq_fair` with `wake_affine`, `wake_idle` |
| `schedule`, `Sleep` | which task is current |

A search reads all run queues at once, though the code reads them one after another.  Which tasks
are cache-hot is open.  A task too heavy for the imbalance counts as not pinned, as in
`balance_tasks`.

### The nohz election: `Nohz`

A step is one access to `nohz.cpu_mask` or `nohz.load_balancer`: `pc` walks through
`select_nohz_load_balancer(1)` (`StopTick`, `Retire`, `Weigh`, `Release`, `Elect`,
`Claim`), `select_nohz_load_balancer(0)` (`LeaveIdle`, `Clear`) and
`trigger_load_balance` (and `Disown`, `Look`, `Nominate`, `Recount`).  `cpu_down` to `cpu_up` are
hotplug with `stop_machine`, during which every CPU runs the stop thread.  The idle loop
and tick-sched.c are external.  `resched_cpu` takes its lock with a trylock, so
that a kick may be lost (`Nominate`, `Recount`).

## The runs

| run | instance | shows |
|---|---|---|
| `stock` (`MC_Stock`) | two tasks, one forked; NORMAL, FIFO, RR; throttling; two nice values | `TypeOK`, `ArrayConsistent`, `HighestMatches`, `PreemptNotLost`, `NoLostFairWakeup`, `SwitchesToBest`, `NoQueueJump` |
| `pi` (`MC_Pi`) | NORMAL, FIFO; waiters of priority 0 and 1; fork; preempted calls | `CountsMatch`, `PiHonoured`, `NoFault` |
| `brr` (`MC_Brr`) | BRR, FIFO, NORMAL; a waiter; buckets -1, 0 and 2 of 2, uncleared counts; runtime 1 of 2, timer late by a period | `ArrayConsistent`, `BucketsCounted`, `ThrottleRecovers`, `PreemptNotLost` |
| `fair_gets_cpu` (`MC_Fair`) | fixed policies, fairness | `ThrottlingEnds`, `FairClassRuns` |
| `rt_bandwidth` (`MC_Bandwidth`) | two CPUs, two root domains, one CPU pluggable, one setting | `TypeOK`, `RuntimeConserved`, `BugMeansLeak`, `DownStaysDisabled` |
| `push_pull` (`MC_PushPull`) | two CPUs, one of which may be throttled; three tasks, one of which changes priority, class and affinity; `CONFIG_PREEMPT` off | `QueuesSound`, `OffersSound`, `NoDeadlock`, `PreemptPending`, `NoneLeftBehind` |
| `completion` (`MC_Completion`) | three threads (uninterruptible; interruptible; both), four `complete`, one `complete_all`, a counter of 3 bits | `NoLostCompletion`, `CountsPermits`, `WaitEnds` |
| `migration` (`MC_Migration`) | two tasks, two CPUs, two calls, CPU 1 down once and up again; one task may exit | `RequestsSound`, `AffinityPursued`, `NotMovedWhileCurrent`, `RequestServed` |
| `fair_queue` (`MC_FairQueue`) | a normal, a batch and an idle task; weights 2, 2, 1; 5 bits of virtual time | `QueueSound`, `LagBounded`, `NoStarvation` |
| `nohz` (`MC_Nohz`) | three CPUs, one pluggable | `OwnerTicks`, `OwnerGivesUp`, `AllSleep` |
| `balancing` (`MC_LoadBalance`) | two CPUs, one domain, three tasks: pinned of weight 4, free of 4, sleeping of 2; no cache tries | `BalanceSound`, `WorkConserving` |
| `driver_fault` (`MC_DriverFault`) | the drivers' call | `NoFault` is violated |

Bounds.  In the `MC_Cpu` runs three real-time priorities (0 best) and two for fair
tasks are enough for better, equal and worse on each side of the boundary.
Two tasks show every pairwise race of a running and another task; that the lists
stay right with more of them is proved.  A period of 1 to 3 ticks with a runtime of 1
or 2 gives no throttling (runtime = period), throttling that one period pays
back, and a debt of several.  `RT_TIME_CAP` stops ticks from charging a
queue whose debt is already larger than any period of the run pays, and
`OVERRUN_CAP` says by how many periods the timer interrupt may be late.
`PreemptNotLost` holds in `stock` and `brr` because there no call is preempted inside
(`Preempted = {}`) and at most one priority can be inherited; see below.

`rt_bandwidth` has a runtime of 2 and a period of 3: a CPU can
lend half of what it has left and a borrower can reach the full period.
`RT_TIME_CAP` is the period or one tick more, enough to throttle, `NR_CAP` one task
per CPU (only `nr > 0` matters), and `Pluggable` the CPUs that hotplug and domain
changes may touch.

`push_pull` has more tasks than CPUs, so that one always waits.  The task that changes starts as the most urgent, and
is then less urgent than the two others or fair, and real-time again; the two others are equal, and symmetric.  These
two (`Sleepers`) sleep and wake any number of times; the first is woken once and leaves its queue only by a change of
class or by moving.  Two CPUs contend for two locks in both orders.  Without `CONFIG_PREEMPT` `double_lock_balance`
takes the order of the run queues into account, which is the harder of its two forms; the other is in the model
(`PREEMPT`).  `Limited` says which CPUs may be throttled: CPU 1, where the tasks start, from which they are pushed and to
which they are pulled; its timer may run on either CPU.  Larger instances take too long for a run and were checked
once: all three tasks in `Sleepers`; tasks that are not symmetric, with CPU 1, CPU 2 or, without changes, both
throttled; and `CONFIG_PREEMPT`.  The exception of `NoneLeftBehind` for a push that gave up is met only in these; the
run meets the six others.

`completion` lets `complete` come more often than there are waiters, and `complete_all`
on top of it; `BoundsAssumption` says that the counter does not wrap, which three
calls of `complete_all` would bring about in the code as well.  `migration` needs a second
task to be the subject of another's call, and a CPU to go down to get requests drained.  `fair_queue`
gives each rare thing (fork, class change, travel) to one task; 5 bits hold twice
`Latency + Behind + Ahead` and wrap within a few slices.  `nohz` has two CPUs that compete for the ownership while
a third comes and goes.  `balancing` is the smallest instance in which a pinned task, a
free one and one whose weight an average hides meet; the model has levels and `SD_SERIALIZE`, but
three CPUs with two levels are out of TLC's reach in reasonable time.

Deadlock is checked but where the system really may stop: in the runs with SCHED_BRR at a
`fault`, in `rt_bandwidth` at a BUG, and in `migration` when the calls are used up and
all tasks sleep or are gone.

### What the less obvious properties say

`RuntimeConserved` says how far the code keeps the sum of the runtimes: borrowing,
reclaiming, disabling and the timer never change it, in any interleaving; an enable
of a CPU that was not disabled may, and that is the only cause (a loan over a
domain boundary keeps the total and shifts it between domains).  `BugMeansLeak` adds
that the reclaim itself is right: it is left wanting only if the sum over its domain
was wrong before it.

`PreemptPending`: a task more urgent than what its CPU runs waits only for a reschedule that was asked for or a
call that is under way.  A throttled queue is exempt while it is throttled, because `_pick_next_task_rt` has nothing then
(sched_rt.c:1051), and not one step longer; so is a task that `setscheduler` pulled.

`NoneLeftBehind`: when no call is under way and no reschedule is due, no real-time task waits
while a CPU it may use runs less urgent work.  It has seven exceptions, each of them a path on
which the code looks no further, and each found by TLC:

- the queue is throttled: its tasks are not run, a wakeup pushes none because the fair task that runs is told to
  reschedule and then stays, and a pull takes none because they are more urgent than that task;
- the throttling has ended without a reschedule, because the task that runs, made real-time meanwhile, is no less urgent
  than those that came to wait behind it;
- the priority or affinity of a task that does not run was changed;
- `schedule` kept its task and so pushed nothing;
- `highest_prio.next` hides the task from a pull;
- a push gave the task up before the reschedule that made room or after three tries;
- `setscheduler` pulled the task.

The first lasts as long as the throttling.  `left` and `pulled` record the others, for the tasks concerned and until they
run or move.

`AffinityPursued`: a task that runs where it may not has a request to move it pending, or
its CPU is going away, or its request met a CPU that was just made inactive (`gaveup`):
`__migrate_task` then does nothing, and the request is completed all the same.

`LagBounded` bounds what any queued task is owed and has had too much, which is also what keeps
the signed comparison of virtual times an order.  A task back from another class may be owed more
(`stale`): its old virtual time is used as it is.  `NoStarvation` is about tasks once no more of
them arrive from fork, another CPU or another class; each arrival is placed anew, and a stream of
them may keep a task waiting.

`AllSleep` leaves out the times after a hotplug operation that left the mask wrong
(below).  `WorkConserving` says that a CPU is not idle for ever beside a queue with two tasks that
may run on it, once tasks neither sleep nor wake.  It does not say that the balance
is reached and kept: a stale nomination may push the only task of a queue to a busy CPU.

### Where the code and its words part

The run `driver_fault` checks what sched.h says of a priority and TLC finds it violated: the
drivers' `sched_setscheduler` with the one priority that is accepted for SCHED_BRR, 0, gives the
task its static priority, and the enqueue writes past the lists of the array: a SCHED_BRR task
can be queued only while it is boosted.

The following have no run of their own.  Each is the property named, stated in its
module; put in the `.cfg` named, with the change of constants named, it is violated.

| what | property | where |
|---|---|---|
| A boosted task made SCHED_NORMAL keeps its real-time prio in the fair class, and when its waiter changes it re-enters the rt class without the reschedule it owes; "if we are already running, then there's nothing that needs to be done" (sched_rt.c:1636) | `PreemptNotLost` | `MC_Stock`, FIFO and NORMAL only, `PiPrios = {0, 1}` |
| `prev_class`, read before the lock (sched.c:5875), turns a priority drop into a class switch: the reschedule is lost | `PreemptNotLost` | the same with no waiters and `Preempted <- OneCaller` |
| The pick does not rotate over buckets (sched_brr.c:62): rt_sched_class returns BRR tasks itself | `BucketsRotate` | `MC_Brr` |
| A CPU is enabled twice by `set_rq_online` and again by `update_runtime`; what it lent or borrowed in between is forgotten, and a later disable hits `BUG_ON(want)` (sched_rt.c:426) | `NeverLeftWanting` | `MC_Bandwidth` |
| The timer callback finds a CPU idle, a task is enqueued there and sees the timer active, the callback stops it: once throttled, the task waits until some other real-time task is enqueued (sched.c:255) | `ThrottledRunAgain` | `MC_Bandwidth` with `FairSpec`, no plugging, no settings, `RT_TIME_CAP = 4` |
| "If there's a higher priority task waiting to run then reschedule" (sched_rt.c:1669): not if the CPU has switched while `pull_rt_task` dropped the lock | `PulledTaskRuns` | `MC_PushPull` |
| A run queue is skipped by a pull when its next task "is known" to be of lower priority (sched_rt.c:1409): `highest_prio.next` may be too low | `NextKnown` | `MC_PushPull` |
| A task is scheduled away "if the CPU it's executing on is removed from the allowed bitmask" (sched.c:6802): not if the destination is being taken down | `AffinityHonoured` | `MC_Migration` |
| If all CPUs go tickless, "there will be no ilb owner" and "all the cpus will sleep till the next wakeup event arrives" (sched.c:4301): not always, because an owner that goes offline leaves its bit in `nohz.cpu_mask`, and a CPU that came back from a failed `cpu_down` without its tick is not in it | `AllSleepAlways` | `MC_Nohz` |

Smaller ones that are in the models: every
priority that `sched_get_priority_min/max` advertise for SCHED_BRR is refused
(`ParamsValid`); a bucket id of the caller, or -1 when no bucket is free, indexes
`numInBucket` unchecked (`EnqueueFault`); the counts of the buckets are never
cleared (`Garbage`); a new bucket (-1) may be that of a task that sleeps, because
only queued tasks count (`ChooseBucket`); a boost moves a BRR task to the rt class and its end
moves it to the fair class (`rt_mutex_setprio`); `getNextBucketNumber` wraps the index it tests
and not the one it returns (not modelled: its only caller is never reached);
`task_new_fair` and `yield_task_fair` compare virtual times as plain unsigned numbers, which misjudges
at the wrap: with `sched_child_runs_first` a chain of forks there keeps a task waiting, one of the
reasons why `NoStarvation` asks that forks have ended.

### Fairness

`SteadySpec` is the system after its policies were set: tasks sleep, wake, run
and yield.  Fairness is asked of three things only: the tick and the period
timer, which are hardware interrupts that keep coming, and `schedule` when the
running task has its reschedule flag set, which every return from an interrupt
and every preemption point honours.  Nothing is asked of the tasks: they may
run for ever, never sleep and never yield, and none has to wake.  A tick is not
enabled while the timer is `OVERRUN_CAP` periods late, which is the same
as saying that the timer interrupt is served.

`FairSpec` of `RtBandwidth` asks that who holds a spinlock goes on (`Charges`,
`Balancing`, `HotplugSteps`) and that an armed timer expires and its callback runs to
its end (`TimerSteps`).  No task has to be enqueued, run or leave, and no hotplug
has to happen.

`Completion`: a thread that is TASK_RUNNING gets to run (`Relock`, `schedule`) and an armed timer
expires.  Nobody has to post, signal or wait.  This implies the one fairness condition of
`CompletionSpec`, that permits do not stay while somebody waits.

`Migration`: the migration threads are the most urgent real-time tasks of their CPUs, so that one
that can go on does, and what has left the CPU is switched from; from `stop_machine` on
hotplug goes forward.  No task has to run, call or sleep.

`FairQueue`: time passes while a task runs and no reschedule is due, and a
reschedule that is due is done.  `Nohz`: code goes on and ticks come (weak), and a CPU that
again and again is idle with its tick running tries to stop it at the end of an interrupt, or leaves the idle loop when it is
told to (strong: another CPU's kick may come and go in between).  `LoadBalance`: softirqs, migration threads and
`schedule` do not stop half-way, and a level that a CPU reaches comes due again and again.
In `FairQueue` and `LoadBalance` the fairness of an action is written as `[]<>` of a state in which it is not
enabled or was just taken, which means the same and is cheaper to check.

## What is proved

Each theorem is about `Spec` of its module, for every value of the constants that satisfies the
assumptions the modules name on them (`PrioAssumption`, `CPUsAssumption`, ...) and that TLC
evaluates in each run: any finite set of tasks, CPUs or waiters, any number of priorities and
buckets, all policies, every bucket id of the callers and initial content of the bucket counts, any
bandwidth, affinities, width of the completion counter or number of calls and rounds of hotplug.

| module | theorem | states |
|---|---|---|
| `CpuSchedProofs` | `InvHolds` | the inductive invariant `Inv` |
| | `TypeCorrect` | `TypeOK` |
| | `ArrayAlwaysConsistent` | `ArrayConsistent`: lists, bitmap, `on_rt_rq()`, `se.on_rq` and classes agree |
| | `CountsAlwaysMatch` | `CountsMatch`: `rt_nr_running`, `rt_nr_boosted`, `nr_running` |
| | `HighestAlwaysMatches` | `HighestMatches`: `highest_prio.curr` |
| | `BucketsAlwaysCounted` | `BucketsCounted`: bucket counts over their initial content |
| | `AlwaysSwitchesToBest` | `SwitchesToBest`: every context switch is to a best real-time task that may run |
| `PreemptionProofs` | `PreemptionsNotLost` | `PreemptNotLost`, if `OnlyTopBoosts` and `Preempted = {}` |
| | `FairWakeupsNotLost` | `NoLostFairWakeup` |
| | `PiAlwaysHonoured` | `PiHonoured`, if waiters have real-time priorities |
| | `RtBoostAlwaysHonoured` | the part of `PiHonoured` about real-time boosts, whatever the waiters |
| | `NeverFaults` | `NoFault`, if SCHED_BRR is not used |
| | `ThrottleAlwaysRecovers` | `ThrottleRecovers` |
| | `NeverQueueJumps` | `NoQueueJump` |
| `RtPushPullProofs` | `QueuesAlwaysSound` | `QueuesSound`: each task once, on the array of its own CPU, where it may be |
| | `OffersAlwaysSound` | `OffersSound`: pushable lists, cpupri, `rto_mask` and counts hold what the queue holds |
| | `NeverDeadlocks` | `NoDeadlock` of the run queue locks |
| `CompletionProofs` | `CompletionNotLost` | `NoLostCompletion` |
| | `ImplementsPermits` | the safety part of `CompletionSpec` |
| `MigrationProofs` | `RequestsAlwaysSound` | `RequestsSound`: no request lost, served twice or left behind; a dead CPU is empty |
| | `AffinityAlwaysPursued` | `AffinityPursued` |
| | `CurrentNeverMoved` | `NotMovedWhileCurrent` |
| `NohzProofs` | `OwnerAlwaysTicks` | `OwnerTicks`, and that no exchange of `load_balancer` hits its BUG |

Three theorems have hypotheses of their own, and each is needed: with it dropped TLC finds a
counterexample.  `PreemptNotLost` fails with a waiter that is not of the best priority, or with a
call that is preempted before its lock, on the paths of the table under "Where the code and its words
part".  `PiHonoured` fails with a waiter of fair priority: `set_user_nice` then drops the
boost, which the code may regard as none.  `NoFault` fails with SCHED_BRR, as `driver_fault`
shows.

### One CPU

None of the properties of the queues is inductive alone.  A dequeue finds a task's list by its present
priority, so the counts need `ArrayConsistent`; `highest_prio` after a dequeue is
read off the bitmap and guarded by `rt_nr_running`, so it needs both; a task
that is enqueued must not be queued already, which for a new or unborn task is
a fact about `state`; the switch takes the head of the first list of the
bitmap, or nothing when `rt_nr_running` is 0, so it needs them all.  `Inv` is
their conjunction, with "the running task is on the run queue" (the tick and
the yield requeue it) and "unborn and new tasks are not".

The argument has three layers.  `RtQueueProofs` shows that each list operation
keeps `RtInv`, the part about the array (appending to and removing from an
injective sequence, cardinalities, the least bit).  `CpuSchedProofs` first splits
the handlers into pieces: `SoftStep`s, which touch only flags, the clock and
the bandwidth; dequeue-change-enqueue of a queued task (`QueuedChanged`); a
task off the queue that changes (`OneOffChanged`) or is queued for the first time
(`TaskWoken`).  Then there is one lemma for each action, and `InvNext` puts
them together.

`PreemptionProofs` assumes `Inv` of every state and adds an invariant for each question.  `RankInv`
is about one task and its top waiter: the normal priority is that of the policy, the
effective one is the better of it and the waiter's, or the one drop there is (`Dropped`); a task
that was not started has no waiter, without which `sched_fork` would not keep it; and class and
priority agree as far as they do.  `TimerInv` adds to `ThrottleRecovers` that a throttled
queue has a debt, because the timer callback stops the timer by the debt and lifts the throttling
by the same test.  `PendingInv` is `PreemptNotLost` itself, but a step that keeps it
needs `RankInv` (a boosted task is best, so that its class change needs no comparison) and
`TimerInv` (a throttling ends with a reschedule).  A handler keeps all of them if
what it does to the run queue besides its own task is `Kept`: nothing leaves, no flag is cleared, and nobody
comes to be before a task other than the one handled or the running one (`KeepsOrder`).
`NeverQueueJumps` follows from the last: a handler that gives its task a new place has changed
the task, or was called with the parameters the task already had (`SameCall`).

### Push and pull

The operators of `RtPushPull` take a state and give one, and so do the lemmas: `Sound(s)` is what
holds in the middle of a call.  It says where tasks are (`PlacesRight`), that the array is
sorted and holds the queued real-time tasks of its CPU (`ActiveRight`), that the pushable list holds
tasks that may be pushed (`PushableRight`), and that what others see is what is there
(`SeenRight`).  Every operator keeps it and changes the queues only of CPUs whose locks are held.
Throttling changes none of it (`Charged`): a throttled queue keeps its tasks, and what others know of it.

What makes it inductive is `CallRight`, what a CPU that is inside a call knows of its
task: it is on the queue whose lock the CPU holds (`Movable`), and after `double_lock_balance` either
that still holds or the lock was dropped, and then the code looks again.  Steps of others keep
it because they do not have the lock.  `LocksRight` says that the locks a CPU holds are below
the one it waits for.  `NoDeadlock` follows: of the CPUs in a circle, the one that
waits for the highest lock waits for one whose holder waits for a higher one still.

### Completions

`NoLostCompletion` counts: with waiters in the queue, as many are on their way as
there are permits, or all are.  A `complete` wakes one that sleeps, if there is one (`WakesOne`); a timeout or a
signal only adds to those on their way; who takes a permit was on its way.  `CallsCounted` bounds the
counter by the calls so far, so that `BoundsAssumption` keeps it from wrapping.  The
refinement has one lemma for each handler of which step of `CompletionSpec` it is, or that it is a stutter; its
fairness condition stays with TLC.

### Migration

`IInv` follows a request from the caller's stack to the completion: it is in the queue of the
CPU the caller noted or in the hand of that CPU's server, once (`RequestsRight`), until hotplug completes
it.  A server with something in its hand is current on its own CPU, which is online (`ServersRight`), which
is why the task it moves is not current.  `ServersAwake` says who will wake a server that
sleeps on a request.  What is left on a CPU that went down shrinks with each phase of
`migration_call` (`LeftoversRight`), until the `BUG_ON` finds nothing.
`AffinityPursued` speaks of running tasks only and is not inductive: a task that sleeps where
it may not be would break it when it wakes.  `AffinityRight` is about those as well, and
asks for the request that will really be effective (`MoveDue`): not yet served, on the task's present CPU, to
a CPU the task may still use.

### Nohz

`OwnerTicks` needs to know what a CPU goes by between its steps: who is about to give the ownership
up has it (`GiversOwn`), and who is about to claim it has it not (`ClaimersDoNotOwn`).

### Only model-checked

- `PreemptPending` and `NoneLeftBehind` of `RtPushPull`: they need an invariant about every path
  through a call of a CPU that still has a pull, a push or a check before it.
- `RtBandwidth`: most of its properties are about the runtime of all the CPUs together, a sum over a set,
  which only an induction over the set can be used on.  Its `DownStaysDisabled` and `TypeOK` need no sum and
  are left for the next proofs.
- `FairQueue` and `LoadBalance`: sums of loads and selections from the tree, for the same reason.
- All liveness, and with it the fairness part of the refinement: out of the prover's reach.

## Not modelled

- Task groups, nested queues, shares and `__rt_schedulable`: all tasks are in the root group.  The
  schedulability check is planned.
- The construction of the scheduling domains: topology data and allocation, little control.
- Accounting, cpuacct, schedstats, hrtick and the clocks: no modelled decision reads them.
- `do_sched_rt_period_timer_brr` and the SMP methods of sched_brr.c: dead code or copies.
- Load indices (`cpu_load`), SMT power and power savings of the balancer: they change numbers in the
  search, not its steps.
- Several groups, boosted queues, a group without a limit and a change of the period in
  `RtBandwidth`; cpuset retries, `wait_task_inactive` and `kick_process` around `Migration`; the `sleep_on`
  family around `Completion`; root domain changes, boosts on a throttled queue and slices in `RtPushPull`.

## The plan

Done: the run queue and one CPU, bandwidth between CPUs, push and pull, completions
with their specification, migration, the fair queue, load balancing, nohz; the proofs of one CPU, of
push and pull, completions, migration and nohz.

Next, proofs: `PreemptPending` and `NoneLeftBehind` of `RtPushPull`; of
`RtBandwidth`, its types, and that one loan or reclaim keeps the sum of the two CPUs it touches and that no
runtime wraps; of `FairQueue`, that the tree stays sorted.

Then `RtSchedulable.tla` (admission over a tree of groups), and an abstract scheduler ("a best task that may run is
running or a reschedule is pending") that `CpuSched` implements under the policies of `MC_Stock`.
