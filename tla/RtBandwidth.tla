---------------------------- MODULE RtBandwidth ----------------------------
(***************************************************************************)
(* The real-time bandwidth of one task group on several CPUs (CONFIG_SMP): *)
(* charging and throttling, runtime borrowed from the neighbours, the      *)
(* period timer, and the hotplug and root domain changes that take the     *)
(* runtime back and hand it out again.                                     *)
(*                                                                         *)
(* rq->lock of a CPU is held by who its path names, or by the hotplug      *)
(* thread; rt_b->rt_runtime_lock by who rtb names.  A step is what happens *)
(* under one rt_rq->rt_runtime_lock, so that every place where the code    *)
(* takes or drops a lock is a place where other CPUs may run.  The loop of *)
(* tg_set_bandwidth is one step: who could run between its locks reads the *)
(* runtime of one CPU, as it could before or after.                        *)
(*                                                                         *)
(* The cpu notifier chain, stop_machine and hrtimers are external.  Time   *)
(* is counted in ticks, and the timer may expire at any time it is armed.  *)
(***************************************************************************)
EXTENDS Integers, Sequences, FiniteSetsExt

CONSTANTS
  CPUs,           \* the possible CPUs, numbered as in a cpumask
  Domains,        \* root domains
  BootDomain,     \* the one of every CPU after boot
  BootRuntime,    \* rt_runtime of the group at boot
  Runtimes,       \* values that tg_set_bandwidth may give it
  Pluggable,      \* bound: CPUs that are taken down and up, or change domain
  RT_PERIOD,      \* rt_period of the group
  RUNTIME_INF,    \* the value that means no limit
  RT_TIME_CAP,    \* bound: no tick is charged to a larger rt_time
  NR_CAP          \* bound: real-time tasks queued on one CPU

ASSUME CPUsAssumption == CPUs \subseteq Nat /\ IsFiniteSet(CPUs)
ASSUME DomainsAssumption == BootDomain \in Domains /\ Pluggable \subseteq CPUs
ASSUME RuntimeAssumption ==
  /\ RT_PERIOD \in Nat \ {0} /\ RUNTIME_INF \in Nat
  /\ Runtimes \cup {BootRuntime} \subseteq 0 .. RT_PERIOD
  /\ RT_PERIOD < RUNTIME_INF
ASSUME CapsAssumption == RT_TIME_CAP \in Nat /\ NR_CAP \in Nat

VARIABLES
  runtime,    \* rt_b->rt_runtime of the group
  rt,         \* rt_rq of each CPU: rt_runtime, rt_time, throttled, nr
  rd,         \* rq->rd
  plugged,    \* where the CPU is between down and up
  online,     \* rq->online
  path,       \* what a charge or the timer does under rq->lock of a CPU
  rtb,        \* what is done under rt_b->rt_runtime_lock
  timer,      \* rt_b->rt_period_timer and its callback
  hotplug,    \* the calls left of the hotplug thread, under rq->lock of cpu
  bug         \* BUG_ON(want) was hit

vars == <<runtime, rt, rd, plugged, online, path, rtb, timer, hotplug, bug>>

-----------------------------------------------------------------------------
(* Locks and masks.                                                        *)

\* What the scheduler sees of hotplug: a CPU runs tasks and handlers until
\* stop_machine, and then again from CPU_ONLINE on.
CpuOnline(c) == plugged[c] \in {"up", "down_prepared", "coming"}

\* Nothing runs beside the dying CPU in stop_machine, nor after a BUG.
Live == ~ bug /\ \A c \in CPUs : plugged[c] # "dying"

Span(d) == {c \in CPUs : rd[c] = d}

\* The next CPU of for_each_cpu, which reads the mask as it goes.
Later(d, last) == {c \in Span(d) : c > last}

NoPath == [who |-> "none", pc |-> "none", by |-> 0, leaves |-> FALSE]
FreeRtb == [op |-> "free", cpu |-> 0, last |-> -1, want |-> 0, domain |-> BootDomain,
            weight |-> 1]

TimerIs(state) == [state |-> state, cpu |-> 0, domain |-> BootDomain, last |-> -1,
                   idle |-> TRUE]
NoCalls == [cpu |-> 0, calls |-> <<>>, domain |-> BootDomain]

RqFree(c) == path[c].who = "none" /\ ~ (hotplug.calls # <<>> /\ hotplug.cpu = c)
RtbFree == rtb.op = "free"

\* A CPU does one thing at a time with interrupts off.
Available(by) ==
  /\ CpuOnline(by)
  /\ \A c \in CPUs : path[c].who = "charge" => path[c].by # by
  /\ timer.state = "callback" => timer.cpu # by

-----------------------------------------------------------------------------
(* Tasks come and run.                                                     *)

\* enqueue of a real-time task with inc_rt_group: start_rt_bandwidth does
\* nothing while the timer is active, which it is inside its callback too.
enqueue_task(c) ==
  /\ Live
  /\ \E by \in CPUs : Available(by)
  /\ RqFree(c)
  /\ CpuOnline(c)
  /\ rt[c].nr < NR_CAP
  /\ timer.state = "inactive" => RtbFree
  /\ rt' = [rt EXCEPT ![c].nr = @ + 1]
  /\ timer' = IF timer.state = "inactive" THEN TimerIs("enqueued") ELSE timer
  /\ UNCHANGED <<runtime, rd, plugged, online, path, rtb, hotplug, bug>>

Leave(rec, leaves) == [rec EXCEPT !.nr = IF leaves THEN @ - 1 ELSE @]

\* update_curr_rt of the real-time task running on c, from c itself or from a
\* CPU by (dequeue_task of a remote task), up to the test of balance_runtime;
\* leaves says that a dequeue asked for it.  The task of a throttled queue has a
\* reschedule to serve (none is boosted here), and what put_prev_task charges it
\* before is less than a tick.
Balances(rec) ==
  /\ rec.rt_runtime < RT_PERIOD
  /\ rec.rt_time > rec.rt_runtime
update_curr_rt(c, by, delta, leaves) ==
  LET charged == [rt[c] EXCEPT !.rt_time =
                    IF rt[c].rt_runtime # RUNTIME_INF THEN @ + delta ELSE @]
  IN /\ Live
     /\ RqFree(c)
     /\ CpuOnline(c)
     /\ Available(by)
     /\ rt[c].nr > 0
     /\ ~ rt[c].throttled
     /\ rt[c].rt_time < RT_TIME_CAP
     /\ \/ /\ Balances(charged)
           /\ rt' = [rt EXCEPT ![c] = charged]
           /\ path' = [path EXCEPT ![c] = [who |-> "charge", pc |-> "balance",
                                           by |-> by, leaves |-> leaves]]
        \/ /\ ~ Balances(charged)
           /\ rt' = [rt EXCEPT ![c] = Leave(charged, leaves)]
           /\ UNCHANGED path
     /\ UNCHANGED <<runtime, rd, plugged, online, rtb, timer, hotplug, bug>>

\* sched_rt_runtime_exceeded after balance_runtime.
Exceeded(rec) ==
  [rec EXCEPT !.throttled = rec.rt_runtime # RUNTIME_INF /\ rec.rt_time > rec.rt_runtime]
sched_rt_runtime_exceeded(c) ==
  /\ Live
  /\ path[c].who = "charge" /\ path[c].pc = "balanced"
  /\ rt' = [rt EXCEPT ![c] = Leave(Exceeded(@), path[c].leaves)]
  /\ path' = [path EXCEPT ![c] = NoPath]
  /\ UNCHANGED <<runtime, rd, plugged, online, rtb, timer, hotplug, bug>>

\* dequeue_task of a queue that is throttled: its task is not running.
dequeue_task(c) ==
  /\ Live
  /\ \E by \in CPUs : Available(by)
  /\ RqFree(c)
  /\ rt[c].throttled
  /\ rt[c].nr > 0
  /\ rt' = [rt EXCEPT ![c].nr = @ - 1]
  /\ UNCHANGED <<runtime, rd, plugged, online, path, rtb, timer, hotplug, bug>>

-----------------------------------------------------------------------------
(* do_balance_runtime.                                                     *)

\* It takes the lock of the group and looks at the domain of the CPU it runs on.
do_balance_runtime(c) ==
  /\ Live
  /\ path[c].pc = "balance"
  /\ RtbFree
  /\ rtb' = [op |-> "borrow", cpu |-> c, last |-> -1, want |-> 0,
             domain |-> rd[path[c].by], weight |-> Cardinality(Span(rd[path[c].by]))]
  /\ path' = [path EXCEPT ![c].pc = "borrowing"]
  /\ UNCHANGED <<runtime, rt, rd, plugged, online, timer, hotplug, bug>>

\* 1/n of the spare time of a neighbour, but no more than the period.
Spare(n) == rt[n].rt_runtime - rt[n].rt_time
Loan(n, c) ==
  LET diff == Spare(n) \div rtb.weight
  IN IF rt[c].rt_runtime + diff > RT_PERIOD THEN RT_PERIOD - rt[c].rt_runtime ELSE diff
Lends(n, c) == n # c /\ rt[n].rt_runtime # RUNTIME_INF /\ Spare(n) > 0

LendsForFree(n, c, diff) == [rt EXCEPT ![c].rt_runtime = @ + diff]
Transfer(n, c, diff) ==
  [rt EXCEPT ![n].rt_runtime = @ - diff, ![c].rt_runtime = @ + diff]

BorrowFrom(n) ==
  LET c == rtb.cpu
      lent == IF Lends(n, c) THEN Transfer(n, c, Loan(n, c)) ELSE rt
      full == Lends(n, c) /\ lent[c].rt_runtime = RT_PERIOD
  IN /\ Live
     /\ rtb.op = "borrow"
     /\ Later(rtb.domain, rtb.last) # {} /\ n = Min(Later(rtb.domain, rtb.last))
     /\ rt' = lent
     /\ rtb' = IF full THEN [rtb EXCEPT !.op = "borrowed"] ELSE [rtb EXCEPT !.last = n]
     /\ UNCHANGED <<runtime, rd, plugged, online, path, timer, hotplug, bug>>

BorrowEnds ==
  /\ Live
  /\ \/ rtb.op = "borrowed"
     \/ rtb.op = "borrow" /\ Later(rtb.domain, rtb.last) = {}
  /\ rtb' = FreeRtb
  /\ path' = [path EXCEPT ![rtb.cpu].pc = "balanced"]
  /\ UNCHANGED <<runtime, rt, rd, plugged, online, timer, hotplug, bug>>

-----------------------------------------------------------------------------
(* The period timer.                                                       *)

\* The timer expires on CPU by and visits the CPUs of the domain of by.
timer_expires(by) ==
  /\ Live
  /\ timer.state = "enqueued"
  /\ Available(by)
  /\ timer' = [state |-> "callback", cpu |-> by, domain |-> rd[by], last |-> -1,
               idle |-> TRUE]
  /\ UNCHANGED <<runtime, rt, rd, plugged, online, path, rtb, hotplug, bug>>

NextVisit == Later(timer.domain, timer.last)

\* The rest of a visit under rt_runtime_lock: the period is paid back.
PaidInFull(rec) ==
  LET time == rec.rt_time - rec.rt_runtime
  IN [rec EXCEPT !.rt_time = time,
                 !.throttled = @ /\ ~ time < rec.rt_runtime]
PaidBack(rec) ==
  LET time == IF rec.rt_time <= rec.rt_runtime THEN 0 ELSE rec.rt_time - rec.rt_runtime
  IN [rec EXCEPT !.rt_time = time,
                 !.throttled = @ /\ ~ time < rec.rt_runtime]
Visited(t, n, rec) ==
  [t EXCEPT !.last = n, !.idle = @ /\ rec.rt_time = 0 /\ rec.nr = 0]

\* do_sched_rt_period_timer at CPU n, up to the test of balance_runtime.
do_sched_rt_period_timer(n) ==
  LET owes == rt[n].rt_time # 0
      borrows == rt[n].throttled /\ rt[n].rt_time > rt[n].rt_runtime
      paid == IF owes THEN PaidBack(rt[n]) ELSE rt[n]
  IN /\ Live
     /\ timer.state = "callback"
     /\ NextVisit # {} /\ n = Min(NextVisit)
     /\ RqFree(n)
     /\ \/ /\ owes /\ borrows
           /\ path' = [path EXCEPT ![n] = [who |-> "timer", pc |-> "balance",
                                           by |-> timer.cpu, leaves |-> FALSE]]
           /\ UNCHANGED <<rt, timer>>
        \/ /\ ~ (owes /\ borrows)
           /\ rt' = [rt EXCEPT ![n] = paid]
           /\ timer' = Visited(timer, n, paid)
           /\ UNCHANGED path
     /\ UNCHANGED <<runtime, rd, plugged, online, rtb, hotplug, bug>>

\* And after balance_runtime.
TimerPaysBack(n) ==
  /\ Live
  /\ path[n].who = "timer" /\ path[n].pc = "balanced"
  /\ rt' = [rt EXCEPT ![n] = PaidBack(@)]
  /\ timer' = Visited(timer, n, PaidBack(rt[n]))
  /\ path' = [path EXCEPT ![n] = NoPath]
  /\ UNCHANGED <<runtime, rd, plugged, online, rtb, hotplug, bug>>

\* sched_rt_period_timer returns HRTIMER_NORESTART when every CPU was idle, or
\* goes round again when one more period has passed.
timer_returns ==
  /\ Live
  /\ timer.state = "callback"
  /\ NextVisit = {}
  /\ \/ timer' = TimerIs(IF timer.idle THEN "inactive" ELSE "enqueued")
     \/ timer' = [timer EXCEPT !.last = -1, !.idle = TRUE]
  /\ UNCHANGED <<runtime, rt, rd, plugged, online, path, rtb, hotplug, bug>>

-----------------------------------------------------------------------------
(* Hotplug and root domains.  hotplug.calls are the rq_online and          *)
(* rq_offline calls that the notifier has to make under rq->lock: two for  *)
(* a change of rq->online, because rt_sched_class and brr_sched_class both *)
(* have rq_online_rt and rq_offline_rt.                                    *)

Disables(c) == IF online[c] THEN <<"disable", "disable">> ELSE <<>>
Enables == <<"enable", "enable">>

\* rq_attach_root sets the run queue online when the CPU is.
EnablesAlways(c) == Enables
EnablesOnline(c) == IF CpuOnline(c) THEN Enables ELSE <<>>

Calls(c, calls, d) ==
  IF calls = <<>> THEN NoCalls ELSE [cpu |-> c, calls |-> calls, domain |-> d]

Settled == \A c \in CPUs : plugged[c] \in {"up", "down"}

\* update_runtime at CPU_DOWN_PREPARE, which another CPU asks for.
CPU_DOWN_PREPARE(c) ==
  /\ Live
  /\ hotplug.calls = <<>>
  /\ Settled
  /\ RqFree(c)
  /\ plugged[c] = "up"
  /\ \E other \in CPUs \ {c} : plugged[other] = "up"
  /\ plugged' = [plugged EXCEPT ![c] = "down_prepared"]
  /\ hotplug' = Calls(c, <<"disable">>, rd[c])
  /\ UNCHANGED <<runtime, rt, rd, online, path, rtb, timer, bug>>

\* update_runtime at CPU_DOWN_FAILED.
CPU_DOWN_FAILED(c) ==
  /\ Live
  /\ hotplug.calls = <<>>
  /\ RqFree(c)
  /\ plugged[c] = "down_prepared"
  /\ plugged' = [plugged EXCEPT ![c] = "up"]
  /\ hotplug' = Calls(c, <<"enable">>, rd[c])
  /\ UNCHANGED <<runtime, rt, rd, online, path, rtb, timer, bug>>

\* migration_call at CPU_DYING, when stop_machine has every CPU with
\* interrupts off and no lock held: set_rq_offline.
CPU_DYING(c) ==
  /\ Live
  /\ hotplug.calls = <<>>
  /\ \A n \in CPUs : RqFree(n)
  /\ RtbFree /\ timer.state # "callback"
  /\ plugged[c] = "down_prepared"
  /\ plugged' = [plugged EXCEPT ![c] = IF online[c] THEN "dying" ELSE "down"]
  /\ hotplug' = Calls(c, Disables(c), rd[c])
  /\ UNCHANGED <<runtime, rt, rd, online, path, rtb, timer, bug>>

\* migration_call at CPU_ONLINE: set_rq_online.
CPU_ONLINE(c) ==
  /\ Live
  /\ hotplug.calls = <<>>
  /\ Settled
  /\ RqFree(c)
  /\ plugged[c] = "down"
  /\ plugged' = [plugged EXCEPT ![c] = "coming"]
  /\ hotplug' = Calls(c, IF online[c] THEN <<>> ELSE Enables, rd[c])
  /\ online' = [online EXCEPT ![c] = TRUE]
  /\ UNCHANGED <<runtime, rt, rd, path, rtb, timer, bug>>

\* update_runtime at CPU_ONLINE, later in the same notifier chain.
update_runtime_online(c) ==
  /\ Live
  /\ hotplug.calls = <<>>
  /\ RqFree(c)
  /\ plugged[c] = "coming"
  /\ plugged' = [plugged EXCEPT ![c] = "up"]
  /\ hotplug' = Calls(c, <<"enable">>, rd[c])
  /\ UNCHANGED <<runtime, rt, rd, online, path, rtb, timer, bug>>

\* rq_attach_root, for the domains that partition_sched_domains rebuilds from
\* a notifier or a cpuset: off its old domain and on to d.
rq_attach_root(c, d) ==
  /\ Live
  /\ hotplug.calls = <<>>
  /\ \A n \in CPUs : plugged[n] # "down_prepared"
  /\ RqFree(c)
  /\ d # rd[c]
  /\ hotplug' = Calls(c, Disables(c) \o <<"attach">> \o EnablesOnline(c), d)
  /\ UNCHANGED <<runtime, rt, rd, plugged, online, path, rtb, timer, bug>>

Returned ==
  IF Tail(hotplug.calls) = <<>> THEN NoCalls ELSE [hotplug EXCEPT !.calls = Tail(@)]
HotplugCalls(call) == hotplug.calls # <<>> /\ Head(hotplug.calls) = call

\* set_rq_offline clears rq->online after the last call.
NowDown ==
  IF Tail(hotplug.calls) = <<>> /\ plugged[hotplug.cpu] = "dying"
  THEN /\ plugged' = [plugged EXCEPT ![hotplug.cpu] = "down"]
       /\ online' = [online EXCEPT ![hotplug.cpu] = FALSE]
  ELSE UNCHANGED <<plugged, online>>

\* __disable_runtime when there is nothing to reclaim.
Disabled(c) == [rt EXCEPT ![c].rt_runtime = RUNTIME_INF]
Balanced(c) == rt[c].rt_runtime \in {RUNTIME_INF, runtime}

DisableBalanced ==
  LET c == hotplug.cpu IN
  /\ ~ bug
  /\ HotplugCalls("disable")
  /\ RtbFree
  /\ Balanced(c)
  /\ rt' = Disabled(c)
  /\ hotplug' = Returned
  /\ NowDown
  /\ UNCHANGED <<runtime, rd, path, rtb, timer, bug>>

\* __disable_runtime of a CPU that has lent or borrowed: want is what it lent.
__disable_runtime ==
  LET c == hotplug.cpu IN
  /\ ~ bug
  /\ HotplugCalls("disable")
  /\ RtbFree
  /\ ~ Balanced(c)
  /\ rtb' = [op |-> "reclaim", cpu |-> c, last |-> -1,
             want |-> runtime - rt[c].rt_runtime, domain |-> rd[c], weight |-> 1]
  /\ UNCHANGED <<runtime, rt, rd, plugged, online, path, timer, hotplug, bug>>

\* Greedy reclaim from neighbour n: all it has or all that is wanted, and a
\* negative want goes to the first neighbour.
ReclaimsSpare(n) ==
  IF rtb.want > 0 THEN Min({rt[n].rt_runtime - rt[n].rt_time, rtb.want}) ELSE rtb.want
Reclaimed(n) ==
  IF rtb.want > 0 THEN Min({rt[n].rt_runtime, rtb.want}) ELSE rtb.want

ReclaimFrom(n) ==
  LET skip == n = rtb.cpu \/ rt[n].rt_runtime = RUNTIME_INF
      diff == IF skip THEN 0 ELSE Reclaimed(n)
  IN /\ ~ bug
     /\ rtb.op = "reclaim" /\ rtb.want # 0
     /\ Later(rtb.domain, rtb.last) # {} /\ n = Min(Later(rtb.domain, rtb.last))
     /\ rt' = [rt EXCEPT ![n].rt_runtime = @ - diff]
     /\ rtb' = [rtb EXCEPT !.last = n, !.want = @ - diff]
     /\ UNCHANGED <<runtime, rd, plugged, online, path, timer, hotplug, bug>>

\* BUG_ON(want), or the CPU is disabled.
ReclaimEnds ==
  /\ ~ bug
  /\ rtb.op = "reclaim"
  /\ rtb.want = 0 \/ Later(rtb.domain, rtb.last) = {}
  /\ IF rtb.want # 0
     THEN /\ bug' = TRUE
          /\ UNCHANGED <<rt, rtb, hotplug, plugged, online>>
     ELSE /\ rt' = Disabled(rtb.cpu)
          /\ rtb' = FreeRtb
          /\ hotplug' = Returned
          /\ NowDown
          /\ UNCHANGED bug
  /\ UNCHANGED <<runtime, rd, path, timer>>

__enable_runtime ==
  /\ ~ bug
  /\ HotplugCalls("enable")
  /\ RtbFree
  /\ rt' = [rt EXCEPT ![hotplug.cpu] =
              [@ EXCEPT !.rt_runtime = runtime, !.rt_time = 0, !.throttled = FALSE]]
  /\ hotplug' = Returned
  /\ UNCHANGED <<runtime, rd, plugged, online, path, rtb, timer, bug>>

\* The step of rq_attach_root between set_rq_offline and set_rq_online.
AttachRoot ==
  LET c == hotplug.cpu IN
  /\ ~ bug
  /\ HotplugCalls("attach")
  /\ rd' = [rd EXCEPT ![c] = hotplug.domain]
  /\ online' = [online EXCEPT ![c] = CpuOnline(c)]
  /\ hotplug' = Returned
  /\ UNCHANGED <<runtime, rt, plugged, path, rtb, timer, bug>>

-----------------------------------------------------------------------------
(* Configuration.                                                          *)

\* tg_set_bandwidth with an admitted runtime: every possible CPU gets it, a
\* disabled one too.
tg_set_bandwidth(new) ==
  /\ Live
  /\ RtbFree
  /\ runtime' = new
  /\ rt' = [c \in CPUs |-> [rt[c] EXCEPT !.rt_runtime = new]]
  /\ UNCHANGED <<rd, plugged, online, path, rtb, timer, hotplug, bug>>

-----------------------------------------------------------------------------
(* The specification.                                                      *)

Init ==
  /\ runtime = BootRuntime
  /\ rt = [c \in CPUs |-> [rt_runtime |-> BootRuntime, rt_time |-> 0,
                           throttled |-> FALSE, nr |-> 0]]
  /\ rd = [c \in CPUs |-> BootDomain]
  /\ plugged = [c \in CPUs |-> "up"]
  /\ online = [c \in CPUs |-> TRUE]
  /\ path = [c \in CPUs |-> NoPath]
  /\ rtb = FreeRtb
  /\ timer = TimerIs("inactive")
  /\ hotplug = NoCalls
  /\ bug = FALSE

\* The steps of one actor at a time, which go on once they have begun.
Charges(c) ==
  \/ sched_rt_runtime_exceeded(c)
  \/ path[c].who = "charge" /\ do_balance_runtime(c)
TimerSteps ==
  \/ \E by \in CPUs : timer_expires(by)
  \/ \E n \in CPUs : do_sched_rt_period_timer(n)
  \/ \E n \in CPUs : path[n].who = "timer" /\ do_balance_runtime(n)
  \/ \E n \in CPUs : TimerPaysBack(n)
  \/ timer_returns
Balancing == (\E n \in CPUs : BorrowFrom(n)) \/ BorrowEnds
HotplugSteps ==
  \/ DisableBalanced
  \/ __disable_runtime
  \/ \E n \in CPUs : ReclaimFrom(n)
  \/ ReclaimEnds
  \/ __enable_runtime
  \/ AttachRoot

Workload ==
  \/ \E c \in CPUs : enqueue_task(c)
  \/ \E c \in CPUs : dequeue_task(c)
  \/ \E c, by \in CPUs : update_curr_rt(c, by, 1, FALSE)
  \/ \E c, by \in CPUs, delta \in {0, 1} : update_curr_rt(c, by, delta, TRUE)

Administration ==
  \/ \E c \in Pluggable : CPU_DOWN_PREPARE(c)
  \/ \E c \in Pluggable : CPU_DOWN_FAILED(c)
  \/ \E c \in Pluggable : CPU_DYING(c)
  \/ \E c \in Pluggable : CPU_ONLINE(c)
  \/ \E c \in Pluggable : update_runtime_online(c)
  \/ \E c \in Pluggable, d \in Domains : rq_attach_root(c, d)
  \/ \E new \in Runtimes : tg_set_bandwidth(new)

Next ==
  \/ Workload
  \/ \E c \in CPUs : Charges(c)
  \/ TimerSteps
  \/ Balancing
  \/ HotplugSteps
  \/ Administration

Spec == Init /\ [][Next]_vars

\* Who holds a spinlock is not preempted, and an armed timer expires.  Nothing
\* is asked of the tasks nor of the administrator.
FairSpec ==
  /\ Spec
  /\ \A c \in CPUs : WF_vars(Charges(c))
  /\ WF_vars(TimerSteps) /\ WF_vars(Balancing) /\ WF_vars(HotplugSteps)

-----------------------------------------------------------------------------
(* Properties.                                                             *)

RtRq == [rt_runtime : 0 .. RUNTIME_INF, rt_time : Nat, throttled : BOOLEAN, nr : Nat]

\* Every variable has its type; rt_runtime, an unsigned number, never wraps.
TypeOK ==
  /\ runtime \in 0 .. RT_PERIOD
  /\ rt \in [CPUs -> RtRq]
  /\ rd \in [CPUs -> Domains]
  /\ plugged \in [CPUs -> {"up", "down_prepared", "dying", "down", "coming"}]
  /\ online \in [CPUs -> BOOLEAN]
  /\ path \in [CPUs -> [who : {"none", "charge", "timer"},
                        pc : {"none", "balance", "borrowing", "balanced"},
                        by : CPUs \cup {0}, leaves : BOOLEAN]]
  /\ rtb \in [op : {"free", "borrow", "borrowed", "reclaim"}, cpu : CPUs \cup {0},
              last : CPUs \cup {-1}, want : Int, domain : Domains, weight : Nat \ {0}]
  /\ timer \in [state : {"inactive", "enqueued", "callback"}, cpu : CPUs \cup {0},
                domain : Domains, last : CPUs \cup {-1}, idle : BOOLEAN]
  /\ hotplug \in [cpu : CPUs \cup {0}, domain : Domains,
                  calls : Seq({"disable", "enable", "attach"})]
  /\ bug \in BOOLEAN

\* What the CPUs of a set have more than they were given, over what a reclaim
\* in progress has yet to find.
Surplus(c) ==
  IF rtb.op = "reclaim" /\ rtb.cpu = c THEN - rtb.want
  ELSE IF rt[c].rt_runtime = RUNTIME_INF THEN 0
  ELSE rt[c].rt_runtime - runtime
Ledger(S) == MapThenSumSet(Surplus, S)

\* Borrowing, reclaiming, disabling and the timer move runtime between CPUs and
\* neither make nor lose any: the sum changes only when a CPU that was not
\* disabled is enabled, or with the setting of the group.
Reenabled(c) ==
  /\ rt[c].rt_runtime # RUNTIME_INF
  /\ HotplugCalls("enable") /\ hotplug.cpu = c /\ hotplug' = Returned
RuntimeConserved ==
  [][\/ Ledger(CPUs)' = Ledger(CPUs)
     \/ \E c \in CPUs : Reenabled(c)
     \/ Ledger(CPUs)' = 0 /\ \A c \in CPUs : rt'[c].rt_runtime = runtime']_vars

\* __disable_runtime finds what it wants unless runtime leaked before: a BUG
\* needs a domain whose sum is wrong.
BugMeansLeak == [][bug' # bug => Ledger(Span(rtb.domain)) # 0]_vars

\* A CPU that is down has infinite runtime, which keeps its neighbours from
\* borrowing of it: rebuilding domains does not enable it, and only a new setting
\* of the group, which goes to every possible CPU, does.
DownStaysDisabled ==
  [][\A c \in CPUs :
          plugged[c] = "down" /\ plugged'[c] = "down" /\ rt[c].rt_runtime = RUNTIME_INF
          /\ ~ (\A n \in CPUs : rt'[n].rt_runtime = runtime')
          => rt'[c].rt_runtime = RUNTIME_INF]_vars

-----------------------------------------------------------------------------
(* What comments of the code say and runs refute.                          *)

\* __disable_runtime says that "We cannot be left wanting": BUG_ON(want) is
\* never hit.
NeverLeftWanting == ~ bug

\* sched.c says of sysctl_sched_rt_runtime that it is the "part of the period that
\* we allow rt tasks to run": tasks that wait on a throttled queue run again.
Waits(c) == rt[c].throttled /\ rt[c].nr > 0
ThrottledRunAgain == \A c \in CPUs : Waits(c) ~> ~ Waits(c)
=============================================================================
