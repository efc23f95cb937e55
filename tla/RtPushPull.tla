----------------------------- MODULE RtPushPull -----------------------------
(***************************************************************************)
(* Real-time tasks on several run queues (CONFIG_SMP): waking a task on    *)
(* the CPU that suits it, pushing the waiting ones away, pulling them when *)
(* a CPU runs something less urgent, and changes of priority and affinity  *)
(* meanwhile.                                                              *)
(*                                                                         *)
(* A CPU runs one call at a time (frame); lock names the CPU that holds an *)
(* rq->lock.  A step is what happens between two places where a lock is    *)
(* taken or dropped, or where another run queue is read without its lock.  *)
(* Scheduling domains are one domain of all CPUs; cpupri is external.      *)
(* Tasks that are not real-time all have the priority MAX_RT_PRIO: which   *)
(* of them runs, and where one wakes, is left open (sched_fair.c).  So is  *)
(* when a CPU's real-time tasks use up their runtime (RtBandwidth): spent. *)
(***************************************************************************)
EXTENDS Integers, SequencesExt

CONSTANTS
  CPUs,         \* the CPUs, numbered: their run queues lie in this order
  Tasks,        \* the tasks
  MAX_RT_PRIO,  \* priorities below it are real-time
  Prios,        \* priorities that setscheduler gives, MAX_RT_PRIO for fair
  BootPrio,     \* the priority of each task at boot
  Adjustable,   \* bound: the tasks whose priority is changed
  Masks,        \* affinities that set_cpus_allowed gives
  Pinnable,     \* bound: the tasks whose affinity is changed
  Sleepers,     \* bound: the tasks that sleep again once they were woken
  Limited,      \* bound: the CPUs where real-time tasks may use up the runtime
  PREEMPT,      \* CONFIG_PREEMPT: which double_lock_balance is compiled
  None          \* no task, no CPU

ASSUME CPUsAssumption == CPUs \subseteq Nat /\ CPUs # {} /\ IsFiniteSet(CPUs)
ASSUME ThreadsAssumption == Tasks \cap CPUs = {} /\ None \notin Tasks \cup CPUs
ASSUME PriosAssumption == MAX_RT_PRIO \in Nat /\ Prios \subseteq 0 .. MAX_RT_PRIO
ASSUME BootAssumption == BootPrio \in [Tasks -> 0 .. MAX_RT_PRIO]
ASSUME MasksAssumption == Masks \subseteq (SUBSET CPUs) \ {{}}

VARIABLES
  task,    \* task_struct of each task and of the idle task of each CPU
  rq,      \* struct rq with its rt_rq
  rd,      \* the root domain: rto_mask and cpupri
  lock,    \* rq->lock
  frame,   \* the call that each CPU is in
  left,    \* auxiliary: tasks that nobody has to find a CPU for
  pulled   \* auxiliary: tasks that wait where setscheduler pulled them

vars == <<task, rq, rd, lock, frame, left, pulled>>

\* The idle task of a CPU goes by the CPU's number.
Threads == Tasks \cup CPUs
RT_MAX_TRIES == 3

TaskStruct == [prio : 0 .. MAX_RT_PRIO + 1, cpus_allowed : SUBSET CPUs, cpu : CPUs,
               on_rq : BOOLEAN, sleeping : BOOLEAN, resched : BOOLEAN]
RunQueue == [curr : Threads, active : Seq(Tasks), pushable : Seq(Tasks),
             next : 0 .. MAX_RT_PRIO, migratory : Int, overloaded : BOOLEAN,
             throttled : BOOLEAN, spent : BOOLEAN]
Pcs == {"none", "waking", "push", "find", "push_lock", "pull", "pull_lock", "post"}

\* pc says where the call is, op which call push_rt_task or pull_rt_task was made
\* by, and p0 and running the task and the local of that caller.  p is the task
\* pushed or woken, other the second run queue, want the locks still to take,
\* dropped whether the first was dropped meanwhile.
NoFrame == [pc |-> "none", op |-> "none", rq |-> None, other |-> None, p |-> None,
            want |-> <<>>, dropped |-> FALSE, tries |-> 0, p0 |-> None,
            running |-> FALSE]

\* The operators below take the state s before a call and give it after.
State == [task |-> task, rq |-> rq, rd |-> rd]

-----------------------------------------------------------------------------
(* One run queue, under its lock.                                          *)

rt_prio(prio) == prio < MAX_RT_PRIO
rt_task(s, p) == rt_prio(s.task[p].prio)
Migratable(s, p) == Cardinality(s.task[p].cpus_allowed) > 1
resched_task(s, p) == [s EXCEPT !.task[p].resched = TRUE]
Current(s, c) == s.rq[c].curr
CurrPrio(s, c) == s.task[Current(s, c)].prio

\* active is the priority array read from its first bit on, and pushable a
\* plist: both are sorted by priority, and a task is added behind its equals
\* or, by requeue_task_rt with head, before them.
Before(q, places, p) == IF places = {} THEN Append(q, p) ELSE InsertAt(q, Min(places), p)
AddTail(s, q, p) == Before(q, {i \in DOMAIN q : s.task[q[i]].prio > s.task[p].prio}, p)
AddHead(s, q, p) == Before(q, {i \in DOMAIN q : s.task[q[i]].prio >= s.task[p].prio}, p)
highest_prio(s, c) ==
  LET q == s.rq[c].active IN IF q = <<>> THEN MAX_RT_PRIO ELSE s.task[Head(q)].prio

\* The first task that does not run and may run on the CPU `cpu`.
pick_next_highest_task_rt(s, c, cpu) ==
  LET q == s.rq[c].active
      places == {i \in DOMAIN q : /\ q[i] # Current(s, c) /\ Migratable(s, q[i])
                                  /\ cpu \in s.task[q[i]].cpus_allowed}
  IN IF places = {} THEN None ELSE q[Min(places)]

next_prio(s, c) ==
  LET p == pick_next_highest_task_rt(s, c, c)
  IN IF p = None THEN MAX_RT_PRIO ELSE s.task[p].prio

update_rt_migration(s, c) ==
  LET over == s.rq[c].migratory > 0 /\ Len(s.rq[c].active) > 1
  IN [s EXCEPT !.rq[c].overloaded = over,
               !.rd.rto_mask = IF over THEN @ \cup {c} ELSE @ \ {c}]

\* s has the task on the array already, prev is highest_prio.curr before.
inc_rt_prio_smp(s, c, prio, prev) ==
  LET now == highest_prio(s, c)
      next == CASE prio < prev -> prev
                [] prio >= prev /\ prio = now -> prio
                [] prio > now /\ prio < s.rq[c].next -> next_prio(s, c)
                [] OTHER -> s.rq[c].next
  IN [s EXCEPT !.rq[c].next = next,
               !.rd.cpupri[c] = IF prio < prev THEN prio ELSE @]

dec_rt_prio_smp(s, c, prio, prev) ==
  LET stays == s.rq[c].active # <<>> /\ prio <= s.rq[c].next
  IN [s EXCEPT !.rq[c].next = IF stays THEN next_prio(s, c) ELSE @,
               !.rd.cpupri[c] = IF highest_prio(s, c) # prev THEN highest_prio(s, c) ELSE @]

dequeue_pushable_task(s, c, p) == [s EXCEPT !.rq[c].pushable = RemoveFirst(@, p)]
enqueue_pushable_task(s, c, p) ==
  LET off == dequeue_pushable_task(s, c, p)
  IN [off EXCEPT !.rq[c].pushable = AddTail(s, @, p)]

enqueue_task_rt(s, c, p) ==
  LET prev == highest_prio(s, c)
      listed == [s EXCEPT !.rq[c].active = AddTail(s, @, p)]
      counted == [inc_rt_prio_smp(listed, c, s.task[p].prio, prev) EXCEPT
                    !.rq[c].migratory = IF Migratable(s, p) THEN @ + 1 ELSE @]
      seen == update_rt_migration(counted, c)
  IN IF p # Current(s, c) /\ Migratable(s, p) THEN enqueue_pushable_task(seen, c, p)
     ELSE seen

\* spent says that the time up to now, once charged, exceeds the runtime.
update_curr_rt(s, c) ==
  IF rt_task(s, Current(s, c)) /\ s.rq[c].spent
  THEN [resched_task(s, Current(s, c)) EXCEPT !.rq[c].throttled = TRUE]
  ELSE s

dequeue_rt_entity(s, c, p) ==
  LET prev == highest_prio(s, c)
      unlisted == [s EXCEPT !.rq[c].active = RemoveFirst(@, p)]
      counted == [dec_rt_prio_smp(unlisted, c, s.task[p].prio, prev) EXCEPT
                    !.rq[c].migratory = IF Migratable(s, p) THEN @ - 1 ELSE @]
  IN dequeue_pushable_task(update_rt_migration(counted, c), c, p)
dequeue_task_rt(s, c, p) == dequeue_rt_entity(update_curr_rt(s, c), c, p)

activate_task(s, c, p) ==
  [IF rt_task(s, p) THEN enqueue_task_rt(s, c, p) ELSE s EXCEPT !.task[p].on_rq = TRUE]
deactivate_task(s, c, p) ==
  [IF rt_task(s, p) THEN dequeue_task_rt(s, c, p) ELSE s EXCEPT !.task[p].on_rq = FALSE]
set_task_cpu(s, p, c) == [s EXCEPT !.task[p].cpu = c]
Move(s, p, from, to) ==
  activate_task(set_task_cpu(deactivate_task(s, from, p), p, to), to, p)

-----------------------------------------------------------------------------
(* Where to run a task.                                                    *)

\* cpupri_find (sched_cpupri.c, not in this repository): the allowed CPUs of
\* the lowest priority there is below p's; cpupri_set is in inc_ and dec_.
cpupri_find(s, p) ==
  LET below == {c \in s.task[p].cpus_allowed : s.rd.cpupri[c] > s.task[p].prio}
  IN {c \in below : \A d \in below : s.rd.cpupri[d] <= s.rd.cpupri[c]}

pick_optimal_cpu(this_cpu, mask) == IF this_cpu \in mask THEN this_cpu ELSE Min(mask)
find_lowest_rq(s, p, this_cpu) ==
  LET lowest == cpupri_find(s, p)
  IN CASE ~ Migratable(s, p) \/ lowest = {} -> None
       [] Migratable(s, p) /\ s.task[p].cpu \in lowest -> s.task[p].cpu
       [] OTHER -> pick_optimal_cpu(this_cpu, lowest)

\* The CPUs that select_task_rq may answer.
select_task_rq(s, p, this_cpu) ==
  LET cpu == s.task[p].cpu
      found == find_lowest_rq(s, p, this_cpu)
  IN CASE ~ rt_task(s, p) -> s.task[p].cpus_allowed
       [] rt_task(s, p) /\ rt_prio(CurrPrio(s, cpu)) /\ found # None -> {found}
       [] OTHER -> {cpu}

\* need_resched() asks about the CPU that executes, this_cpu.
check_preempt_equal_prio(s, c, p) ==
  IF \/ ~ Migratable(s, Current(s, c))
     \/ Migratable(s, p) /\ cpupri_find(s, p) # {}
     \/ cpupri_find(s, Current(s, c)) = {}
  THEN s
  ELSE LET off == RemoveFirst(s.rq[c].active, p)
       IN resched_task([s EXCEPT !.rq[c].active =
                          IF p \in ToSet(@) THEN AddHead(s, off, p) ELSE @], Current(s, c))

\* The states that check_preempt_curr may lead to: of two fair tasks, either
\* may win.
check_preempt_curr(s, c, p, this_cpu) ==
  LET curr == Current(s, c) IN
  CASE s.task[p].prio < CurrPrio(s, c) -> {resched_task(s, curr)}
    [] rt_prio(CurrPrio(s, c)) /\ s.task[p].prio = CurrPrio(s, c)
         /\ ~ s.task[Current(s, this_cpu)].resched -> {check_preempt_equal_prio(s, c, p)}
    [] s.task[p].prio = MAX_RT_PRIO /\ CurrPrio(s, c) = MAX_RT_PRIO -> {s, resched_task(s, curr)}
    [] OTHER -> {s}

-----------------------------------------------------------------------------
(* Calls and locks.                                                        *)

Waiting(s, p) == s.task[p].on_rq /\ rt_task(s, p) /\ s.rq[s.task[p].cpu].curr # p
\* Nobody pushes or pulls for a change of a task that does not run.
Changed(s) == \E p \in Tasks :
  /\ \/ s.task[p].prio # task[p].prio
     \/ s.task[p].cpus_allowed # task[p].cpus_allowed
  /\ rq[task[p].cpu].curr # p
\* A task that may move, behind another, of lower priority than next says.
Hidden(s, p) == /\ Waiting(s, p)
                /\ Cardinality(s.task[p].cpus_allowed) > 1
                /\ s.rq[s.task[p].cpu].next > s.task[p].prio
                /\ p # Head(s.rq[s.task[p].cpu].active)
\* A task that may move and is no longer to be pushed, though it is more urgent
\* than what runs here still or, after RT_MAX_TRIES, could run elsewhere.
GivenUp(s, p) == LET q == s.rq[s.task[p].cpu] IN
  /\ Waiting(s, p) /\ Cardinality(s.task[p].cpus_allowed) > 1
  /\ p \notin ToSet(q.pushable)
  /\ \/ s.task[p].prio < CurrPrio(s, s.task[p].cpu)
     \/ /\ p \in ToSet(rq[s.task[p].cpu].pushable)
        /\ \E c \in s.task[p].cpus_allowed : s.rd.cpupri[c] > s.task[p].prio
BecomeLeaving(s, kept) ==
  /\ task' = s.task /\ rq' = s.rq /\ rd' = s.rd
  /\ left' = {p \in Tasks : /\ Waiting(s, p) /\ s.task[p].cpu = task[p].cpu
                            /\ \/ p \in left \cup kept \/ Hidden(s, p) \/ GivenUp(s, p)
                               \/ Changed(s)}
  /\ pulled' = {p \in pulled : Waiting(s, p) /\ s.task[p].cpu = task[p].cpu}
                 \cup {p \in Tasks : s.task[p].cpu # task[p].cpu /\ \E c \in CPUs :
                        frame[c].op \in {"from_rt", "prio"} /\ frame[c].rq = s.task[p].cpu}
Become(s) == BecomeLeaving(s, {})

Free(c) == lock[c] = None
Idle(c) == frame[c].pc = "none"

\* CPU c ends its call in state s and drops what it holds.
Return(c, s) ==
  /\ Become(s)
  /\ frame' = [frame EXCEPT ![c] = NoFrame]
  /\ lock' = [r \in CPUs |-> IF lock[r] = c THEN None ELSE lock[r]]

\* CPU c goes on in f, holding exactly the locks in held.
Continue(c, s, f, held) ==
  /\ Become(s)
  /\ frame' = [frame EXCEPT ![c] = f]
  /\ lock' = [r \in CPUs |-> IF r \in held THEN c ELSE IF lock[r] = c THEN None ELSE lock[r]]

\* Faulty variant: waits for the other lock with this one held, in any order.
HoldAndWait(f, other) ==
  [f EXCEPT !.other = other, !.want = IF Free(other) THEN <<>> ELSE <<other>>,
            !.dropped = FALSE]

\* double_lock_balance of this run queue and another: what is left to take and
\* whether this lock is dropped for it.
double_lock_balance(f, other) ==
  LET r == f.rq
      ordered == IF r < other THEN <<r, other>> ELSE <<other, r>>
  IN CASE PREEMPT -> [f EXCEPT !.other = other, !.want = ordered, !.dropped = TRUE]
       [] ~ PREEMPT /\ Free(other) -> [f EXCEPT !.other = other, !.want = <<>>, !.dropped = FALSE]
       [] ~ PREEMPT /\ ~ Free(other) /\ other < r ->
            [f EXCEPT !.other = other, !.want = <<other, r>>, !.dropped = TRUE]
       [] OTHER -> [f EXCEPT !.other = other, !.want = <<other>>, !.dropped = FALSE]

-----------------------------------------------------------------------------
(* push_rt_task and push_rt_tasks.  f is the frame of CPU c, which holds    *)
(* the lock of f.rq; f.p is the task to push.                              *)

\* The callers: check_resched of switched_to_rt is about its own task f.p0.
PushReturns(c, f, s, moved) ==
  Return(c, IF /\ f.op = "to_rt"
               /\ ~ (moved /\ s.task[f.p0].cpu # f.rq)
               /\ s.task[f.p0].prio < CurrPrio(s, f.rq)
            THEN resched_task(s, Current(s, f.rq)) ELSE s)

\* push_rt_task returned 1.
PushAgain(c, f, s) ==
  IF f.op = "to_rt" THEN PushReturns(c, f, s, TRUE)
  ELSE Continue(c, s, [f EXCEPT !.pc = "push", !.p = None, !.other = None, !.want = <<>>,
                                !.dropped = FALSE, !.tries = 0], {f.rq})

\* No lowest_rq: the other CPUs will pull a task that has not moved.
PushFailed(c, f, s) ==
  LET r == f.rq
      listed == s.rq[r].pushable
      same == s.task[f.p].cpu = r /\ listed # <<>> /\ Head(listed) = f.p
  IN CASE same -> PushAgain(c, f, dequeue_pushable_task(s, r, f.p))
       [] ~ same /\ listed = <<>> -> PushAgain(c, f, s)
       [] OTHER -> Continue(c, s, [NoFrame EXCEPT !.pc = "push", !.op = f.op, !.rq = r,
                                     !.p = Head(listed), !.p0 = f.p0], {r})

\* Faulty variant: does not look again where the task is after the lock was dropped.
NothingShifted(s, f) == FALSE

\* find_lock_lowest_rq has both locks, and push_rt_task moves the task.
TaskShifted(s, f) ==
  \/ s.task[f.p].cpu # f.rq
  \/ f.other \notin s.task[f.p].cpus_allowed
  \/ Current(s, f.rq) = f.p
  \/ ~ s.task[f.p].on_rq
PushLocked(c, f, s) ==
  CASE f.dropped /\ TaskShifted(s, f) -> PushFailed(c, f, s)
    [] ~ (f.dropped /\ TaskShifted(s, f)) /\ highest_prio(s, f.other) > s.task[f.p].prio ->
         PushAgain(c, f, resched_task(Move(s, f.p, f.rq, f.other), Current(s, f.other)))
    [] OTHER -> IF f.tries + 1 = RT_MAX_TRIES THEN PushFailed(c, f, s)
                ELSE Continue(c, s, [f EXCEPT !.pc = "find", !.tries = @ + 1], {f.rq})

find_lock_lowest_rq(c, f, s) ==
  LET cpu == find_lowest_rq(s, f.p, c)
      g == double_lock_balance(f, cpu)
  IN CASE cpu \in {None, f.rq} -> PushFailed(c, f, s)
       [] cpu \notin {None, f.rq} /\ g.want = <<>> -> PushLocked(c, g, s)
       [] OTHER -> Continue(c, s, [g EXCEPT !.pc = "push_lock"],
                            IF g.dropped THEN {} ELSE {f.rq})

push_rt_task(c) ==
  LET f == frame[c]
      s == State
      r == f.rq
      none == f.p = None /\ (~ s.rq[r].overloaded \/ s.rq[r].pushable = <<>>)
      p == IF f.p # None THEN f.p ELSE Head(s.rq[r].pushable)
  IN /\ f.pc = "push"
     /\ CASE none \/ p = Current(s, r) -> PushReturns(c, f, s, FALSE)
          [] ~ none /\ s.task[p].prio < CurrPrio(s, r) ->
               PushReturns(c, f, resched_task(s, Current(s, r)), FALSE)
          [] OTHER -> find_lock_lowest_rq(c, [f EXCEPT !.p = p], s)

find_again(c) == frame[c].pc = "find" /\ find_lock_lowest_rq(c, frame[c], State)

-----------------------------------------------------------------------------
(* schedule.                                                               *)

\* Whether _pick_next_task_rt has a task.  No task is boosted (rt_nr_boosted).
PicksRt(s, c) == s.rq[c].active # <<>> /\ ~ s.rq[c].throttled

\* put_prev_task, which charges the task that ran, pick_next_task and the switch;
\* finish_task_switch drops the lock and calls post_schedule after a switch to a
\* real-time task only.
SwitchFrom(c, s) ==
  LET prev == Current(s, c)
      put == IF rt_task(s, prev) /\ s.task[prev].on_rq /\ Migratable(s, prev)
             THEN enqueue_pushable_task(s, c, prev) ELSE s
      fair == {p \in Tasks : s.task[p].on_rq /\ s.task[p].cpu = c /\ ~ rt_task(s, p)}
      nexts == CASE PicksRt(s, c) -> {Head(s.rq[c].active)}
                 [] ~ PicksRt(s, c) /\ fair # {} -> fair
                 [] OTHER -> {c}
  IN \E next \in nexts :
       LET picked == IF rt_task(s, next) THEN dequeue_pushable_task(put, c, next) ELSE put
           t == [picked EXCEPT !.rq[c].curr = next]
           post == next # prev /\ rt_task(t, next) /\ t.rq[c].pushable # <<>>
           kept == next = prev /\ PicksRt(s, c)
       IN /\ BecomeLeaving(t, IF kept THEN ToSet(t.rq[c].active) ELSE {})
          /\ frame' = [frame EXCEPT ![c] = IF post THEN [NoFrame EXCEPT !.pc = "post"]
                                           ELSE NoFrame]
          /\ lock' = [lock EXCEPT ![c] = None]
ScheduleEnd(c, s) == SwitchFrom(c, update_curr_rt(s, c))

PullReturns(c, f, s) ==
  LET r == f.rq IN
  CASE f.op = "schedule" -> ScheduleEnd(c, s)
    [] f.op = "prio" ->
         Return(c, IF s.task[f.p0].prio > highest_prio(s, r) /\ Current(s, r) = f.p0
                   THEN resched_task(s, f.p0) ELSE s)
    [] f.op = "from_rt" /\ f.running -> Return(c, resched_task(s, Current(s, r)))
    [] OTHER -> \E t \in check_preempt_curr(s, r, f.p0, c) : Return(c, t)

-----------------------------------------------------------------------------
(* pull_rt_task to f.rq, which CPU c has locked; f.other is where the walk   *)
(* over rto_mask has come to.                                              *)

PullLocked(c, f, s) ==
  LET r == f.rq
      src == f.other
      p == pick_next_highest_task_rt(s, src, r)
      pulls == /\ Len(s.rq[src].active) > 1
               /\ p # None
               /\ s.task[p].prio < highest_prio(s, r)
               /\ s.task[p].prio >= CurrPrio(s, src)
  IN Continue(c, IF pulls THEN Move(s, p, src, r) ELSE s,
              [f EXCEPT !.pc = "pull", !.want = <<>>, !.dropped = FALSE], {r})

\* Faulty variant: a lower CPU does not pull from the CPUs below it.
PullsUpwards(c) ==
  LET f == frame[c]
      s == State
      srcs == {src \in s.rd.rto_mask : src > f.rq /\ (f.other # None => src > f.other)
                                       /\ s.rq[src].next < highest_prio(s, f.rq)}
      g == double_lock_balance(f, Min(srcs))
  IN /\ f.pc = "pull"
     /\ CASE srcs = {} -> PullReturns(c, f, s)
          [] srcs # {} /\ g.want = <<>> -> PullLocked(c, g, s)
          [] OTHER -> Continue(c, s, [g EXCEPT !.pc = "pull_lock"],
                               IF g.dropped THEN {} ELSE {f.rq})

\* highest_prio.next of the other run queues is read without their locks.
pull_rt_task(c) ==
  LET f == frame[c]
      s == State
      srcs == {src \in s.rd.rto_mask : /\ f.other # None => src > f.other
                                       /\ src # f.rq
                                       /\ s.rq[src].next < highest_prio(s, f.rq)}
      g == double_lock_balance(f, Min(srcs))
  IN /\ f.pc = "pull"
     /\ CASE srcs = {} -> PullReturns(c, f, s)
          [] srcs # {} /\ g.want = <<>> -> PullLocked(c, g, s)
          [] OTHER -> Continue(c, s, [g EXCEPT !.pc = "pull_lock"],
                               IF g.dropped THEN {} ELSE {f.rq})

\* The locks that double_lock_balance still wants.
take_lock(c) ==
  LET f == frame[c]
      g == [f EXCEPT !.want = Tail(@)]
  IN /\ f.pc \in {"push_lock", "pull_lock"}
     /\ Free(Head(f.want))
     /\ CASE g.want # <<>> ->
               Continue(c, State, g, {Head(f.want)} \cup {r \in CPUs : lock[r] = c})
          [] g.want = <<>> /\ f.pc = "push_lock" -> PushLocked(c, g, State)
          [] OTHER -> PullLocked(c, g, State)

__schedule(c) ==
  LET prev == Current(State, c)
      s == [State EXCEPT !.task[prev].resched = FALSE]
  IN /\ Idle(c) /\ Free(c)
     /\ task[prev].sleeping \/ task[prev].resched
     /\ \E preempted \in {PREEMPT /\ task[prev].resched, FALSE} :
          LET t == IF task[prev].sleeping /\ ~ preempted THEN deactivate_task(s, c, prev)
                   ELSE s
          IN IF rt_task(t, prev) /\ highest_prio(t, c) > t.task[prev].prio
             THEN Continue(c, t, [NoFrame EXCEPT !.pc = "pull", !.op = "schedule", !.rq = c],
                           {c})
             ELSE ScheduleEnd(c, t)

post_schedule_rt(c) ==
  /\ frame[c].pc = "post" /\ Free(c)
  /\ Continue(c, State, [NoFrame EXCEPT !.pc = "push", !.op = "post", !.rq = c], {c})

-----------------------------------------------------------------------------
(* Throttling.                                                             *)

\* Time passes: the task that runs here has used up what is left of the runtime.
RunOut(c) ==
  /\ c \in Limited /\ rt_task(State, Current(State, c)) /\ ~ rq[c].spent
  /\ rq' = [rq EXCEPT ![c].spent = TRUE]
  /\ UNCHANGED <<task, rd, lock, frame, left, pulled>>

\* Interrupts are on between calls, and in one only where it has dropped its
\* lock by spin_unlock_irqrestore.
Interruptible(c) == frame[c].pc \in {"none", "waking", "post"}

\* scheduler_tick; the slices of SCHED_RR are left to CpuSched.
task_tick_rt(c) ==
  /\ Interruptible(c) /\ Free(c)
  /\ rt_task(State, Current(State, c)) /\ rq[c].spent
  /\ Become(update_curr_rt(State, c))
  /\ UNCHANGED <<lock, frame>>

\* Faulty variant: nobody is told that the queue runs again.
UnthrottlesSilently(c, r) ==
  /\ Interruptible(c) /\ Free(r) /\ rq[r].spent
  /\ Become([State EXCEPT !.rq[r].spent = FALSE, !.rq[r].throttled = FALSE])
  /\ UNCHANGED <<lock, frame>>

\* The period timer, on CPU c, comes to the run queue r with enough to take off
\* its rt_time.  sched_rt_rq_enqueue asks for a reschedule only if what waits is
\* more urgent than what runs.
do_sched_rt_period_timer(c, r) ==
  LET refilled == [State EXCEPT !.rq[r].spent = FALSE, !.rq[r].throttled = FALSE]
      lifts == rq[r].throttled
      urgent == rq[r].active # <<>> /\ highest_prio(State, r) < CurrPrio(State, r)
  IN /\ Interruptible(c) /\ Free(r) /\ rq[r].spent
     /\ \/ lifts /\ urgent /\ Become(resched_task(refilled, Current(State, r)))
        \/ lifts /\ ~ urgent /\ BecomeLeaving(refilled, ToSet(rq[r].active))
        \/ ~ lifts /\ Become(refilled)
     /\ UNCHANGED <<lock, frame>>

-----------------------------------------------------------------------------
(* Wake-ups and changes of a task, by CPU c.                                *)

\* set_current_state before schedule.
set_current_state(c) ==
  /\ Idle(c)
  /\ Current(State, c) \in Tasks \cap Sleepers
  /\ ~ task[Current(State, c)].sleeping
  /\ task' = [task EXCEPT ![Current(State, c)].sleeping = TRUE]
  /\ UNCHANGED <<rq, rd, lock, frame, left, pulled>>

\* try_to_wake_up from out_running on, with task_wake_up_rt.
OutRunning(c, s, p) ==
  LET r == s.task[p].cpu IN
  \E t \in check_preempt_curr(s, r, p, c) :
    LET woken == [t EXCEPT !.task[p].sleeping = FALSE]
        push == /\ rt_task(t, p)
                /\ p # Current(t, r)
                /\ ~ t.task[Current(t, r)].resched
                /\ t.rq[r].pushable # <<>>
                /\ Migratable(t, p)
    IN IF push
       THEN Continue(c, woken, [NoFrame EXCEPT !.pc = "push", !.op = "wake", !.rq = r], {r})
       ELSE Return(c, woken)

OutActivate(c, s, p) == OutRunning(c, activate_task(s, s.task[p].cpu, p), p)

try_to_wake_up(c, p) ==
  LET s == State
      r == task[p].cpu
  IN /\ Idle(c) /\ Free(r)
     /\ task[p].sleeping
     /\ CASE task[p].on_rq -> OutRunning(c, s, p)
          [] ~ task[p].on_rq /\ Current(s, r) = p -> OutActivate(c, s, p)
          [] OTHER -> \E cpu \in select_task_rq(s, p, c) :
               IF cpu = r THEN OutActivate(c, s, p)
               ELSE Continue(c, set_task_cpu(s, p, cpu),
                             [NoFrame EXCEPT !.pc = "waking", !.p = p], {})

\* After task_rq_lock is taken again, of where the task is now.
wake_on_new_rq(c) ==
  LET p == frame[c].p
      s == State
  IN /\ frame[c].pc = "waking"
     /\ Free(task[p].cpu)
     /\ CASE ~ task[p].sleeping -> Return(c, s)
          [] task[p].sleeping /\ task[p].on_rq -> OutRunning(c, s, p)
          [] OTHER -> OutActivate(c, s, p)

\* __sched_setscheduler, with check_class_changed.  Where nothing is throttled
\* rt_mutex_setprio takes the same steps.
switched_to_fair(c, s, p, running) ==
  LET r == s.task[p].cpu IN
  IF running THEN Return(c, resched_task(s, Current(s, r)))
  ELSE \E t \in check_preempt_curr(s, r, p, c) : Return(c, t)
check_class_changed(c, s, p, oldprio, running) ==
  LET r == s.task[p].cpu
      prio == s.task[p].prio
      pull == [NoFrame EXCEPT !.pc = "pull", !.rq = r, !.p0 = p, !.running = running]
  IN CASE rt_prio(oldprio) /\ ~ rt_prio(prio) ->
            IF s.rq[r].active = <<>> THEN Continue(c, s, [pull EXCEPT !.op = "from_rt"], {r})
            ELSE switched_to_fair(c, s, p, running)
       [] ~ rt_prio(oldprio) /\ rt_prio(prio) ->
            IF running THEN Return(c, s)
            ELSE Continue(c, s, [NoFrame EXCEPT !.pc = "push", !.op = "to_rt", !.rq = r,
                                   !.p0 = p], {r})
       [] rt_prio(oldprio) /\ rt_prio(prio) /\ running /\ oldprio < prio ->
            Continue(c, s, [pull EXCEPT !.op = "prio"], {r})
       [] OTHER ->
            Return(c, IF running /\ prio > highest_prio(s, r) THEN resched_task(s, p)
                      ELSE IF ~ running /\ prio < CurrPrio(s, r)
                           THEN resched_task(s, Current(s, r)) ELSE s)

setscheduler(c, p, prio) ==
  LET s == State
      r == task[p].cpu
      running == Current(s, r) = p
      oldprio == task[p].prio
      off == CASE task[p].on_rq -> deactivate_task(s, r, p)
               [] ~ task[p].on_rq /\ running -> update_curr_rt(s, r)
               [] OTHER -> s
      set == [off EXCEPT !.task[p].prio = prio]
      unlisted == IF running /\ rt_prio(prio) THEN dequeue_pushable_task(set, r, p) ELSE set
  IN /\ Idle(c) /\ Free(r)
     /\ prio # oldprio \/ rt_prio(prio)
     /\ IF task[p].on_rq
        THEN check_class_changed(c, activate_task(unlisted, r, p), p, oldprio, running)
        ELSE Return(c, unlisted)

\* Faulty variant: a task pinned while it waits stays on the pushable list.
PinsPushable(c, p, mask) ==
  LET was == Migratable(State, p)
      now == Cardinality(mask) > 1
      counted == [State EXCEPT !.rq[task[p].cpu].migratory =
                    @ + (IF now THEN 1 ELSE 0) - (IF was THEN 1 ELSE 0)]
      t == [IF rt_task(State, p) /\ task[p].on_rq
            THEN update_rt_migration(counted, task[p].cpu) ELSE State
            EXCEPT !.task[p].cpus_allowed = mask]
  IN /\ Idle(c) /\ Free(task[p].cpu)
     /\ mask # task[p].cpus_allowed
     /\ task[p].cpu \in mask
     /\ Become(t)
     /\ UNCHANGED <<lock, frame>>

\* set_cpus_allowed_ptr, for a queued task of which the new mask holds the
\* CPU: else the migration thread is needed.
set_cpus_allowed(c, p, mask) ==
  LET s == State
      r == task[p].cpu
      was == Migratable(s, p)
      now == Cardinality(mask) > 1
      gone == IF was /\ p # Current(s, r) THEN dequeue_pushable_task(s, r, p) ELSE s
      listed == IF now /\ p # Current(s, r) THEN enqueue_pushable_task(gone, r, p) ELSE gone
      counted == [listed EXCEPT !.rq[r].migratory =
                    @ + (IF now THEN 1 ELSE 0) - (IF was THEN 1 ELSE 0)]
      changes == Cardinality(mask) # Cardinality(task[p].cpus_allowed)
      t == [IF rt_task(s, p) /\ task[p].on_rq /\ changes THEN update_rt_migration(counted, r)
            ELSE s EXCEPT !.task[p].cpus_allowed = mask]
      sleeps == ~ task[p].on_rq /\ Current(s, r) # p
  IN /\ Idle(c) /\ Free(r)
     /\ mask # task[p].cpus_allowed
     /\ \/ r \in mask /\ Become(t)
        \/ r \notin mask /\ sleeps /\ \E dest \in mask : Become(set_task_cpu(t, p, dest))
     /\ UNCHANGED <<lock, frame>>

-----------------------------------------------------------------------------
Init ==
  /\ task = [t \in Threads |->
               IF t \in Tasks
               THEN [prio |-> BootPrio[t], cpus_allowed |-> CPUs, cpu |-> Min(CPUs),
                     on_rq |-> FALSE, sleeping |-> TRUE, resched |-> FALSE]
               ELSE [prio |-> MAX_RT_PRIO + 1, cpus_allowed |-> {t}, cpu |-> t,
                     on_rq |-> TRUE, sleeping |-> FALSE, resched |-> FALSE]]
  /\ rq = [c \in CPUs |-> [curr |-> c, active |-> <<>>, pushable |-> <<>>,
                           next |-> MAX_RT_PRIO, migratory |-> 0, overloaded |-> FALSE,
                           throttled |-> FALSE, spent |-> FALSE]]
  /\ rd = [rto_mask |-> {}, cpupri |-> [c \in CPUs |-> MAX_RT_PRIO]]
  /\ lock = [c \in CPUs |-> None]
  /\ frame = [c \in CPUs |-> NoFrame]
  /\ left = {} /\ pulled = {}

\* What a CPU does with a lock to take or held, and what it starts.
Step(c) ==
  \/ push_rt_task(c)
  \/ find_again(c)
  \/ pull_rt_task(c)
  \/ take_lock(c)
  \/ post_schedule_rt(c)
  \/ wake_on_new_rq(c)
Next ==
  \E c \in CPUs :
    \/ Step(c)
    \/ __schedule(c)
    \/ set_current_state(c)
    \/ RunOut(c)
    \/ task_tick_rt(c)
    \/ \E r \in CPUs : do_sched_rt_period_timer(c, r)
    \/ \E p \in Tasks :
         \/ try_to_wake_up(c, p)
         \/ p \in Adjustable /\ \E prio \in Prios : setscheduler(c, p, prio)
         \/ p \in Pinnable /\ \E mask \in Masks : set_cpus_allowed(c, p, mask)

Spec == Init /\ [][Next]_vars

-----------------------------------------------------------------------------
(* Properties.                                                             *)

TypeOK ==
  /\ task \in [Threads -> TaskStruct]
  /\ DOMAIN rq = CPUs
  /\ \A c \in CPUs : /\ rq[c].curr \in Threads
                     /\ ToSet(rq[c].active) \cup ToSet(rq[c].pushable) \subseteq Tasks
                     /\ rq[c].next \in 0 .. MAX_RT_PRIO
                     /\ rq[c].migratory \in Int /\ rq[c].overloaded \in BOOLEAN
                     /\ frame[c].pc \in Pcs
  /\ rd.rto_mask \subseteq CPUs /\ rd.cpupri \in [CPUs -> 0 .. MAX_RT_PRIO]
  /\ lock \in [CPUs -> CPUs \cup {None}]
  /\ left \subseteq Tasks /\ pulled \subseteq Tasks

\* However pushes, pulls, wake-ups and changes of affinity interleave, a queued
\* real-time task is once on the array of its own CPU and of no other, on a CPU
\* it may use, and no CPU runs the task of another (the rechecks of
\* find_lock_lowest_rq after it dropped the lock, sched_rt.c:1244).
OnePlace ==
  /\ \A c \in CPUs :
       /\ IsInjective(rq[c].active)
       /\ \A p \in ToSet(rq[c].active) : task[p].cpu = c /\ task[p].on_rq
       /\ task[rq[c].curr].cpu = c
  /\ \A p \in Tasks :
       task[p].on_rq => /\ task[p].cpu \in task[p].cpus_allowed
                        /\ rt_task(State, p) => p \in ToSet(rq[task[p].cpu].active)

\* Both: the queues are sound whatever moved a task last.
QueuesSound == TypeOK /\ OnePlace

\* The BUG_ONs of pick_next_pushable_task (sched_rt.c:1289): whoever takes the
\* lock finds on the pushable list only queued real-time tasks of this CPU that
\* do not run and may run elsewhere, each once.
PushableSound ==
  \A c \in CPUs :
    /\ IsInjective(rq[c].pushable)
    /\ \A p \in ToSet(rq[c].pushable) :
         /\ task[p].cpu = c /\ task[p].on_rq
         /\ p # rq[c].curr
         /\ rt_task(State, p) /\ Migratable(State, p)

\* What the other CPUs read without the lock is what the queue holds: cpupri is
\* the priority of its first task, and the CPU is in rto_mask when it has two
\* real-time tasks and one may move.
SeenByOthers ==
  \A c \in CPUs :
    LET movable == {p \in ToSet(rq[c].active) : Migratable(State, p)} IN
    /\ rd.cpupri[c] = highest_prio(State, c)
    /\ rq[c].migratory = Cardinality(movable)
    /\ rq[c].overloaded = (movable # {} /\ Len(rq[c].active) > 1)
    /\ (c \in rd.rto_mask) = rq[c].overloaded

\* Both: what a CPU offers to push, and what the others know of it, is what its
\* queue holds.
OffersSound == PushableSound /\ SeenByOthers

\* The CPUs that wait for run queue locks never wait for each other in a circle
\* (double_lock_balance, sched.c:1723, which may give up its own lock first).
WaitsFor(c) ==
  LET f == frame[c] IN
  {lock[w] : w \in IF f.pc \in {"push_lock", "pull_lock"} THEN {Head(f.want)} ELSE {}} \ {None}
NoDeadlock ==
  \A S \in (SUBSET CPUs) \ {{}} : ~ \A c \in S : WaitsFor(c) \cap S # {}

\* A task more urgent than the one that runs on its CPU waits only until the
\* reschedule that somebody has asked for, or the schedule that is under way,
\* unless its queue is throttled, and from the moment it is not any more; but
\* for a task that switched_from_rt or prio_changed_rt pulled: both may find
\* that the CPU has switched meanwhile, and ask for none.
Asked(c) ==
  \/ task[rq[c].curr].resched
  \/ \E d \in CPUs : frame[d].rq = c /\ frame[d].op \in {"schedule", "prio", "from_rt", "to_rt"}
UrgentWaits(c) == PicksRt(State, c) /\ highest_prio(State, c) < CurrPrio(State, c)
PreemptPending ==
  \A c \in CPUs : UrgentWaits(c) => Asked(c) \/ Head(rq[c].active) \in pulled

\* The comment at sched_rt.c:1669, after a pull: if there is a higher priority
\* task waiting to run then reschedule.
PulledTaskRuns == \A c \in CPUs : UrgentWaits(c) => Asked(c)

\* When no call is under way and no reschedule is due.
Quiet == \A c \in CPUs : Idle(c) /\ ~ task[rq[c].curr].resched

\* A real-time task that waits, while a CPU it may use runs less urgent work.
CouldRunElsewhere(p) ==
  /\ Waiting(State, p) /\ ~ rq[task[p].cpu].throttled
  /\ Migratable(State, p)
  /\ \E c \in task[p].cpus_allowed : highest_prio(State, c) > task[p].prio

\* Pushing and pulling leave no real-time task behind while another CPU runs
\* less urgent work, but for seven cases: its queue is throttled, as long as it
\* is, or was when it came to wait behind an equal task or a better one that runs;
\* the affinity or the priority of a task was changed that did not run; schedule
\* kept the task it ran and pushed nothing; highest_prio.next hid the task from
\* pull_rt_task; a push gave it up before the reschedule was done or after three
\* tries; setscheduler pulled it.
NoneLeftBehind == Quiet => \A p \in Tasks : CouldRunElsewhere(p) => p \in left \cup pulled

\* The comment at sched_rt.c:1409: a run queue is skipped when its next highest
\* task is known to be of lower priority, so that a task that waits behind
\* another and may move is never hidden.
NextKnown == \A p \in Tasks : ~ Hidden(State, p)
=============================================================================
