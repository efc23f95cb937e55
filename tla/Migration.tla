----------------------------- MODULE Migration ------------------------------
(***************************************************************************)
(* Moving one task on request, and every task off a CPU that goes away:    *)
(* sched_setaffinity and sched_exec queue a request for the migration      *)
(* thread of the task's CPU and wait on its completion, while CPUs are     *)
(* taken down and brought up (src/sched.c:1997-2060, 3007-3043, 6235-6300, *)
(* 6812-7145, 7346-7455).  A step is what runs under one hold of rq->lock, *)
(* or with interrupts off.  The notifier chain and stop_machine            *)
(* (kernel/cpu.c) are external: they call migration_call in this order and *)
(* clear cpu_active_mask before they wait for the readers of the hotplug   *)
(* lock.  The completion is Completion.tla's, here a flag.                 *)
(***************************************************************************)
EXTENDS Integers, FiniteSets, SequencesExt

CONSTANTS
    CPUs,       \* numbered; the migration thread of a CPU goes by its number
    Tasks,      \* the tasks; each may call, and be the subject of a call
    HotCPU,     \* the CPU that is taken down and brought up
    Mortal,     \* bound: the tasks that exit
    Masks,      \* affinities given to sched_setaffinity
    MaxCalls,   \* bound: calls of sched_setaffinity and sched_exec
    MaxDowns,   \* bound: calls of cpu_down
    None        \* no thread: the idle task

ASSUME CPUsAssumption == CPUs \subseteq Nat /\ HotCPU \in CPUs /\ CPUs # {HotCPU}
ASSUME MasksAssumption == Masks \subseteq (SUBSET CPUs) \ {{}}
(* Names only: a finite number of threads, and nobody goes by two names. *)
ASSUME ThreadsAssumption ==
    /\ IsFiniteSet(Tasks) /\ IsFiniteSet(CPUs)
    /\ Tasks \intersect CPUs = {} /\ None \notin Tasks \union CPUs

VARIABLES
    thread,     \* [cpu, allowed, on] of each task and migration thread
    curr,       \* rq->curr
    call,       \* where each task is in a call: "user", "kick" (request
                \* queued, lock dropped), "wait", "exiting" (off the task
                \* list, still queued), "gone"; and its migration_req
    done,       \* the tasks whose request was completed
    queue,      \* rq->migration_queue, the requests named by their callers
    mt,         \* where each migration thread is, its task state, the
                \* request it took off the queue
    online, active,     \* cpu_online_mask, cpu_active_mask
    hot,        \* where cpu_down or cpu_up of HotCPU is, the threads that
                \* migrate_live_tasks has still to visit
    calls, downs,       \* bound counters
    gaveup      \* auxiliary: tasks whose request met an inactive CPU

vars == <<thread, curr, call, done, queue, mt, online, active, hot, calls, downs, gaveup>>

Threads == Tasks \union CPUs
TaskList == SetToSeq(Threads)
InUser == [pc |-> "user", op |-> "none", p |-> None, dest |-> None, rq |-> None]
NoHand == None

Running(x) == curr[thread[x].cpu] = x
(* A thread in kernel or user mode with interrupts on. *)
Runs(x) == Running(x) /\ thread[x].on
(* Interrupts are off on a CPU whose migration thread has a request in hand *)
(* or whose current thread is in the middle of schedule().                  *)
Leaving(c) == IF curr[c] = None THEN FALSE ELSE ~thread[curr[c]].on
Holding(c) == IF curr[c] \in CPUs THEN mt[curr[c]].pc = "hold" ELSE FALSE
IrqsOff(c) == Leaving(c) \/ Holding(c)

Init ==
    /\ \E home \in [Tasks -> CPUs] :
          thread = [x \in Threads |->
                      IF x \in Tasks THEN [cpu |-> home[x], allowed |-> CPUs, on |-> TRUE]
                      ELSE [cpu |-> x, allowed |-> {x}, on |-> FALSE]]
    /\ curr = [c \in CPUs |-> None]
    /\ call = [t \in Tasks |-> InUser]
    /\ done = {} /\ gaveup = {}
    /\ queue = [c \in CPUs |-> <<>>]
    /\ mt = [c \in CPUs |-> [pc |-> "sched", intr |-> TRUE, hand |-> NoHand]]
    /\ online = CPUs /\ active = CPUs
    /\ hot = [phase |-> "up", todo |-> <<>>]
    /\ calls = 0 /\ downs = 0

-----------------------------------------------------------------------------
(* Where a wakeup may put a task: where it was, which is where the classes *)
(* fall back to, or on an allowed online CPU.                              *)
select_task_rq(t) == {thread[t].cpu} \union (thread[t].allowed \intersect online)

(* try_to_wake_up of a task: queued where it runs when it is still in the  *)
(* middle of the schedule() that takes it off.                             *)
TryToWakeUp(t) ==
    IF thread[t].on THEN UNCHANGED thread
    ELSE \E c \in IF Running(t) THEN {thread[t].cpu} ELSE select_task_rq(t) :
            thread' = [thread EXCEPT ![t].on = TRUE, ![t].cpu = c]

(* wake_up_process of a migration thread, which may be about to sleep. *)
WakeMigrationThread(c) ==
    IF mt[c].pc = "none" THEN UNCHANGED <<thread, mt>>
    ELSE /\ mt' = [mt EXCEPT ![c].intr = FALSE]
         /\ thread' = [thread EXCEPT ![c].on = TRUE]

Queued(c) == {x \in Threads : thread[x].cpu = c /\ thread[x].on}

(* schedule() on a CPU: a migration thread first, which runs until it      *)
(* sleeps (they are SCHED_FIFO), then any task.  On a CPU that has gone    *)
(* offline sched_idle_next has put the idle task, at the same priority as  *)
(* the migration thread, before every task.                                *)
Schedule(c) ==
    /\ ~Holding(c)
    /\ c \in online \/ hot.phase = "dying"
    /\ LET mts == Queued(c) \intersect CPUs
           pick == IF c \notin online THEN mts \union {None}
                   ELSE IF curr[c] \in mts THEN {curr[c]}
                   ELSE IF mts # {} THEN mts
                   ELSE IF Queued(c) # {} THEN Queued(c) ELSE {None}
       IN \E x \in pick \ {curr[c]} :
            /\ c \notin online => curr[c] = None \/ Leaving(c)
            /\ curr' = [curr EXCEPT ![c] = x]
    /\ UNCHANGED <<thread, call, done, queue, mt, online, active, hot, calls, downs, gaveup>>

Block(t) ==
    /\ Runs(t) /\ call[t].pc = "user"
    /\ thread' = [thread EXCEPT ![t].on = FALSE]
    /\ UNCHANGED <<curr, call, done, queue, mt, online, active, hot, calls, downs, gaveup>>

Wakeup(t) ==
    /\ ~thread[t].on /\ call[t].pc = "user"
    /\ TryToWakeUp(t)
    /\ UNCHANGED <<curr, call, done, queue, mt, online, active, hot, calls, downs, gaveup>>

(* An exiting task leaves the task list before its last schedule().        *)
Exit(t) ==
    /\ t \in Mortal /\ Runs(t)
    /\ \/ /\ call[t].pc = "user"
          /\ call' = [call EXCEPT ![t].pc = "exiting"] /\ UNCHANGED thread
       \/ /\ call[t].pc = "exiting"
          /\ call' = [call EXCEPT ![t].pc = "gone"]
          /\ thread' = [thread EXCEPT ![t].on = FALSE]
    /\ UNCHANGED <<curr, done, queue, mt, online, active, hot, calls, downs, gaveup>>

-----------------------------------------------------------------------------
(* Callers.                                                                *)

(* Faulty variant: a task that is off its queue but still current, in the  *)
(* middle of schedule(), has its CPU changed at once.                      *)
MovesCurrent(t, op, p, dest, th) ==
    IF ~th[p].on
    THEN /\ thread' = [th EXCEPT ![p].cpu = dest]
         /\ UNCHANGED <<call, done, queue>>
    ELSE /\ thread' = th
         /\ call' = [call EXCEPT ![t] = [pc |-> "kick", op |-> op, p |-> p, dest |-> dest,
                                         rq |-> th[p].cpu]]
         /\ done' = done \ {t}
         /\ queue' = [queue EXCEPT ![th[p].cpu] = <<t>> \o @]

(* migrate_task, in the call op of t: th is thread with the new affinity.  *)
migrate_task(t, op, p, dest, th) ==
    IF ~th[p].on /\ ~Running(p)
    THEN /\ thread' = [th EXCEPT ![p].cpu = dest]
         /\ UNCHANGED <<call, done, queue>>
    ELSE /\ thread' = th
         /\ call' = [call EXCEPT ![t] = [pc |-> "kick", op |-> op, p |-> p, dest |-> dest,
                                         rq |-> th[p].cpu]]
         /\ done' = done \ {t}
         /\ queue' = [queue EXCEPT ![th[p].cpu] = <<t>> \o @]

(* sched_setaffinity holds the hotplug lock, which cpu_down takes after it *)
(* has cleared the CPU in cpu_active_mask.                                 *)
get_online_cpus == hot.phase \in {"up", "inactive"}
Readers == {t \in Tasks : call[t].pc \in {"kick", "wait"} /\ call[t].op = "affinity"}

set_cpus_allowed_ptr(t, p, new_mask) ==
    /\ new_mask \intersect online # {}
    /\ LET th == [thread EXCEPT ![p].allowed = new_mask]
       IN IF thread[p].cpu \in new_mask
          THEN thread' = th /\ UNCHANGED <<call, done, queue>>
          ELSE \E dest \in online \intersect new_mask : migrate_task(t, "affinity", p, dest, th)

sched_setaffinity(t, p, in_mask) ==
    /\ calls < MaxCalls /\ calls' = calls + 1
    /\ Runs(t) /\ call[t].pc = "user" /\ call[p].pc \notin {"exiting", "gone"}
    /\ get_online_cpus
    /\ set_cpus_allowed_ptr(t, p, in_mask)
    /\ gaveup' = gaveup \ {p}
    /\ UNCHANGED <<curr, mt, online, active, hot, downs>>

(* sched_exec and sched_migrate_task; sched_balance_self picks the CPU.    *)
sched_exec(t, dest) ==
    /\ calls < MaxCalls /\ calls' = calls + 1
    /\ Runs(t) /\ call[t].pc = "user" /\ dest # thread[t].cpu
    /\ dest \in thread[t].allowed /\ dest \in active
    /\ migrate_task(t, "exec", t, dest, thread)
    /\ UNCHANGED <<curr, mt, online, active, hot, downs, gaveup>>

(* The request is queued and the lock dropped: wake the migration thread.  *)
wake_migration_thread(t) ==
    /\ Runs(t) /\ call[t].pc = "kick"
    /\ call' = [call EXCEPT ![t].pc = "wait"]
    /\ WakeMigrationThread(call[t].rq)
    /\ UNCHANGED <<curr, done, queue, online, active, hot, calls, downs, gaveup>>

wait_for_completion(t) ==
    /\ Runs(t) /\ call[t].pc = "wait"
    /\ \/ /\ t \in done
          /\ call' = [call EXCEPT ![t] = InUser] /\ done' = done \ {t} /\ UNCHANGED thread
       \/ /\ t \notin done
          /\ thread' = [thread EXCEPT ![t].on = FALSE] /\ UNCHANGED <<call, done>>
    /\ UNCHANGED <<curr, queue, mt, online, active, hot, calls, downs, gaveup>>

complete(t) == done' = done \union {t} /\ IF call[t].pc = "wait" THEN TryToWakeUp(t) ELSE UNCHANGED thread
-----------------------------------------------------------------------------
(* The migration thread.                                                   *)

(* Faulty variant: the request is carried out whatever became of the       *)
(* task's affinity since it was queued.                                    *)
MovesRegardless(p, src, dest) ==
    IF dest \in active /\ thread[p].cpu = src
    THEN [thread EXCEPT ![p].cpu = dest] ELSE thread

(* __migrate_task: the task keeps its being queued or not.  Nothing is done *)
(* when it has moved meanwhile, its affinity has changed again, or the     *)
(* destination is no longer active.                                        *)
__migrate_task(p, src, dest) ==
    IF dest \in active /\ thread[p].cpu = src /\ dest \in thread[p].allowed
    THEN [thread EXCEPT ![p].cpu = dest] ELSE thread

kthread_should_stop(c) == c = HotCPU /\ hot.phase \in {"stopping", "canceling"}

Goto(c, pc) == mt' = [mt EXCEPT ![c].pc = pc]

(* The top of the loop, under rq->lock; its task state was set before. *)
migration_thread(c) ==
    /\ Runs(c) /\ mt[c].pc = "top"
    /\ \/ /\ kthread_should_stop(c)
          /\ mt' = [mt EXCEPT ![c] = [pc |-> "none", intr |-> FALSE, hand |-> NoHand]]
          /\ thread' = [thread EXCEPT ![c].on = FALSE]
          /\ UNCHANGED queue
       \/ /\ ~kthread_should_stop(c) /\ c \notin online
          /\ Goto(c, "die") /\ UNCHANGED <<thread, queue>>
       \/ /\ ~kthread_should_stop(c) /\ c \in online /\ queue[c] = <<>>
          /\ Goto(c, "sched") /\ UNCHANGED <<thread, queue>>
       \/ /\ ~kthread_should_stop(c) /\ c \in online /\ queue[c] # <<>>
          /\ mt' = [mt EXCEPT ![c].pc = "hold", ![c].hand = Head(queue[c])]
          /\ queue' = [queue EXCEPT ![c] = Tail(@)]
          /\ UNCHANGED thread
    /\ UNCHANGED <<curr, call, done, online, active, hot, calls, downs, gaveup>>

(* The request it took, with interrupts off; then its completion. *)
HandleRequest(c) ==
    /\ Running(c) /\ mt[c].pc = "hold"
    /\ LET r == call[mt[c].hand]
       IN /\ thread' = __migrate_task(r.p, c, r.dest)
          /\ gaveup' = IF r.dest \in active THEN gaveup ELSE gaveup \union {r.p}
    /\ Goto(c, "complete")
    /\ UNCHANGED <<curr, call, done, queue, online, active, hot, calls, downs>>

CompleteRequest(c) ==
    /\ Runs(c) /\ mt[c].pc = "complete"
    /\ complete(mt[c].hand)
    /\ mt' = [mt EXCEPT ![c].pc = "top", ![c].hand = NoHand]
    /\ UNCHANGED <<curr, call, queue, online, active, hot, calls, downs, gaveup>>

(* Faulty variant: the task state is set after the queue was seen empty,   *)
(* whatever woke the thread in between.                                    *)
SetsStateLate(c) ==
    /\ Runs(c) /\ mt[c].pc = "sched"
    /\ thread' = [thread EXCEPT ![c].on = FALSE]
    /\ UNCHANGED <<curr, call, done, queue, mt, online, active, hot, calls, downs, gaveup>>

(* schedule() with the task state TASK_INTERRUPTIBLE, or not at all when a *)
(* wakeup came since it was set; set_current_state comes after it.         *)
MigrationThreadSleeps(c) ==
    /\ Runs(c) /\ mt[c].pc = "sched" /\ mt[c].intr
    /\ thread' = [thread EXCEPT ![c].on = FALSE]
    /\ UNCHANGED <<curr, call, done, queue, mt, online, active, hot, calls, downs, gaveup>>

set_current_state(c) ==
    /\ Runs(c) /\ mt[c].pc = "sched" /\ ~mt[c].intr
    /\ mt' = [mt EXCEPT ![c].pc = "top", ![c].intr = TRUE]
    /\ UNCHANGED <<thread, curr, call, done, queue, online, active, hot, calls, downs, gaveup>>

(* wait_to_die: the thread of an offline CPU only waits for kthread_stop.  *)
wait_to_die(c) ==
    /\ Runs(c) /\ mt[c].pc = "die"
    /\ IF kthread_should_stop(c)
       THEN mt' = [mt EXCEPT ![c] = [pc |-> "none", intr |-> FALSE, hand |-> NoHand]]
       ELSE UNCHANGED mt
    /\ thread' = [thread EXCEPT ![c].on = FALSE]
    /\ UNCHANGED <<curr, call, done, queue, online, active, hot, calls, downs, gaveup>>
-----------------------------------------------------------------------------
(* CPU hotplug.                                                            *)

Phase(from, to) == hot.phase = from /\ hot' = [hot EXCEPT !.phase = to]

cpu_down ==
    /\ downs < MaxDowns /\ downs' = downs + 1
    /\ Phase("up", "inactive")
    /\ active' = active \ {HotCPU}
    /\ UNCHANGED <<thread, curr, call, done, queue, mt, online, calls, gaveup>>

CPU_DOWN_PREPARE ==
    /\ Readers = {}
    /\ Phase("inactive", "prepare")
    /\ UNCHANGED <<thread, curr, call, done, queue, mt, online, active, calls, downs, gaveup>>

CPU_DOWN_FAILED ==
    /\ Phase("prepare", "up")
    /\ active' = active \union {HotCPU}
    /\ UNCHANGED <<thread, curr, call, done, queue, mt, online, calls, downs, gaveup>>

(* stop_machine: the stop thread runs, interrupts off, on every CPU.  It   *)
(* puts the CPU offline and queues its idle task (sched_idle_next).        *)
CPU_DYING ==
    /\ \A c \in CPUs : ~IrqsOff(c)
    /\ Phase("prepare", "dying")
    /\ online' = online \ {HotCPU}
    /\ curr' = [curr EXCEPT ![HotCPU] = None]
    /\ UNCHANGED <<thread, call, done, queue, mt, active, calls, downs, gaveup>>

(* The idle task runs on the dead CPU and will run for ever: CPU_DEAD.     *)
CPU_DEAD ==
    /\ curr[HotCPU] = None
    /\ hot.phase = "dying" /\ hot' = [phase |-> "live", todo |-> TaskList]
    /\ UNCHANGED <<thread, curr, call, done, queue, mt, online, active, calls, downs, gaveup>>

(* move_task_off_dead_cpu: s is where the task may go, or its affinity is  *)
(* widened.  It retries when the affinity changes meanwhile, which takes a *)
(* caller without the hotplug lock (cpusets) and is not modelled.          *)
move_task_off_dead_cpu(p, s) ==
    \E c \in IF s # {} THEN s ELSE online :
        thread' = [thread EXCEPT ![p].cpu = c, ![p].allowed = IF s # {} THEN @ ELSE CPUs]

MayGo(p) == thread[p].allowed \intersect online

(* A thread of the task list on the dead CPU, runnable or not. *)
LivesHere(p) == thread[p].cpu = HotCPU /\ (p \in Tasks => call[p].pc \notin {"exiting", "gone"})

(* migrate_live_tasks visits every thread of the task list once.           *)
migrate_live_tasks ==
    /\ hot.phase = "live" /\ hot.todo # <<>>
    /\ LET p == Head(hot.todo)
       IN IF LivesHere(p)
          THEN move_task_off_dead_cpu(p, MayGo(p)) ELSE UNCHANGED thread
    /\ hot' = [hot EXCEPT !.todo = Tail(@)]
    /\ UNCHANGED <<curr, call, done, queue, mt, online, active, calls, downs, gaveup>>

kthread_stop ==
    /\ hot.todo = <<>> /\ Phase("live", "stopping")
    /\ WakeMigrationThread(HotCPU)
    /\ UNCHANGED <<curr, call, done, queue, online, active, calls, downs, gaveup>>

(* What is still queued has left the task list. *)
migrate_dead_tasks ==
    /\ hot.phase = "stopping" /\ mt[HotCPU].pc = "none"
    /\ UNCHANGED <<curr, call, done, queue, mt, online, active, calls, downs, gaveup>>
    /\ \/ \E p \in Queued(HotCPU) : move_task_off_dead_cpu(p, MayGo(p)) /\ UNCHANGED hot
       \/ Queued(HotCPU) = {} /\ Phase("stopping", "drain") /\ UNCHANGED thread

(* Faulty variant: the requests left are forgotten with the CPU. *)
LeavesRequests ==
    /\ Phase("drain", "dead") /\ queue' = [queue EXCEPT ![HotCPU] = <<>>]
    /\ UNCHANGED <<thread, curr, call, done, mt, online, active, calls, downs, gaveup>>

(* The requests left are completed as they are. *)
DrainRequests ==
    /\ hot.phase = "drain"
    /\ \/ /\ queue[HotCPU] # <<>>
          /\ queue' = [queue EXCEPT ![HotCPU] = Tail(@)]
          /\ complete(Head(queue[HotCPU])) /\ UNCHANGED hot
       \/ /\ queue[HotCPU] = <<>> /\ Phase("drain", "dead")
          /\ UNCHANGED <<thread, done, queue>>
    /\ UNCHANGED <<curr, call, mt, online, active, calls, downs, gaveup>>

(* A new migration thread, bound to the CPU that is not there yet.  It     *)
(* takes the name of the last one, which is let off its last CPU first.    *)
CPU_UP_PREPARE ==
    /\ ~Running(HotCPU)
    /\ Phase("dead", "coming")
    /\ thread' = [thread EXCEPT ![HotCPU] = [cpu |-> HotCPU, allowed |-> {HotCPU}, on |-> FALSE]]
    /\ mt' = [mt EXCEPT ![HotCPU] = [pc |-> "top", intr |-> TRUE, hand |-> NoHand]]
    /\ UNCHANGED <<curr, call, done, queue, online, active, calls, downs, gaveup>>

(* Bound to a CPU where it can run to see that it has to stop.             *)
CPU_UP_CANCELED ==
    \/ /\ Phase("coming", "canceling")
       /\ \E c \in online :
            thread' = [thread EXCEPT ![HotCPU] = [cpu |-> c, allowed |-> {c}, on |-> TRUE]]
       /\ UNCHANGED <<curr, call, done, queue, mt, online, active, calls, downs, gaveup>>
    \/ /\ mt[HotCPU].pc = "none" /\ Phase("canceling", "dead")
       /\ UNCHANGED <<thread, curr, call, done, queue, mt, online, active, calls, downs, gaveup>>

__cpu_up ==
    /\ Phase("coming", "onlined")
    /\ online' = online \union {HotCPU} /\ active' = active \union {HotCPU}
    /\ UNCHANGED <<thread, curr, call, done, queue, mt, calls, downs, gaveup>>

CPU_ONLINE ==
    /\ Phase("onlined", "up")
    /\ WakeMigrationThread(HotCPU)
    /\ UNCHANGED <<curr, call, done, queue, online, active, calls, downs, gaveup>>
-----------------------------------------------------------------------------
MigrationStep(c) ==
    migration_thread(c) \/ HandleRequest(c) \/ CompleteRequest(c)
    \/ MigrationThreadSleeps(c) \/ set_current_state(c) \/ wait_to_die(c)

(* From stop_machine on cpu_down only goes forward, and so does cpu_up.    *)
HotplugStep ==
    CPU_DEAD \/ migrate_live_tasks \/ kthread_stop \/ migrate_dead_tasks \/ DrainRequests
    \/ CPU_UP_CANCELED \/ CPU_ONLINE

Next ==
    \/ \E c \in CPUs : Schedule(c) \/ MigrationStep(c)
    \/ \E t \in Tasks :
        \/ Block(t) \/ Wakeup(t) \/ Exit(t)
        \/ \E p \in Tasks, m \in Masks : sched_setaffinity(t, p, m)
        \/ \E dest \in CPUs : sched_exec(t, dest)
        \/ wake_migration_thread(t) \/ wait_for_completion(t)
    \/ cpu_down \/ CPU_DOWN_PREPARE \/ CPU_DOWN_FAILED \/ CPU_DYING
    \/ HotplugStep \/ CPU_UP_PREPARE \/ __cpu_up

(* schedule() on a CPU that has a migration thread to run, or whose current *)
(* thread has left: the first preempts everything, the second is the code   *)
(* after deactivate_task.                                                   *)
MustSchedule(c) == (Queued(c) \intersect CPUs # {} \/ Leaving(c)) /\ Schedule(c)

Fairness ==
    /\ \A c \in CPUs : WF_vars(MigrationStep(c)) /\ WF_vars(MustSchedule(c))
    /\ WF_vars(HotplugStep)

Spec == Init /\ [][Next]_vars /\ Fairness
-----------------------------------------------------------------------------
Waits(t) == call[t].pc \in {"kick", "wait"}
InHand(c) == IF mt[c].hand = NoHand THEN {} ELSE {mt[c].hand}
Requests(c) == Range(queue[c]) \union InHand(c)

TypeOK ==
    /\ thread \in [Threads -> [cpu : CPUs, allowed : (SUBSET CPUs) \ {{}}, on : BOOLEAN]]
    /\ curr \in [CPUs -> Threads \union {None}]
    /\ \A c \in CPUs : curr[c] # None => thread[curr[c]].cpu = c
    /\ \A t \in Tasks : call[t].pc \in {"user", "kick", "wait", "exiting", "gone"}
    /\ \A c \in CPUs : mt[c].pc \in {"none", "top", "hold", "complete", "sched", "die"}
    /\ hot.phase \in {"up", "inactive", "prepare", "dying", "live", "stopping", "drain",
                      "dead", "coming", "canceling", "onlined"}
    /\ active \subseteq online

(* A request lies on the stack of its caller: it is in exactly one place,  *)
(* a queue or the hand of a migration thread, until it is completed, and   *)
(* in none afterwards, when the caller may return.                         *)
RequestsHeld ==
    \A t \in Tasks :
        Cardinality({c \in CPUs : t \in Requests(c)}) = IF Waits(t) /\ t \notin done THEN 1 ELSE 0

(* Nobody's request is forgotten: the migration thread does not sleep, nor *)
(* is about to, while its queue has a request, unless the caller has still *)
(* to wake it or the CPU is being emptied.  A caller of sched_setaffinity  *)
(* finds a migration thread to wake.                                       *)
NoRequestForgotten ==
    /\ \A c \in online : queue[c] # <<>> /\ (~thread[c].on \/ (mt[c].pc = "sched" /\ mt[c].intr))
            => \E t \in Tasks : call[t].pc = "kick" /\ call[t].rq = c
    /\ \A t \in Readers : call[t].pc = "kick" => mt[call[t].rq].pc # "none"

(* What CPU_DEAD leaves, and BUG_ON(rq->nr_running != 0) asserts: nothing  *)
(* is queued there, nothing sleeps there that will wake up, no request and *)
(* no migration thread are left.                                           *)
DeadIsEmpty ==
    hot.phase \in {"dead", "coming", "canceling"} =>
        /\ \A t \in Tasks : thread[t].cpu = HotCPU => call[t].pc = "gone"
        /\ queue[HotCPU] = <<>>
        /\ mt[HotCPU].pc = "none" \/ hot.phase # "dead"

(* All of these, through every order of calls, switches and a CPU going    *)
(* down and up: no request is lost, done twice or left behind.             *)
RequestsSound == TypeOK /\ RequestsHeld /\ NoRequestForgotten /\ DeadIsEmpty

(* The affinity of a runnable thread is honoured or somebody is about to:  *)
(* a request to move it is pending on its CPU, or the CPU is offline.  The *)
(* one hole is a request that met an inactive CPU.                         *)
AffinityPursued ==
    \A x \in Threads : thread[x].on /\ thread[x].cpu \notin thread[x].allowed =>
        \/ \E t \in Requests(thread[x].cpu) : call[t].p = x
        \/ thread[x].cpu \notin online
        \/ x \in gaveup

(* The same without the hole: sched_setaffinity moves the task, "schedule  *)
(* it away if the CPU it's executing on is removed from the allowed        *)
(* bitmask" (the comment of set_cpus_allowed_ptr).                         *)
AffinityHonoured ==
    \A x \in Threads : thread[x].on /\ thread[x].cpu \notin thread[x].allowed =>
        \/ \E t \in Requests(thread[x].cpu) : call[t].p = x
        \/ thread[x].cpu \notin online

(* No step moves a thread off the CPU it runs on, or is being switched     *)
(* from.                                                                   *)
NotMovedWhileCurrent ==
    [][\A c \in CPUs : curr[c] # None /\ curr'[c] = curr[c] => thread'[curr[c]].cpu = c]_vars

(* Once the migration thread was woken the request is completed, also when *)
(* the CPU goes away first.                                                *)
RequestServed == \A t \in Tasks : (call[t].pc = "wait") ~> (t \in done \/ call[t].pc = "user")
=============================================================================
