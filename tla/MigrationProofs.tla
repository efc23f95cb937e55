-------------------------- MODULE MigrationProofs --------------------------
(***************************************************************************)
(* The inductive invariant of Migration and what follows from it: no       *)
(* request is lost or served twice, a CPU that goes away leaves nothing    *)
(* behind, no thread is moved while it runs, and who runs where it may not *)
(* is going to be moved.  For every number of CPUs, tasks, calls and       *)
(* rounds of hotplug.                                                      *)
(***************************************************************************)
EXTENDS Migration, ListLemmas

Phases == {"up", "inactive", "prepare", "dying", "live", "stopping", "drain",
           "dead", "coming", "canceling", "onlined"}
Offline == Phases \ {"up", "inactive", "prepare", "onlined"}
ThreadState == [cpu : CPUs, allowed : (SUBSET CPUs) \ {{}}, on : BOOLEAN]
CallState == [pc : {"user", "kick", "wait", "exiting", "gone"}, op : {"none", "affinity", "exec"},
              p : Tasks \union {None}, dest : CPUs \union {None}, rq : CPUs \union {None}]
MtState == [pc : {"none", "top", "hold", "complete", "sched", "die"}, intr : BOOLEAN,
            hand : Tasks \union {None}]

Types ==
    /\ thread \in [Threads -> ThreadState]
    /\ curr \in [CPUs -> Threads \union {None}]
    /\ call \in [Tasks -> CallState]
    /\ done \subseteq Tasks
    /\ queue \in [CPUs -> Seq(Tasks)]
    /\ mt \in [CPUs -> MtState]
    /\ hot \in [phase : Phases, todo : Seq(Threads)]

\* The masks follow the phase; on a CPU that is gone only its idle task runs.
PhaseRight ==
    /\ online = IF hot.phase \in Offline THEN CPUs \ {HotCPU} ELSE CPUs
    /\ active = IF hot.phase \in {"up", "onlined"} THEN CPUs ELSE CPUs \ {HotCPU}
    /\ hot.phase \in Offline \ {"dying"} => curr[HotCPU] = None
    /\ Readers # {} => hot.phase \in {"up", "inactive"}

\* Who is current on a CPU is there.
CurrentRight == \A c \in CPUs : curr[c] # None => thread[curr[c]].cpu = c

\* A migration thread has a request in hand while it serves one, moves the task
\* only while it runs on its CPU, and stops or waits to only when that is offline.
ServersRight ==
    /\ \A c \in CPUs :
        /\ mt[c].pc \in {"hold", "complete"} <=> mt[c].hand # None
        /\ mt[c].pc = "hold" => curr[c] = c /\ c \in online
        /\ mt[c].pc = "none" => c = HotCPU /\ hot.phase \in {"stopping", "drain", "dead", "canceling"}
        /\ mt[c].pc = "die" => c \notin online
    /\ hot.phase = "coming" => mt[HotCPU].pc = "top"
    /\ hot.phase \in {"drain", "dead"} => mt[HotCPU].pc = "none"

\* A request is where its caller says, once, from the call to its completion.
RequestsRight ==
    /\ \A t \in Tasks : Waits(t) => call[t].p \in Tasks /\ call[t].dest \in CPUs /\ call[t].rq \in CPUs
    /\ \A c \in CPUs : \A t \in Requests(c) : Waits(t) /\ t \notin done /\ call[t].rq = c
    /\ \A t \in Tasks : Waits(t) /\ t \notin done => t \in Requests(call[t].rq)
    /\ \A c \in CPUs : IsInjective(queue[c]) /\ mt[c].hand \notin Range(queue[c])

\* A server does not sleep on a request, but for one whose caller wakes it yet.
ServersAwake ==
    \A c \in online : queue[c] # <<>> /\ (~thread[c].on \/ (mt[c].pc = "sched" /\ mt[c].intr))
            => \E t \in Tasks : call[t].pc = "kick" /\ call[t].rq = c

\* What is still on a CPU that went away: in each phase less.
Leftover(t) ==
    /\ hot.phase = "live" => t \in Range(hot.todo) \/ call[t].pc \in {"exiting", "gone"}
    /\ hot.phase = "stopping" => call[t].pc \in {"exiting", "gone"}
    /\ hot.phase \in {"drain", "dead", "coming", "canceling"} => call[t].pc = "gone"
TasksLeft ==
    \A t \in Tasks :
        /\ thread[t].cpu = HotCPU => Leftover(t)
        /\ call[t].pc = "exiting" => thread[t].on
        /\ call[t].pc = "gone" => ~thread[t].on
LeftoversRight ==
    /\ TasksLeft
    /\ hot.phase \in {"dead", "coming", "canceling"} => queue[HotCPU] = <<>>

\* A request that will move x, if its destination is active by then.
Unserved(c) == Range(queue[c]) \union (IF mt[c].pc = "hold" THEN {mt[c].hand} ELSE {})
MoveDue(x) ==
    \E t \in Unserved(thread[x].cpu) : call[t].p = x /\ call[t].dest \in thread[x].allowed

\* The migration threads are where they may be, on their own CPUs unless that is
\* gone; a task that is where it may not be has such a request, whether it runs
\* or sleeps.
AffinityRight ==
    /\ \A c \in CPUs : thread[c].cpu \in thread[c].allowed
    /\ \A c \in CPUs : c \in online \/ hot.phase = "coming" => thread[c].cpu = c
    /\ \A x \in Tasks : call[x].pc # "gone" /\ thread[x].cpu \notin thread[x].allowed =>
            MoveDue(x) \/ thread[x].cpu \notin online \/ x \in gaveup

IInv ==
    /\ Types /\ PhaseRight /\ CurrentRight /\ ServersRight
    /\ RequestsRight /\ ServersAwake /\ LeftoversRight /\ AffinityRight

-----------------------------------------------------------------------------
(* Lists of requests.                                                      *)

\* Putting a new element first.
LEMMA PrependFresh ==
  ASSUME NEW S, NEW s \in Seq(S), IsInjective(s), NEW e \in S, e \notin Range(s)
  PROVE  /\ <<e>> \o s \in Seq(S) /\ <<e>> \o s # <<>>
         /\ IsInjective(<<e>> \o s)
         /\ Range(<<e>> \o s) = Range(s) \union {e}
<1> DEFINE a == <<e>> \o s
           n == Len(s)
<1>1. /\ a \in Seq(S) /\ Len(a) = n + 1 /\ n \in Nat /\ a[1] = e
      /\ \A i \in 2 .. n + 1 : a[i] = s[i - 1]
  OBVIOUS
<1>2. DOMAIN a = 1 .. n + 1 /\ DOMAIN s = 1 .. n
  BY <1>1
<1> HIDE DEF a, n
<1>3. \A i \in 1 .. n : s[i] # e
  BY <1>2 DEF Range
<1>4. IsInjective(a)
  <2> SUFFICES ASSUME NEW i \in 1 .. n + 1, NEW j \in 1 .. n + 1, a[i] = a[j]
               PROVE  i = j
    BY <1>2 DEF IsInjective
  <2>1. CASE i = 1 /\ j = 1
    BY <2>1
  <2>2. CASE i = 1 /\ j # 1
    BY <2>2, <1>1, <1>3
  <2>3. CASE i # 1 /\ j = 1
    BY <2>3, <1>1, <1>3
  <2>4. CASE i # 1 /\ j # 1
    <3>1. i - 1 \in 1 .. n /\ j - 1 \in 1 .. n /\ s[i - 1] = s[j - 1]
      BY <2>4, <1>1
    <3>2. i - 1 = j - 1
      BY <3>1, <1>2 DEF IsInjective
    <3> QED BY <3>2, <1>1
  <2> QED BY <2>1, <2>2, <2>3, <2>4
<1>5. \A i \in 1 .. n : i + 1 \in 2 .. n + 1 /\ i + 1 \in 1 .. n + 1 /\ s[i] = a[i + 1]
  BY <1>1
<1>6. Range(a) \subseteq Range(s) \union {e}
  <2> SUFFICES ASSUME NEW i \in 1 .. n + 1 PROVE a[i] \in Range(s) \union {e}
    BY <1>2 DEF Range
  <2>1. CASE i = 1
    BY <2>1, <1>1
  <2>2. CASE i # 1
    <3>1. i - 1 \in 1 .. n /\ a[i] = s[i - 1]
      BY <2>2, <1>1
    <3> QED BY <3>1, <1>2 DEF Range
  <2> QED BY <2>1, <2>2
<1>7. Range(s) \union {e} \subseteq Range(a)
  <2>1. e \in Range(a)
    BY <1>1, <1>2 DEF Range
  <2>2. \A i \in 1 .. n : s[i] \in Range(a)
    BY <1>5, <1>2 DEF Range
  <2> QED BY <2>1, <2>2, <1>2 DEF Range
<1>8. a # <<>>
  BY <1>1
<1> QED BY <1>1, <1>4, <1>6, <1>7, <1>8 DEF a

\* Taking the first element off.
LEMMA TakeFirst ==
  ASSUME NEW S, NEW s \in Seq(S), IsInjective(s), s # <<>>
  PROVE  /\ Head(s) \in S /\ Tail(s) \in Seq(S)
         /\ IsInjective(Tail(s))
         /\ Head(s) \notin Range(Tail(s))
         /\ Range(s) = Range(Tail(s)) \union {Head(s)}
<1> DEFINE a == Tail(s)
           n == Len(s)
<1>1. /\ a \in Seq(S) /\ Len(a) = n - 1 /\ n \in Nat /\ n >= 1 /\ Head(s) = s[1] /\ s[1] \in S
      /\ \A i \in 1 .. n - 1 : a[i] = s[i + 1]
  OBVIOUS
<1>2. DOMAIN a = 1 .. n - 1 /\ DOMAIN s = 1 .. n
  BY <1>1
<1> HIDE DEF a, n
<1>3. \A i \in 1 .. n - 1 : i + 1 \in 1 .. n /\ i + 1 # 1
  BY <1>1
<1>4. IsInjective(a)
  <2> SUFFICES ASSUME NEW i \in 1 .. n - 1, NEW j \in 1 .. n - 1, a[i] = a[j]
               PROVE  i = j
    BY <1>2 DEF IsInjective
  <2>1. i + 1 = j + 1
    BY <1>1, <1>2, <1>3 DEF IsInjective
  <2> QED BY <2>1
<1>5. s[1] \notin Range(a)
  <2> SUFFICES ASSUME NEW i \in 1 .. n - 1, a[i] = s[1] PROVE FALSE
    BY <1>2 DEF Range
  <2>1. i + 1 = 1
    BY <1>1, <1>2, <1>3 DEF IsInjective
  <2> QED BY <2>1
<1>6. \A i \in 1 .. n : i = 1 \/ (i - 1 \in 1 .. n - 1 /\ a[i - 1] = s[i])
  BY <1>1
<1>7. Range(s) \subseteq Range(a) \union {s[1]}
  <2> SUFFICES ASSUME NEW i \in 1 .. n PROVE s[i] \in Range(a) \union {s[1]}
    BY <1>2 DEF Range
  <2> QED BY <1>6, <1>2 DEF Range
<1>8. Range(a) \union {s[1]} \subseteq Range(s)
  BY <1>1, <1>2, <1>3 DEF Range
<1> QED BY <1>1, <1>4, <1>5, <1>7, <1>8 DEF a

\* The list of all threads lists them all.
LEMMA TaskListComplete == TaskList \in Seq(Threads) /\ Range(TaskList) = Threads
<1> DEFINE n == Cardinality(Threads)
<1>1. IsFiniteSet(Threads)
  BY ThreadsAssumption, FS_Union DEF Threads
<1>2. n \in Nat /\ ExistsBijection(1 .. n, Threads)
  BY <1>1, FS_CardinalityType
<1>3. PICK g : g \in Bijection(1 .. n, Threads)
  BY <1>2 DEF ExistsBijection
<1>4. g \in [1 .. n -> Threads] /\ IsInjective(g)
  BY <1>3 DEF Bijection, Injection
<1>5. TaskList \in [1 .. n -> Threads] /\ IsInjective(TaskList)
  BY <1>4 DEF TaskList, SetToSeq
<1>6. IsFiniteSet(1 .. n) /\ Cardinality(1 .. n) = n
  BY <1>2, FS_Interval
<1>7. TaskList \in Surjection(1 .. n, Threads)
  BY <1>1, <1>5, <1>6, FS_Injection DEF Injection
<1>8. Range(TaskList) = Threads
  BY <1>5, <1>7 DEF Surjection, Range
<1>9. TaskList \in Seq(Threads)
  BY <1>2, <1>5
<1> QED BY <1>8, <1>9

-----------------------------------------------------------------------------
(* What follows from the invariant.                                        *)

\* A request is in the one place its caller names, or in none.
LEMMA RequestsCounted == Types /\ RequestsRight => RequestsHeld
<1> SUFFICES ASSUME Types, RequestsRight, NEW t \in Tasks
             PROVE  Cardinality({c \in CPUs : t \in Requests(c)}) =
                      IF Waits(t) /\ t \notin done THEN 1 ELSE 0
  BY DEF RequestsHeld
<1> DEFINE W == {c \in CPUs : t \in Requests(c)}
<1>1. CASE Waits(t) /\ t \notin done
  <2>1. call[t].rq \in CPUs /\ t \in Requests(call[t].rq)
    BY <1>1 DEF RequestsRight
  <2>2. W = {call[t].rq}
    BY <2>1 DEF RequestsRight
  <2> QED BY <1>1, <2>2, FS_Singleton
<1>2. CASE ~ (Waits(t) /\ t \notin done)
  <2>1. W = {}
    BY <1>2 DEF RequestsRight
  <2> QED BY <1>2, <2>1, FS_EmptySet
<1> QED BY <1>1, <1>2

\* The types of Migration are those of the invariant.
LEMMA TypesFollow == Types /\ PhaseRight /\ CurrentRight => TypeOK
<1> SUFFICES ASSUME Types, PhaseRight, CurrentRight PROVE TypeOK
  OBVIOUS
<1>1. thread \in [Threads -> [cpu : CPUs, allowed : (SUBSET CPUs) \ {{}}, on : BOOLEAN]]
      /\ curr \in [CPUs -> Threads \union {None}]
  BY DEF Types, ThreadState
<1>2. \A t \in Tasks : call[t].pc \in {"user", "kick", "wait", "exiting", "gone"}
  BY DEF Types, CallState
<1>3. \A c \in CPUs : mt[c].pc \in {"none", "top", "hold", "complete", "sched", "die"}
  BY DEF Types, MtState
<1>4. hot.phase \in {"up", "inactive", "prepare", "dying", "live", "stopping", "drain",
                     "dead", "coming", "canceling", "onlined"}
  BY DEF Types, Phases
<1>5. active \subseteq online
  BY DEF PhaseRight, Offline, Phases
<1> QED BY <1>1, <1>2, <1>3, <1>4, <1>5 DEF TypeOK, CurrentRight

\* No caller of sched_setaffinity finds the migration thread gone.
LEMMA NoneForgotten == Types /\ PhaseRight /\ ServersRight /\ RequestsRight /\ ServersAwake => NoRequestForgotten
<1> SUFFICES ASSUME Types, PhaseRight, ServersRight, RequestsRight, ServersAwake PROVE NoRequestForgotten
  OBVIOUS
<1>1. ASSUME NEW t \in Readers, call[t].pc = "kick" PROVE mt[call[t].rq].pc # "none"
  <2>1. t \in Tasks /\ call[t].rq \in CPUs
    BY <1>1 DEF Readers, RequestsRight, Waits
  <2>2. hot.phase \in {"up", "inactive"}
    BY DEF PhaseRight
  <2> QED BY <2>1, <2>2 DEF ServersRight
<1> QED BY <1>1 DEF NoRequestForgotten, ServersAwake

\* The four parts of RequestsSound.
LEMMA SoundFollows == IInv => RequestsSound
<1> SUFFICES ASSUME IInv PROVE RequestsSound
  OBVIOUS
<1>1. DeadIsEmpty
  BY DEF IInv, LeftoversRight, TasksLeft, Leftover, ServersRight, DeadIsEmpty
<1> QED BY <1>1, RequestsCounted, TypesFollow, NoneForgotten DEF IInv, RequestsSound

\* A task that may run is not gone; who serves a request has it in hand.
LEMMA PursuitFollows == IInv => AffinityPursued
<1> SUFFICES ASSUME IInv, NEW x \in Threads, thread[x].on, thread[x].cpu \notin thread[x].allowed
             PROVE  \/ \E t \in Requests(thread[x].cpu) : call[t].p = x
                    \/ thread[x].cpu \notin online
                    \/ x \in gaveup
  BY DEF AffinityPursued
<1>1. x \in Tasks
  BY DEF IInv, AffinityRight, Threads
<1>2. call[x].pc # "gone"
  BY <1>1 DEF IInv, LeftoversRight, TasksLeft
<1>3. thread[x].cpu \in CPUs
  BY DEF IInv, Types, ThreadState
<1>4. Unserved(thread[x].cpu) \subseteq Requests(thread[x].cpu)
  BY <1>3 DEF Unserved, Requests, InHand, IInv, ServersRight, NoHand
<1> QED BY <1>1, <1>2, <1>4 DEF IInv, AffinityRight, MoveDue

-----------------------------------------------------------------------------
\* At the start everybody is where it may be and no request is under way.
LEMMA IInvInit == Init => IInv
<1> SUFFICES ASSUME Init PROVE IInv
  OBVIOUS
<1> USE DEF Init
<1>1. PICK home \in [Tasks -> CPUs] :
        thread = [x \in Threads |->
                    IF x \in Tasks THEN [cpu |-> home[x], allowed |-> CPUs, on |-> TRUE]
                    ELSE [cpu |-> x, allowed |-> {x}, on |-> FALSE]]
  OBVIOUS
<1>2. \A t \in Tasks : thread[t] = [cpu |-> home[t], allowed |-> CPUs, on |-> TRUE]
  BY <1>1 DEF Threads
<1>3. \A c \in CPUs : thread[c] = [cpu |-> c, allowed |-> {c}, on |-> FALSE]
  BY <1>1, ThreadsAssumption DEF Threads
<1>4. Types
  <2>1. thread \in [Threads -> ThreadState]
    BY <1>1, <1>2, <1>3, CPUsAssumption DEF Threads, ThreadState
  <2>2. InUser \in CallState
    BY DEF InUser, CallState
  <2>3. mt \in [CPUs -> MtState]
    BY DEF MtState, NoHand
  <2>4. hot \in [phase : Phases, todo : Seq(Threads)]
    BY DEF Phases
  <2>5. call \in [Tasks -> CallState]
    BY <2>2
  <2>6. queue \in [CPUs -> Seq(Tasks)]
    <3>1. <<>> \in Seq(Tasks)
      OBVIOUS
    <3> QED BY <3>1
  <2>7. curr \in [CPUs -> Threads \union {None}] /\ done \subseteq Tasks
    OBVIOUS
  <2> QED BY <2>1, <2>3, <2>4, <2>5, <2>6, <2>7 DEF Types
<1>5. \A t \in Tasks : call[t].pc = "user" /\ ~Waits(t)
  BY DEF Waits, InUser
<1>6. PhaseRight
  BY <1>5 DEF PhaseRight, Offline, Phases, Readers, Waits
<1>7. CurrentRight
  BY DEF CurrentRight
<1>8. ServersRight
  BY DEF ServersRight, NoHand
<1>9. RequestsRight
  <2>1. \A c \in CPUs : Requests(c) = {} /\ IsInjective(queue[c]) /\ Range(queue[c]) = {}
    BY DEF Requests, InHand, NoHand, Range, IsInjective
  <2> QED BY <1>5, <2>1 DEF RequestsRight
<1>10. ServersAwake
  BY DEF ServersAwake
<1>11. LeftoversRight
  BY <1>5 DEF LeftoversRight, TasksLeft, Leftover
<1>12. AffinityRight
  <2> HIDE DEF Init
  <2>1. \A t \in Tasks : thread[t].cpu \in thread[t].allowed
    <3> SUFFICES ASSUME NEW t \in Tasks PROVE thread[t].cpu \in thread[t].allowed
      OBVIOUS
    <3>1. PICK r : r = thread[t] /\ r = [cpu |-> home[t], allowed |-> CPUs, on |-> TRUE]
      BY <1>2
    <3>2. r.cpu = home[t] /\ r.allowed = CPUs
      BY <3>1
    <3> QED BY <3>1, <3>2
  <2>2. \A c \in CPUs : thread[c].cpu \in thread[c].allowed /\ thread[c].cpu = c
    <3> SUFFICES ASSUME NEW c \in CPUs PROVE thread[c].cpu \in thread[c].allowed /\ thread[c].cpu = c
      OBVIOUS
    <3>1. PICK r : r = thread[c] /\ r = [cpu |-> c, allowed |-> {c}, on |-> FALSE]
      BY <1>3
    <3>2. r.cpu = c /\ r.allowed = {c}
      BY <3>1
    <3> QED BY <3>1, <3>2
  <2> QED BY <2>1, <2>2 DEF AffinityRight
<1> QED BY <1>4, <1>6, <1>7, <1>8, <1>9, <1>10, <1>11, <1>12 DEF IInv

-----------------------------------------------------------------------------
(* What a step leaves alone.                                               *)

\* Each part of the invariant depends on the variables it names only.
LEMMA Untouched ==
  /\ PhaseRight /\ UNCHANGED <<online, active, hot, curr, call>> => PhaseRight'
  /\ CurrentRight /\ UNCHANGED <<curr, thread>> => CurrentRight'
  /\ ServersRight /\ UNCHANGED <<mt, curr, online, hot>> => ServersRight'
  /\ RequestsRight /\ UNCHANGED <<queue, mt, call, done>> => RequestsRight'
  /\ ServersAwake /\ UNCHANGED <<online, queue, thread, mt, call>> => ServersAwake'
  /\ LeftoversRight /\ UNCHANGED <<thread, hot, call, queue>> => LeftoversRight'
  /\ AffinityRight /\ UNCHANGED <<thread, hot, queue, mt, call, online, gaveup>> => AffinityRight'
<1>1. PhaseRight /\ UNCHANGED <<online, active, hot, curr, call>> => PhaseRight'
  BY DEF PhaseRight, Readers
<1>2. CurrentRight /\ UNCHANGED <<curr, thread>> => CurrentRight'
  BY DEF CurrentRight
<1>3. ServersRight /\ UNCHANGED <<mt, curr, online, hot>> => ServersRight'
  BY DEF ServersRight
<1>4. RequestsRight /\ UNCHANGED <<queue, mt, call, done>> => RequestsRight'
  BY DEF RequestsRight, Requests, InHand, Waits
<1>5. ServersAwake /\ UNCHANGED <<online, queue, thread, mt, call>> => ServersAwake'
  BY DEF ServersAwake
<1>6. LeftoversRight /\ UNCHANGED <<thread, hot, call, queue>> => LeftoversRight'
  BY DEF LeftoversRight, TasksLeft, Leftover
<1>7. AffinityRight /\ UNCHANGED <<thread, hot, queue, mt, call, online, gaveup>> => AffinityRight'
  BY DEF AffinityRight, MoveDue, Unserved
<1> QED BY <1>1, <1>2, <1>3, <1>4, <1>5, <1>6, <1>7

\* Requests are named by tasks.
LEMMA RequestsOfTasks ==
  ASSUME Types, ServersRight, NEW c \in CPUs
  PROVE  Requests(c) \subseteq Tasks /\ Unserved(c) \subseteq Requests(c)
<1>1. queue[c] \in Seq(Tasks) /\ mt[c].hand \in Tasks \union {None}
  BY DEF Types, MtState
<1>2. Range(queue[c]) \subseteq Tasks
  BY <1>1 DEF Range
<1>3. mt[c].pc = "hold" => mt[c].hand # None
  BY DEF ServersRight
<1> QED BY <1>1, <1>2, <1>3 DEF Requests, Unserved, InHand, NoHand

\* Of the threads only x changes, and it does not leave a CPU it is current on.
Replaced(x) ==
    /\ thread' \in [Threads -> ThreadState]
    /\ \A y \in Threads \ {x} : thread'[y] = thread[y]
    /\ thread'[x].cpu # thread[x].cpu => ~Running(x)

\* Then who is current on a CPU is still there.
LEMMA CurrentKept ==
  ASSUME Types, CurrentRight, NEW x \in Threads, Replaced(x), UNCHANGED curr
  PROVE  CurrentRight'
<1> SUFFICES ASSUME NEW c \in CPUs, curr[c] # None PROVE thread'[curr[c]].cpu = c
  BY DEF CurrentRight
<1>1. curr[c] \in Threads /\ thread[curr[c]].cpu = c
  BY DEF Types, CurrentRight
<1>2. CASE curr[c] = x
  BY <1>1, <1>2 DEF Replaced, Running
<1>3. CASE curr[c] # x
  BY <1>1, <1>3 DEF Replaced
<1> QED BY <1>2, <1>3

\* A change of a task leaves the migration threads as awake as they were, when
\* no caller goes on before it wakes one.
LEMMA AwakeKept ==
  ASSUME PhaseRight, ServersAwake, NEW x \in Tasks, Replaced(x), UNCHANGED <<queue, online, mt>>,
         \A t \in Tasks : call[t].pc = "kick" => call'[t].pc = "kick" /\ call'[t].rq = call[t].rq
  PROVE  ServersAwake'
<1>0. online \subseteq CPUs
  BY DEF PhaseRight
<1> SUFFICES ASSUME NEW c \in CPUs, c \in online, queue[c] # <<>>,
                    ~thread'[c].on \/ (mt[c].pc = "sched" /\ mt[c].intr)
             PROVE  \E t \in Tasks : call'[t].pc = "kick" /\ call'[t].rq = c
  BY <1>0 DEF ServersAwake
<1>1. thread'[c] = thread[c]
  BY ThreadsAssumption DEF Replaced, Threads
<1> QED BY <1>1 DEF ServersAwake

\* The requests that still move somebody are there, on the CPUs that are.
UnservedKept == \A c \in online : Unserved(c) \subseteq Unserved(c)'

\* try_to_wake_up: where it was, or where it may run.
WokenUp(t) ==
    /\ Replaced(t)
    /\ thread'[t].on /\ thread'[t].allowed = thread[t].allowed
    /\ thread'[t].cpu # thread[t].cpu => thread'[t].cpu \in thread[t].allowed \intersect online

\* A task in the middle of the schedule() that takes it off stays (TryToWakeUp).
LEMMA Woken ==
  ASSUME Types, NEW t \in Tasks, TryToWakeUp(t)
  PROVE  WokenUp(t)
<1>1. t \in Threads /\ thread[t] \in ThreadState /\ thread \in [Threads -> ThreadState]
  BY DEF Threads, Types
<1>2. CASE thread[t].on
  <2>1. thread' = thread
    BY <1>2 DEF TryToWakeUp
  <2> QED BY <1>1, <1>2, <2>1 DEF WokenUp, Replaced
<1>3. CASE ~thread[t].on
  <2>1. PICK c \in IF Running(t) THEN {thread[t].cpu} ELSE select_task_rq(t) :
          thread' = [thread EXCEPT ![t].on = TRUE, ![t].cpu = c]
    BY <1>3 DEF TryToWakeUp
  <2>2. /\ c \in CPUs
        /\ c = thread[t].cpu \/ (~Running(t) /\ c \in thread[t].allowed \intersect online)
    BY <1>1, <2>1 DEF select_task_rq, ThreadState
  <2>3. /\ thread'[t].cpu = c /\ thread'[t].allowed = thread[t].allowed /\ thread'[t].on
        /\ thread'[t] \in ThreadState
        /\ \A y \in Threads \ {t} : thread'[y] = thread[y]
    BY <1>1, <2>1, <2>2 DEF ThreadState
  <2>4. thread' \in [Threads -> ThreadState]
    BY <1>1, <2>1, <2>3
  <2> QED BY <2>2, <2>3, <2>4 DEF WokenUp, Replaced
<1> QED BY <1>2, <1>3

\* A wakeup does not bring anybody to a CPU that is gone or to one forbidden.
LEMMA WokenKeeps ==
  ASSUME IInv, NEW t \in Tasks, WokenUp(t), call[t].pc # "gone",
         UNCHANGED <<call, curr, online, hot, gaveup>>
  PROVE  /\ CurrentRight'
         /\ TasksLeft'
         /\ UnservedKept => AffinityRight'
<1>1. t \in Threads /\ \A u \in Tasks : u \in Threads
  BY DEF Threads
<1>2. CurrentRight'
  BY <1>1, CurrentKept DEF WokenUp, IInv
<1>3. TasksLeft'
  <2> SUFFICES ASSUME NEW u \in Tasks
               PROVE  /\ thread'[u].cpu = HotCPU => Leftover(u)'
                      /\ call[u].pc = "exiting" => thread'[u].on
                      /\ call[u].pc = "gone" => ~thread'[u].on
    BY DEF TasksLeft
  <2>1. Leftover(u)' = Leftover(u)
    BY DEF Leftover
  <2>2. CASE u # t
    BY <1>1, <2>1, <2>2 DEF WokenUp, Replaced, IInv, LeftoversRight, TasksLeft
  <2>3. CASE u = t
    <3>1. CASE thread'[t].cpu = thread[t].cpu
      BY <2>1, <2>3, <3>1 DEF WokenUp, IInv, LeftoversRight, TasksLeft
    <3>2. CASE thread'[t].cpu # thread[t].cpu
      <4>1. thread'[t].cpu \in online
        BY <3>2 DEF WokenUp
      <4>2. thread'[t].cpu = HotCPU => Leftover(t)
        BY <4>1 DEF IInv, PhaseRight, Offline, Phases, Leftover
      <4> QED BY <4>2, <2>1, <2>3 DEF WokenUp
    <3> QED BY <3>1, <3>2
  <2> QED BY <2>2, <2>3
<1>4. ASSUME UnservedKept PROVE AffinityRight'
  <2>1. \A c \in CPUs : thread'[c] = thread[c]
    BY ThreadsAssumption DEF WokenUp, Replaced, Threads
  <2>2. ASSUME NEW u \in Tasks, call[u].pc # "gone", thread'[u].cpu \notin thread'[u].allowed
        PROVE  MoveDue(u)' \/ thread'[u].cpu \notin online \/ u \in gaveup
    <3>1. thread'[u].cpu = thread[u].cpu /\ thread'[u].allowed = thread[u].allowed
      BY <1>1, <2>2 DEF WokenUp, Replaced
    <3>2. MoveDue(u) \/ thread[u].cpu \notin online \/ u \in gaveup
      BY <2>2, <3>1 DEF IInv, AffinityRight
    <3>3. MoveDue(u) /\ thread[u].cpu \in online => MoveDue(u)'
      BY <1>4, <3>1 DEF MoveDue, UnservedKept
    <3> QED BY <3>1, <3>2, <3>3
  <2> QED BY <2>1, <2>2, CPUsAssumption DEF AffinityRight, IInv
<1> QED BY <1>2, <1>3, <1>4

-----------------------------------------------------------------------------
(* Switches, sleeps, wakeups and exits.                                    *)

\* schedule() switches to a thread that is there, not in the middle of a
\* request, and on a CPU that is gone to the idle task.
LEMMA ScheduleStep ==
  ASSUME IInv, NEW c \in CPUs, Schedule(c)
  PROVE  IInv'
<1>1. PICK x \in Queued(c) \union {None} :
        /\ c \notin online => curr[c] = None \/ Leaving(c)
        /\ curr' = [curr EXCEPT ![c] = x]
  BY DEF Schedule
<1>2. /\ ~Holding(c)
      /\ c \in online \/ hot.phase = "dying"
      /\ UNCHANGED <<thread, call, done, queue, mt, online, active, hot, calls, downs, gaveup>>
  BY DEF Schedule
<1>3. x = None \/ (x \in Threads /\ thread[x].cpu = c)
  BY <1>1 DEF Queued
<1>4. /\ curr' \in [CPUs -> Threads \union {None}]
      /\ curr'[c] = x /\ \A d \in CPUs \ {c} : curr'[d] = curr[d]
  BY <1>1, <1>3 DEF IInv, Types
<1>5. Types'
  BY <1>2, <1>4 DEF IInv, Types
<1>6. PhaseRight'
  <2>1. hot.phase \in Offline \ {"dying"} => c # HotCPU
    BY <1>2 DEF IInv, PhaseRight, Offline, Phases
  <2>2. hot.phase \in Offline \ {"dying"} => curr'[HotCPU] = None
    BY <1>4, <2>1, CPUsAssumption DEF IInv, PhaseRight
  <2> QED BY <1>2, <2>2 DEF IInv, PhaseRight, Readers
<1>7. CurrentRight'
  BY <1>2, <1>3, <1>4 DEF IInv, CurrentRight
<1>8. ServersRight'
  <2>1. ASSUME NEW d \in CPUs, mt[d].pc = "hold" PROVE curr'[d] = d
    <3>1. curr[d] = d
      BY <2>1 DEF IInv, ServersRight
    <3>2. d # c
      BY <1>2, <2>1, <3>1 DEF Holding
    <3> QED BY <1>4, <3>1, <3>2
  <2> QED BY <1>2, <2>1 DEF IInv, ServersRight
<1>9. RequestsRight' /\ ServersAwake' /\ LeftoversRight' /\ AffinityRight'
  BY <1>2, Untouched DEF IInv
<1> QED BY <1>5, <1>6, <1>7, <1>8, <1>9 DEF IInv

\* A task that sleeps or exits is where it was.
LEMMA SleptKeeps ==
  ASSUME IInv, NEW t \in Tasks, thread' = [thread EXCEPT ![t].on = FALSE]
  PROVE  /\ Replaced(t)
         /\ thread'[t].cpu = thread[t].cpu /\ thread'[t].allowed = thread[t].allowed
         /\ ~thread'[t].on
<1>1. t \in Threads /\ thread[t] \in ThreadState /\ thread \in [Threads -> ThreadState]
  BY DEF Threads, IInv, Types
<1>2. /\ thread'[t].cpu = thread[t].cpu /\ thread'[t].allowed = thread[t].allowed
      /\ ~thread'[t].on
      /\ \A y \in Threads \ {t} : thread'[y] = thread[y]
  BY <1>1 DEF ThreadState
<1>3. thread' \in [Threads -> ThreadState]
  BY <1>1 DEF ThreadState
<1> QED BY <1>2, <1>3 DEF Replaced

\* A task goes to sleep and nothing else happens.
LEMMA SleepStep ==
  ASSUME IInv, NEW t \in Tasks, call[t].pc \in {"user", "kick", "wait"},
         thread' = [thread EXCEPT ![t].on = FALSE],
         UNCHANGED <<curr, call, done, queue, mt, online, active, hot, calls, downs, gaveup>>
  PROVE  IInv'
<1>1. /\ Replaced(t) /\ t \in Threads
      /\ thread'[t].cpu = thread[t].cpu /\ thread'[t].allowed = thread[t].allowed
      /\ ~thread'[t].on
  BY SleptKeeps DEF Threads
<1>2. \A u \in Tasks : thread'[u].cpu = thread[u].cpu /\ thread'[u].allowed = thread[u].allowed
  BY <1>1 DEF Replaced, Threads
<1>3. Types'
  BY <1>1 DEF IInv, Types, Replaced
<1>4. CurrentRight'
  BY <1>1, CurrentKept DEF IInv
<1>5. ServersAwake'
  BY <1>1, AwakeKept DEF IInv
<1>6. LeftoversRight'
  <2>1. \A u \in Tasks : Leftover(u)' = Leftover(u)
    BY DEF Leftover
  <2>2. \A u \in Tasks : u # t => thread'[u] = thread[u]
    BY <1>1 DEF Replaced, Threads
  <2>3. TasksLeft'
    BY <1>1, <1>2, <2>1, <2>2 DEF TasksLeft, IInv, LeftoversRight
  <2> QED BY <2>3 DEF IInv, LeftoversRight
<1>7. AffinityRight'
  <2>1. \A c \in CPUs : thread'[c] = thread[c]
    BY <1>1, ThreadsAssumption DEF Replaced, Threads
  <2>2. \A u \in Tasks : MoveDue(u)' = MoveDue(u)
    BY <1>2 DEF MoveDue, Unserved
  <2> QED BY <1>2, <2>1, <2>2 DEF IInv, AffinityRight
<1>8. PhaseRight' /\ ServersRight' /\ RequestsRight'
  BY Untouched DEF IInv
<1> QED BY <1>3, <1>4, <1>5, <1>6, <1>7, <1>8 DEF IInv

\* A task sleeps, is woken, or exits: only itself changes.
LEMMA TaskStep ==
  ASSUME IInv, NEW t \in Tasks, Block(t) \/ Wakeup(t) \/ Exit(t)
  PROVE  IInv'
<1>1. CASE Block(t)
  BY <1>1, SleepStep DEF Block
<1>2. CASE Wakeup(t)
  <2>1. /\ call[t].pc = "user" /\ TryToWakeUp(t)
        /\ UNCHANGED <<curr, call, done, queue, mt, online, active, hot, calls, downs, gaveup>>
    BY <1>2 DEF Wakeup
  <2>2. WokenUp(t) /\ Replaced(t)
    BY <2>1, Woken DEF IInv, WokenUp
  <2>3. Types'
    BY <2>1, <2>2 DEF IInv, Types, Replaced
  <2>4. UnservedKept
    BY <2>1 DEF UnservedKept, Unserved
  <2>5. CurrentRight' /\ TasksLeft' /\ AffinityRight'
    BY <2>1, <2>2, <2>4, WokenKeeps
  <2>6. LeftoversRight'
    BY <2>1, <2>5 DEF LeftoversRight, IInv
  <2>7. ServersAwake'
    BY <2>1, <2>2, AwakeKept DEF IInv
  <2>8. PhaseRight' /\ ServersRight' /\ RequestsRight'
    BY <2>1, Untouched DEF IInv
  <2> QED BY <2>3, <2>5, <2>6, <2>7, <2>8 DEF IInv
<1>3. CASE Exit(t)
  <2>1. /\ Runs(t) /\ call[t].pc \in {"user", "exiting"} /\ call[t] \in CallState
        /\ UNCHANGED <<curr, done, queue, mt, online, active, hot, calls, downs, gaveup>>
    BY <1>3 DEF Exit, IInv, Types
  <2>2. PICK pc \in {"exiting", "gone"} :
          /\ call' = [call EXCEPT ![t].pc = pc]
          /\ pc = "exiting" => thread' = thread
          /\ pc = "gone" => thread' = [thread EXCEPT ![t].on = FALSE]
    BY <1>3 DEF Exit
  <2>3. /\ Replaced(t) /\ t \in Threads
        /\ thread'[t].cpu = thread[t].cpu /\ thread'[t].allowed = thread[t].allowed
        /\ pc = "exiting" => thread'[t].on
        /\ pc = "gone" => ~thread'[t].on
    <3>1. CASE pc = "exiting"
      BY <2>1, <2>2, <3>1 DEF Replaced, IInv, Types, Runs, Threads
    <3>2. CASE pc = "gone"
      BY <2>2, <3>2, SleptKeeps DEF Threads
    <3> QED BY <2>2, <3>1, <3>2
  <2>4. \A u \in Tasks : thread'[u].cpu = thread[u].cpu /\ thread'[u].allowed = thread[u].allowed
    BY <2>3 DEF Replaced, Threads
  <2>5. /\ call' \in [Tasks -> CallState] /\ call'[t].pc = pc
        /\ \A u \in Tasks : u # t => call'[u] = call[u]
        /\ call'[t].op = call[t].op /\ call'[t].p = call[t].p
        /\ call'[t].dest = call[t].dest /\ call'[t].rq = call[t].rq
    <3>1. call \in [Tasks -> CallState]
      BY DEF IInv, Types
    <3> QED BY <2>1, <2>2, <3>1 DEF CallState
  <2>6. \A u \in Tasks : /\ Waits(u)' = Waits(u)
                         /\ Waits(u) => u # t /\ call'[u] = call[u]
                         /\ call'[u].p = call[u].p /\ call'[u].dest = call[u].dest
    BY <2>1, <2>2, <2>5 DEF Waits
  <2>7. Types'
    BY <2>1, <2>3, <2>5 DEF IInv, Types, Replaced
  <2>8. PhaseRight'
    <3>1. Readers' = Readers
      BY <2>1, <2>5 DEF Readers
    <3> QED BY <2>1, <3>1 DEF IInv, PhaseRight
  <2>9. CurrentRight'
    BY <2>1, <2>3, CurrentKept DEF IInv
  <2>10. RequestsRight'
    <3>1. \A c \in CPUs : Requests(c)' = Requests(c) /\ Requests(c) \subseteq Tasks
      BY <2>1, RequestsOfTasks DEF IInv, Requests, InHand
    <3> QED BY <2>1, <2>6, <3>1 DEF IInv, RequestsRight
  <2>11. ServersAwake'
    BY <2>1, <2>3, <2>5, AwakeKept DEF IInv
  <2>12. LeftoversRight'
    <3>1. ASSUME NEW u \in Tasks, u # t
          PROVE  /\ thread'[u].cpu = HotCPU => Leftover(u)'
                 /\ call'[u].pc = "exiting" => thread'[u].on
                 /\ call'[u].pc = "gone" => ~thread'[u].on
      <4>1. thread'[u] = thread[u] /\ call'[u] = call[u]
        BY <2>3, <2>5, <3>1 DEF Replaced, Threads
      <4> QED BY <2>1, <4>1 DEF IInv, LeftoversRight, TasksLeft, Leftover
    <3>2. thread'[t].cpu = HotCPU => Leftover(t)'
      BY <2>1, <2>2, <2>3, <2>5 DEF IInv, LeftoversRight, TasksLeft, Leftover
    <3>3. TasksLeft'
      BY <2>3, <2>5, <3>1, <3>2 DEF TasksLeft
    <3> QED BY <2>1, <3>3 DEF IInv, LeftoversRight
  <2>13. AffinityRight'
    <3>1. \A c \in CPUs : thread'[c] = thread[c]
      BY <2>3, ThreadsAssumption DEF Replaced, Threads
    <3>2. \A u \in Tasks : MoveDue(u) => MoveDue(u)'
      <4>1. \A c \in CPUs : Unserved(c)' = Unserved(c) /\ Unserved(c) \subseteq Tasks
        BY <2>1, RequestsOfTasks DEF IInv, Unserved
      <4>2. \A u \in Tasks : thread[u].cpu \in CPUs
        BY DEF IInv, Types, ThreadState, Threads
      <4> QED BY <2>4, <2>6, <4>1, <4>2 DEF MoveDue
    <3>3. \A u \in Tasks : call[u].pc = "gone" => call'[u].pc = "gone"
      BY <2>1, <2>5
    <3> QED BY <2>1, <2>4, <3>1, <3>2, <3>3, CPUsAssumption DEF IInv, AffinityRight
  <2>14. ServersRight'
    BY <2>1, Untouched DEF IInv
  <2> QED BY <2>7, <2>8, <2>9, <2>10, <2>11, <2>12, <2>13, <2>14 DEF IInv
<1> QED BY <1>1, <1>2, <1>3

-----------------------------------------------------------------------------
(* Callers.                                                                *)

\* migrate_task when p is queued or current: a request of t at the head of the
\* queue of p's CPU.
RequestPut(t, op, p, dest) ==
    /\ call' = [call EXCEPT ![t] = [pc |-> "kick", op |-> op, p |-> p, dest |-> dest,
                                    rq |-> thread[p].cpu]]
    /\ done' = done \ {t}
    /\ queue' = [queue EXCEPT ![thread[p].cpu] = <<t>> \o @]

\* What it leaves: the request where it says, the others where they were.
RequestThere(t, op, p, dest) ==
    /\ call' \in [Tasks -> CallState] /\ done' \subseteq Tasks
    /\ queue' \in [CPUs -> Seq(Tasks)]
    /\ \A u \in Tasks : u # t => call'[u] = call[u]
    /\ call'[t].pc = "kick" /\ call'[t].op = op /\ call'[t].p = p /\ call'[t].dest = dest
    /\ call'[t].rq = thread[p].cpu
    /\ \A c \in CPUs : c # thread[p].cpu => queue'[c] = queue[c]
    /\ \A c \in CPUs : c = thread[p].cpu => t \in Unserved(c)'
    /\ UnservedKept /\ RequestsRight'

\* A caller that is in no call has no request anywhere, and puts one.
LEMMA RequestQueued ==
  ASSUME IInv, NEW t \in Tasks, NEW p \in Tasks, NEW dest \in CPUs,
         NEW op \in {"affinity", "exec"}, call[t].pc = "user",
         RequestPut(t, op, p, dest), UNCHANGED mt
  PROVE  RequestThere(t, op, p, dest)
<1>1. PICK c0 \in CPUs : c0 = thread[p].cpu
  BY DEF IInv, Types, ThreadState, Threads
<1> DEFINE k == [pc |-> "kick", op |-> op, p |-> p, dest |-> dest, rq |-> c0]
<1>2. call' = [call EXCEPT ![t] = k] /\ call \in [Tasks -> CallState]
  BY <1>1 DEF RequestPut, IInv, Types
<1>3. k \in CallState
  <2>1. "kick" \in {"user", "kick", "wait", "exiting", "gone"} /\ op \in {"none", "affinity", "exec"}
    OBVIOUS
  <2> QED BY <1>1, <2>1 DEF CallState
<1>4. k.pc = "kick" /\ k.op = op /\ k.p = p /\ k.dest = dest /\ k.rq = c0
  OBVIOUS
<1> HIDE DEF k
<1>5. /\ call' \in [Tasks -> CallState] /\ call'[t] = k
      /\ \A u \in Tasks : u # t => call'[u] = call[u]
  BY <1>2, <1>3
<1>6. queue' = [queue EXCEPT ![c0] = <<t>> \o queue[c0]] /\ queue \in [CPUs -> Seq(Tasks)]
  BY <1>1 DEF RequestPut, IInv, Types
<1>7. \A c \in CPUs : t \notin Requests(c)
  BY DEF IInv, RequestsRight, Waits
<1>8. queue[c0] \in Seq(Tasks) /\ IsInjective(queue[c0]) /\ t \notin Range(queue[c0])
  BY <1>1, <1>6, <1>7 DEF IInv, RequestsRight, Requests
<1>9. /\ <<t>> \o queue[c0] \in Seq(Tasks) /\ IsInjective(<<t>> \o queue[c0])
      /\ Range(<<t>> \o queue[c0]) = Range(queue[c0]) \union {t}
  BY <1>8, PrependFresh
<1>10. /\ queue' \in [CPUs -> Seq(Tasks)]
       /\ \A c \in CPUs : c # c0 => queue'[c] = queue[c]
       /\ queue'[c0] = <<t>> \o queue[c0]
  BY <1>1, <1>6, <1>9
<1>11. /\ \A c \in CPUs : c # c0 => Range(queue'[c]) = Range(queue[c])
       /\ Range(queue'[c0]) = Range(queue[c0]) \union {t}
       /\ \A c \in CPUs : IsInjective(queue'[c])
  BY <1>9, <1>10 DEF IInv, RequestsRight
<1>12. /\ \A c \in CPUs : c # c0 => Requests(c)' = Requests(c)
       /\ Requests(c0)' = Requests(c0) \union {t}
  BY <1>1, <1>11 DEF Requests, InHand
<1>13. UnservedKept /\ t \in Unserved(c0)'
  <2>1. online \subseteq CPUs
    BY DEF IInv, PhaseRight
  <2>2. \A c \in CPUs : Range(queue[c]) \subseteq Range(queue'[c])
    BY <1>11
  <2> QED BY <1>1, <1>11, <2>1, <2>2 DEF UnservedKept, Unserved
<1>14. done' = done \ {t} /\ done \subseteq Tasks
  BY DEF RequestPut, IInv, Types
<1>15. RequestsRight'
  <2>1. ASSUME NEW u \in Tasks, Waits(u)'
        PROVE  call'[u].p \in Tasks /\ call'[u].dest \in CPUs /\ call'[u].rq \in CPUs
    <3>1. CASE u = t
      BY <1>1, <1>4, <1>5, <3>1
    <3>2. CASE u # t
      BY <1>5, <2>1, <3>2 DEF IInv, RequestsRight, Waits
    <3> QED BY <3>1, <3>2
  <2>2. ASSUME NEW c \in CPUs, NEW u \in Requests(c)'
        PROVE  Waits(u)' /\ u \notin done' /\ call'[u].rq = c
    <3>1. CASE u = t
      <4>1. c = c0
        BY <1>7, <1>12, <3>1, <2>2
      <4> QED BY <1>4, <1>5, <1>14, <3>1, <4>1 DEF Waits
    <3>2. CASE u # t
      <4>1. u \in Requests(c) /\ u \in Tasks
        BY <1>12, <2>2, <3>2, RequestsOfTasks DEF IInv
      <4> QED BY <1>5, <1>14, <3>2, <4>1 DEF IInv, RequestsRight, Waits
    <3> QED BY <3>1, <3>2
  <2>3. ASSUME NEW u \in Tasks, Waits(u)', u \notin done' PROVE u \in Requests(call[u].rq)'
    <3>1. CASE u = t
      BY <1>4, <1>5, <1>12, <3>1
    <3>2. CASE u # t
      <4>1. call'[u] = call[u] /\ Waits(u) /\ u \notin done
        BY <1>5, <1>14, <2>3, <3>2 DEF Waits
      <4>2. call[u].rq \in CPUs /\ u \in Requests(call[u].rq)
        BY <4>1 DEF IInv, RequestsRight
      <4> QED BY <1>12, <4>1, <4>2
    <3> QED BY <3>1, <3>2
  <2>4. ASSUME NEW c \in CPUs PROVE mt'[c].hand \notin Range(queue'[c])
    <3>1. mt'[c].hand = mt[c].hand /\ mt[c].hand \notin Range(queue[c])
      BY DEF IInv, RequestsRight
    <3>2. mt[c].hand # t
      BY <1>7, ThreadsAssumption DEF Requests, InHand, NoHand
    <3> QED BY <1>11, <3>1, <3>2
  <2> QED BY <1>11, <2>1, <2>2, <2>3, <2>4 DEF RequestsRight
<1> QED BY <1>1, <1>4, <1>5, <1>10, <1>13, <1>14, <1>15 DEF RequestThere

\* Its caller has still to wake the migration thread.
LEMMA RequestAwaits ==
  ASSUME IInv, NEW t \in Tasks, NEW p \in Tasks, NEW op, NEW dest, RequestThere(t, op, p, dest),
         call[t].pc = "user", \A c \in CPUs : thread'[c] = thread[c], UNCHANGED <<mt, online>>
  PROVE  ServersAwake'
<1>1. online \subseteq CPUs
  BY DEF IInv, PhaseRight
<1>2. ASSUME NEW c \in online, queue'[c] # <<>>, ~thread[c].on \/ (mt[c].pc = "sched" /\ mt[c].intr)
      PROVE  \E u \in Tasks : call'[u].pc = "kick" /\ call'[u].rq = c
  <2>1. CASE c = thread[p].cpu
    BY <2>1 DEF RequestThere
  <2>2. CASE c # thread[p].cpu
    <3>1. PICK u \in Tasks : call[u].pc = "kick" /\ call[u].rq = c
      BY <1>1, <1>2, <2>2 DEF IInv, ServersAwake, RequestThere
    <3>2. call'[u] = call[u]
      BY <3>1 DEF RequestThere
    <3> QED BY <3>1, <3>2
  <2> QED BY <2>1, <2>2
<1> QED BY <1>1, <1>2 DEF ServersAwake

\* A new request takes nobody's place.
LEMMA RequestPreserves ==
  ASSUME IInv, NEW t \in Tasks, NEW p \in Tasks, NEW op, NEW dest, RequestThere(t, op, p, dest),
         call[t].pc = "user", NEW u \in Tasks, MoveDue(u), thread[u].cpu \in online,
         thread'[u] = thread[u]
  PROVE  MoveDue(u)'
<1>1. PICK v \in Unserved(thread[u].cpu) : call[v].p = u /\ call[v].dest \in thread[u].allowed
  BY DEF MoveDue
<1>2. PICK c \in CPUs : c = thread[u].cpu
  BY DEF IInv, Types, ThreadState, Threads
<1>3. v \in Unserved(c)' /\ v \in Requests(c) /\ v \in Tasks
  BY <1>1, <1>2, RequestsOfTasks DEF RequestThere, UnservedKept, IInv
<1>4. v # t
  BY <1>3 DEF IInv, RequestsRight, Waits
<1>5. call'[v] = call[v]
  BY <1>3, <1>4 DEF RequestThere
<1> QED BY <1>1, <1>2, <1>3, <1>5 DEF MoveDue

\* set_cpus_allowed_ptr: the task is where it may be now, at once, or a request
\* to move it there is queued.
Allowed(t, p, m) ==
    /\ Replaced(p) /\ thread'[p].allowed = m /\ thread'[p].on = thread[p].on
    /\ \/ thread'[p].cpu \in m /\ UNCHANGED <<call, done, queue>>
       \/ /\ thread'[p].cpu = thread[p].cpu
          /\ \E dest \in online \intersect m : RequestPut(t, "affinity", p, dest)

\* Only a task that neither runs nor is queued is moved at once.
LEMMA MaskSet ==
  ASSUME IInv, NEW t \in Tasks, NEW p \in Tasks, NEW m \in Masks, set_cpus_allowed_ptr(t, p, m)
  PROVE  Allowed(t, p, m)
<1> DEFINE th == [thread EXCEPT ![p].allowed = m]
<1>1. /\ p \in Threads /\ thread \in [Threads -> ThreadState] /\ thread[p] \in ThreadState
      /\ m \in (SUBSET CPUs) \ {{}}
  BY MasksAssumption DEF IInv, Types, Threads
<1>2. /\ th \in [Threads -> ThreadState] /\ th[p].allowed = m
      /\ th[p].cpu = thread[p].cpu /\ th[p].on = thread[p].on
      /\ \A y \in Threads \ {p} : th[y] = thread[y]
  BY <1>1 DEF ThreadState
<1>3. CASE thread[p].cpu \in m
  <2>1. thread' = th /\ UNCHANGED <<call, done, queue>>
    BY <1>3 DEF set_cpus_allowed_ptr
  <2> QED BY <1>2, <1>3, <2>1 DEF Allowed, Replaced
<1>4. CASE thread[p].cpu \notin m
  <2>1. PICK dest \in online \intersect m : migrate_task(t, "affinity", p, dest, th)
    BY <1>4 DEF set_cpus_allowed_ptr
  <2>2. dest \in CPUs
    BY <1>1
  <2> HIDE DEF th
  <2>3. CASE ~th[p].on /\ ~Running(p)
    <3>1. thread' = [th EXCEPT ![p].cpu = dest] /\ UNCHANGED <<call, done, queue>>
      BY <2>1, <2>3 DEF migrate_task
    <3>2. /\ thread' \in [Threads -> ThreadState] /\ thread'[p].cpu = dest
          /\ thread'[p].allowed = th[p].allowed /\ thread'[p].on = th[p].on
          /\ \A y \in Threads \ {p} : thread'[y] = th[y]
      BY <1>1, <1>2, <2>2, <3>1 DEF ThreadState
    <3> QED BY <1>2, <2>3, <3>1, <3>2 DEF Allowed, Replaced
  <2>4. CASE ~ (~th[p].on /\ ~Running(p))
    <3>1. thread' = th /\ RequestPut(t, "affinity", p, dest)
      BY <1>2, <2>1, <2>4 DEF migrate_task, RequestPut
    <3> QED BY <1>2, <3>1 DEF Allowed, Replaced
  <2> QED BY <2>3, <2>4
<1> QED BY <1>3, <1>4

\* A change of affinity: its effect, then a request if one is needed.
LEMMA AffinityStep ==
  ASSUME IInv, NEW t \in Tasks, NEW p \in Tasks, NEW m \in Masks, sched_setaffinity(t, p, m)
  PROVE  IInv'
<1>1. /\ call[t].pc = "user" /\ hot.phase \in {"up", "inactive"}
      /\ call[p].pc \notin {"exiting", "gone"}
      /\ gaveup' = gaveup \ {p}
      /\ UNCHANGED <<curr, mt, online, active, hot, downs>>
  BY DEF sched_setaffinity, get_online_cpus
<1>2. Allowed(t, p, m) /\ Replaced(p)
  BY MaskSet DEF sched_setaffinity, Allowed
<1>3. p \in Threads /\ \A u \in Tasks : u \in Threads /\ thread[u].cpu \in CPUs
  BY DEF Threads, IInv, Types, ThreadState
<1>4. \A c \in CPUs : thread'[c] = thread[c]
  BY <1>2, ThreadsAssumption DEF Replaced, Threads
<1>5. \A u \in Tasks : u # p => thread'[u] = thread[u]
  BY <1>2, <1>3 DEF Replaced
<1>6. CurrentRight'
  BY <1>1, <1>2, <1>3, CurrentKept DEF IInv
<1>7. ServersRight'
  BY <1>1, Untouched DEF IInv
<1>8. CASE UNCHANGED <<call, done, queue>> /\ thread'[p].cpu \in m
  <2>1. Types'
    BY <1>1, <1>2, <1>8 DEF IInv, Types, Replaced
  <2>2. PhaseRight' /\ RequestsRight'
    BY <1>1, <1>8, Untouched DEF IInv
  <2>3. ServersAwake'
    BY <1>1, <1>2, <1>8, AwakeKept DEF IInv
  <2>4. LeftoversRight'
    BY <1>1, <1>2, <1>5, <1>8 DEF Allowed, IInv, LeftoversRight, TasksLeft, Leftover
  <2>5. AffinityRight'
    <3>1. ASSUME NEW u \in Tasks, u # p PROVE MoveDue(u)' = MoveDue(u)
      BY <1>1, <1>5, <1>8, <3>1 DEF MoveDue, Unserved
    <3> QED BY <1>1, <1>2, <1>4, <1>5, <1>8, <3>1 DEF Allowed, IInv, AffinityRight
  <2> QED BY <1>6, <1>7, <2>1, <2>2, <2>3, <2>4, <2>5 DEF IInv
<1>9. ASSUME NEW dest \in online \intersect m, RequestPut(t, "affinity", p, dest),
             thread'[p].cpu = thread[p].cpu
      PROVE  IInv'
  <2>1. dest \in CPUs
    BY <1>9, MasksAssumption
  <2>2. RequestThere(t, "affinity", p, dest)
    BY <1>1, <1>9, <2>1, RequestQueued
  <2>3. Types'
    BY <1>1, <1>2, <2>2 DEF IInv, Types, Replaced, RequestThere
  <2>4. PhaseRight'
    BY <1>1 DEF IInv, PhaseRight, Offline, Phases
  <2>5. ServersAwake'
    BY <1>1, <1>3, <1>4, <2>2, RequestAwaits
  <2>6. LeftoversRight'
    <3>1. \A u \in Tasks : /\ call'[u].pc = "exiting" => call[u].pc = "exiting"
                           /\ call'[u].pc = "gone" => call[u].pc = "gone"
      BY <2>2 DEF RequestThere
    <3> QED BY <1>1, <1>2, <1>5, <3>1 DEF Allowed, IInv, LeftoversRight, TasksLeft, Leftover
  <2>7. AffinityRight'
    <3>1. MoveDue(p)'
      BY <1>2, <1>3, <1>9, <2>2 DEF MoveDue, RequestThere, Allowed
    <3>2. ASSUME NEW u \in Tasks, u # p, MoveDue(u), thread[u].cpu \in online PROVE MoveDue(u)'
      BY <1>1, <1>5, <2>2, <3>2, RequestPreserves
    <3>3. \A u \in Tasks : call[u].pc = "gone" => call'[u].pc = "gone"
      BY <1>1, <2>2 DEF RequestThere
    <3> QED BY <1>1, <1>4, <1>5, <3>1, <3>2, <3>3 DEF IInv, AffinityRight
  <2> QED BY <1>6, <1>7, <2>2, <2>3, <2>4, <2>5, <2>6, <2>7 DEF IInv, RequestThere
<1> QED BY <1>2, <1>8, <1>9 DEF Allowed

\* sched_exec asks for itself: it runs, so that nothing is moved at once, and
\* not on a CPU that is gone.
LEMMA ExecStep ==
  ASSUME IInv, NEW t \in Tasks, NEW dest \in CPUs, sched_exec(t, dest)
  PROVE  IInv'
<1>1. /\ call[t].pc = "user" /\ thread[t].on /\ curr[thread[t].cpu] = t
      /\ migrate_task(t, "exec", t, dest, thread)
      /\ UNCHANGED <<curr, mt, online, active, hot, downs, gaveup>>
  BY DEF sched_exec, Runs, Running
<1>2. thread' = thread /\ RequestPut(t, "exec", t, dest)
  BY <1>1 DEF migrate_task, RequestPut
<1>3. RequestThere(t, "exec", t, dest)
  BY <1>1, <1>2, RequestQueued
<1>4. Types'
  BY <1>1, <1>2, <1>3 DEF IInv, Types, RequestThere
<1>5. PhaseRight'
  <2>1. Readers' \subseteq Readers
    BY <1>1, <1>3 DEF Readers, RequestThere
  <2> QED BY <1>1, <2>1 DEF IInv, PhaseRight
<1>6. CurrentRight' /\ ServersRight'
  BY <1>1, <1>2, Untouched DEF IInv
<1>7. ServersAwake'
  BY <1>1, <1>2, <1>3, RequestAwaits
<1>8. \A u \in Tasks : /\ call'[u].pc = "exiting" => call[u].pc = "exiting"
                       /\ call'[u].pc = "gone" => call[u].pc = "gone"
                       /\ call[u].pc \in {"exiting", "gone"} => call'[u] = call[u]
  BY <1>1, <1>3 DEF RequestThere
<1>9. LeftoversRight'
  <2>1. ASSUME NEW u \in Tasks, thread[u].cpu = HotCPU PROVE Leftover(u)'
    <3>1. Leftover(u)
      BY <2>1 DEF IInv, LeftoversRight, TasksLeft
    <3> QED BY <1>1, <1>8, <3>1 DEF Leftover
  <2>2. TasksLeft'
    BY <1>2, <1>8, <2>1 DEF TasksLeft, IInv, LeftoversRight
  <2>3. ASSUME hot.phase \in {"dead", "coming", "canceling"} PROVE queue'[HotCPU] = <<>>
    <3>1. thread[t].cpu # HotCPU
      BY <1>1, <2>3 DEF IInv, LeftoversRight, TasksLeft, Leftover
    <3>2. queue'[HotCPU] = queue[HotCPU]
      BY <1>3, <3>1, CPUsAssumption DEF RequestThere
    <3> QED BY <2>3, <3>2 DEF IInv, LeftoversRight
  <2> QED BY <1>1, <2>2, <2>3 DEF LeftoversRight
<1>10. AffinityRight'
  <2>1. \A u \in Tasks : MoveDue(u) /\ thread[u].cpu \in online => MoveDue(u)'
    BY <1>1, <1>2, <1>3, RequestPreserves
  <2> QED BY <1>1, <1>2, <1>8, <2>1 DEF IInv, AffinityRight
<1> QED BY <1>3, <1>4, <1>5, <1>6, <1>7, <1>9, <1>10 DEF IInv, RequestThere

\* A migration thread is woken, unless it is gone.
ServerWoken(c) ==
    /\ Replaced(c) /\ thread'[c].cpu = thread[c].cpu /\ thread'[c].allowed = thread[c].allowed
    /\ mt' \in [CPUs -> MtState]
    /\ \A d \in CPUs : mt'[d].pc = mt[d].pc /\ mt'[d].hand = mt[d].hand
    /\ \A d \in CPUs \ {c} : mt'[d] = mt[d]
    /\ mt[c].pc # "none" => thread'[c].on /\ ~mt'[c].intr

\* wake_up_process of a migration thread.
LEMMA ServerIsWoken ==
  ASSUME Types, NEW c \in CPUs, WakeMigrationThread(c)
  PROVE  ServerWoken(c)
<1>1. /\ c \in Threads /\ thread \in [Threads -> ThreadState] /\ mt \in [CPUs -> MtState]
      /\ thread[c] \in ThreadState /\ mt[c] \in MtState
  BY DEF Types, Threads
<1>2. CASE mt[c].pc = "none"
  <2>1. UNCHANGED <<thread, mt>>
    BY <1>2 DEF WakeMigrationThread
  <2> QED BY <1>1, <1>2, <2>1 DEF ServerWoken, Replaced
<1>3. CASE mt[c].pc # "none"
  <2>1. /\ mt' = [mt EXCEPT ![c].intr = FALSE]
        /\ thread' = [thread EXCEPT ![c].on = TRUE]
    BY <1>3 DEF WakeMigrationThread
  <2>2. /\ mt'[c].pc = mt[c].pc /\ mt'[c].hand = mt[c].hand /\ ~mt'[c].intr
        /\ \A d \in CPUs \ {c} : mt'[d] = mt[d]
    BY <1>1, <2>1 DEF MtState
  <2>3. mt' \in [CPUs -> MtState]
    BY <1>1, <2>1 DEF MtState
  <2>4. /\ thread'[c].cpu = thread[c].cpu /\ thread'[c].allowed = thread[c].allowed
        /\ thread'[c].on /\ \A y \in Threads \ {c} : thread'[y] = thread[y]
    BY <1>1, <2>1 DEF ThreadState
  <2>5. thread' \in [Threads -> ThreadState]
    BY <1>1, <2>1 DEF ThreadState
  <2> QED BY <2>2, <2>3, <2>4, <2>5 DEF ServerWoken, Replaced
<1> QED BY <1>2, <1>3

\* It wakes to find its queue, and holds what it held.
LEMMA ServerWokenKeeps ==
  ASSUME IInv, NEW c \in CPUs, ServerWoken(c), UNCHANGED <<curr, queue>>
  PROVE  /\ CurrentRight'
         /\ \A u \in Tasks : thread'[u] = thread[u]
         /\ \A d \in CPUs : thread'[d].cpu = thread[d].cpu /\ thread'[d].allowed = thread[d].allowed
         /\ \A d \in CPUs : Requests(d)' = Requests(d) /\ Unserved(d)' = Unserved(d)
<1>1. c \in Threads /\ \A d \in CPUs : d \in Threads
  BY DEF Threads
<1>2. CurrentRight'
  BY <1>1, CurrentKept DEF ServerWoken, IInv
<1>3. \A u \in Tasks : u \in Threads \ {c}
  BY ThreadsAssumption DEF Threads
<1>4. \A u \in Tasks : thread'[u] = thread[u]
  BY <1>3 DEF ServerWoken, Replaced
<1>5. \A d \in CPUs : thread'[d].cpu = thread[d].cpu /\ thread'[d].allowed = thread[d].allowed
  BY <1>1 DEF ServerWoken, Replaced
<1>6. \A d \in CPUs : Requests(d)' = Requests(d) /\ Unserved(d)' = Unserved(d)
  BY DEF ServerWoken, Requests, InHand, Unserved
<1> QED BY <1>2, <1>4, <1>5, <1>6

\* It is not asleep afterwards; the others have the callers they had.
LEMMA ServerWokenAwake ==
  ASSUME IInv, NEW c \in CPUs, ServerWoken(c), UNCHANGED queue, online' \subseteq CPUs,
         \A d \in online' \ {c} : d \in online,
         c \in online' => mt[c].pc # "none",
         \A u \in Tasks : call[u].pc = "kick" /\ call[u].rq # c => call'[u] = call[u]
  PROVE  ServersAwake'
<1> SUFFICES ASSUME NEW d \in CPUs, d \in online', queue[d] # <<>>,
                    ~thread'[d].on \/ (mt'[d].pc = "sched" /\ mt'[d].intr)
             PROVE  \E u \in Tasks : call'[u].pc = "kick" /\ call'[u].rq = d
  BY DEF ServersAwake
<1>1. d # c
  BY DEF ServerWoken
<1>2. thread'[d] = thread[d] /\ mt'[d] = mt[d]
  BY <1>1 DEF ServerWoken, Replaced, Threads
<1>3. PICK u \in Tasks : call[u].pc = "kick" /\ call[u].rq = d
  BY <1>1, <1>2 DEF IInv, ServersAwake
<1>4. call'[u] = call[u]
  BY <1>1, <1>3
<1> QED BY <1>3, <1>4

\* The caller has queued its request and wakes the migration thread.
LEMMA KickStep ==
  ASSUME IInv, NEW t \in Tasks, wake_migration_thread(t)
  PROVE  IInv'
<1>1. /\ call[t].pc = "kick" /\ call' = [call EXCEPT ![t].pc = "wait"]
      /\ WakeMigrationThread(call[t].rq)
      /\ UNCHANGED <<curr, done, queue, online, active, hot, calls, downs, gaveup>>
  BY DEF wake_migration_thread
<1>2. PICK c \in CPUs : c = call[t].rq
  BY <1>1 DEF IInv, RequestsRight, Waits
<1>3. ServerWoken(c)
  BY <1>1, <1>2, ServerIsWoken DEF IInv
<1>4. /\ CurrentRight'
      /\ \A u \in Tasks : thread'[u] = thread[u]
      /\ \A d \in CPUs : thread'[d].cpu = thread[d].cpu /\ thread'[d].allowed = thread[d].allowed
      /\ \A d \in CPUs : Requests(d)' = Requests(d) /\ Unserved(d)' = Unserved(d)
  BY <1>1, <1>3, ServerWokenKeeps
<1>5. /\ call' \in [Tasks -> CallState] /\ call'[t].pc = "wait"
      /\ \A u \in Tasks : u # t => call'[u] = call[u]
      /\ call'[t].op = call[t].op /\ call'[t].p = call[t].p
      /\ call'[t].dest = call[t].dest /\ call'[t].rq = call[t].rq
  <2>1. call \in [Tasks -> CallState] /\ call[t] \in CallState
    BY DEF IInv, Types
  <2> QED BY <1>1, <2>1 DEF CallState
<1>6. \A u \in Tasks : /\ Waits(u)' = Waits(u)
                       /\ call'[u].p = call[u].p /\ call'[u].dest = call[u].dest
                       /\ call'[u].rq = call[u].rq /\ call'[u].op = call[u].op
                       /\ call[u].pc \in {"exiting", "gone"} => call'[u].pc = call[u].pc
                       /\ call'[u].pc \in {"exiting", "gone"} => call'[u].pc = call[u].pc
  BY <1>1, <1>5 DEF Waits
<1>7. Types'
  BY <1>1, <1>3, <1>5 DEF IInv, Types, ServerWoken, Replaced
<1>8. PhaseRight'
  <2>1. Readers' = Readers
    BY <1>6 DEF Readers, Waits
  <2> QED BY <1>1, <2>1 DEF IInv, PhaseRight
<1>9. ServersRight'
  BY <1>1, <1>3, CPUsAssumption DEF IInv, ServersRight, ServerWoken
<1>10. RequestsRight'
  <2>1. \A d \in CPUs : Requests(d) \subseteq Tasks
    BY RequestsOfTasks DEF IInv
  <2>2. \A d \in CPUs : mt'[d].hand = mt[d].hand
    BY <1>3 DEF ServerWoken
  <2> QED BY <1>1, <1>4, <1>6, <2>1, <2>2 DEF IInv, RequestsRight
<1>11. ServersAwake'
  <2>1. online \subseteq CPUs /\ (c \in online => mt[c].pc # "none")
    BY DEF IInv, PhaseRight, ServersRight, Offline, Phases
  <2> QED BY <1>1, <1>2, <1>3, <1>5, <2>1, ServerWokenAwake
<1>12. LeftoversRight'
  BY <1>1, <1>4, <1>6 DEF IInv, LeftoversRight, TasksLeft, Leftover
<1>13. AffinityRight'
  <2>1. \A d \in CPUs : Unserved(d) \subseteq Tasks
    BY RequestsOfTasks DEF IInv
  <2>2. \A u \in Tasks : thread[u].cpu \in CPUs
    BY DEF IInv, Types, ThreadState, Threads
  <2>3. \A u \in Tasks : MoveDue(u) => MoveDue(u)'
    BY <1>4, <1>6, <2>1, <2>2 DEF MoveDue
  <2> QED BY <1>1, <1>4, <1>6, <2>3, CPUsAssumption DEF IInv, AffinityRight
<1> QED BY <1>4, <1>7, <1>8, <1>9, <1>10, <1>11, <1>12, <1>13 DEF IInv

\* The caller finds its request completed, or sleeps on.
LEMMA WaitStep ==
  ASSUME IInv, NEW t \in Tasks, wait_for_completion(t)
  PROVE  IInv'
<1>1. /\ call[t].pc = "wait"
      /\ UNCHANGED <<curr, queue, mt, online, active, hot, calls, downs, gaveup>>
      /\ \/ t \in done /\ call' = [call EXCEPT ![t] = InUser] /\ done' = done \ {t} /\ UNCHANGED thread
         \/ thread' = [thread EXCEPT ![t].on = FALSE] /\ UNCHANGED <<call, done>>
  BY DEF wait_for_completion
<1>2. CASE thread' = [thread EXCEPT ![t].on = FALSE] /\ UNCHANGED <<call, done>>
  BY <1>1, <1>2, SleepStep
<1>3. ASSUME t \in done, call' = [call EXCEPT ![t] = InUser], done' = done \ {t}, UNCHANGED thread
      PROVE  IInv'
  <2>1. InUser \in CallState /\ InUser.pc = "user"
    BY DEF InUser, CallState
  <2>2. /\ call' \in [Tasks -> CallState] /\ call'[t].pc = "user"
        /\ \A u \in Tasks : u # t => call'[u] = call[u]
    BY <1>3, <2>1 DEF IInv, Types
  <2>3. \A d \in CPUs : Requests(d)' = Requests(d) /\ Unserved(d)' = Unserved(d)
    BY <1>1 DEF Requests, InHand, Unserved
  <2>4. \A d \in CPUs : Requests(d) \subseteq Tasks \ {t} /\ Unserved(d) \subseteq Tasks \ {t}
    BY <1>3, RequestsOfTasks DEF IInv, RequestsRight
  <2>5. Types'
    BY <1>1, <1>3, <2>2 DEF IInv, Types
  <2>6. PhaseRight'
    <3>1. Readers' \subseteq Readers
      BY <2>2 DEF Readers
    <3> QED BY <1>1, <3>1 DEF IInv, PhaseRight
  <2>7. CurrentRight' /\ ServersRight'
    BY <1>1, <1>3, Untouched DEF IInv
  <2>8. RequestsRight'
    BY <1>1, <1>3, <2>2, <2>3, <2>4 DEF IInv, RequestsRight, Waits
  <2>9. ServersAwake'
    BY <1>1, <1>3, <2>2 DEF IInv, ServersAwake
  <2>10. LeftoversRight'
    <3>1. \A u \in Tasks : /\ call'[u].pc \in {"exiting", "gone"} => call'[u].pc = call[u].pc
                           /\ call[u].pc \in {"exiting", "gone"} => call'[u].pc = call[u].pc
      BY <1>1, <2>2
    <3> QED BY <1>1, <1>3, <3>1 DEF IInv, LeftoversRight, TasksLeft, Leftover
  <2>11. AffinityRight'
    <3>1. \A u \in Tasks : thread[u].cpu \in CPUs
      BY DEF IInv, Types, ThreadState, Threads
    <3>2. \A u \in Tasks : MoveDue(u) => MoveDue(u)'
      BY <1>3, <2>2, <2>3, <2>4, <3>1 DEF MoveDue
    <3>3. \A u \in Tasks : call[u].pc = "gone" => call'[u].pc = "gone"
      BY <1>1, <2>2
    <3> QED BY <1>1, <1>3, <3>2, <3>3 DEF IInv, AffinityRight
  <2> QED BY <2>5, <2>6, <2>7, <2>8, <2>9, <2>10, <2>11 DEF IInv
<1> QED BY <1>1, <1>2, <1>3

-----------------------------------------------------------------------------
(* The migration thread.                                                   *)

\* The thread goes to sleep, or stays as it was.
ServerRests(c) ==
    \/ thread' = thread
    \/ thread' = [thread EXCEPT ![c].on = FALSE]

\* It stays where it is.
LEMMA ServerStays ==
  ASSUME IInv, NEW c \in CPUs, ServerRests(c), UNCHANGED curr
  PROVE  /\ thread' \in [Threads -> ThreadState]
         /\ CurrentRight'
         /\ \A u \in Tasks : thread'[u] = thread[u]
         /\ \A d \in CPUs : /\ thread'[d].cpu = thread[d].cpu /\ thread'[d].allowed = thread[d].allowed
                            /\ d # c => thread'[d] = thread[d]
<1>1. c \in Threads /\ thread \in [Threads -> ThreadState] /\ thread[c] \in ThreadState
  BY DEF IInv, Types, Threads
<1>2. Replaced(c) /\ thread'[c].cpu = thread[c].cpu /\ thread'[c].allowed = thread[c].allowed
  <2>1. CASE thread' = thread
    BY <1>1, <2>1 DEF Replaced
  <2>2. CASE thread' = [thread EXCEPT ![c].on = FALSE]
    <3>1. /\ thread'[c].cpu = thread[c].cpu /\ thread'[c].allowed = thread[c].allowed
          /\ \A y \in Threads \ {c} : thread'[y] = thread[y]
      BY <1>1, <2>2 DEF ThreadState
    <3>2. thread' \in [Threads -> ThreadState]
      BY <1>1, <2>2 DEF ThreadState
    <3> QED BY <3>1, <3>2 DEF Replaced
  <2> QED BY <2>1, <2>2 DEF ServerRests
<1>3. CurrentRight'
  BY <1>1, <1>2, CurrentKept DEF IInv
<1>4. \A u \in Tasks : u \in Threads \ {c}
  BY ThreadsAssumption DEF Threads
<1> QED BY <1>2, <1>3, <1>4 DEF Replaced, Threads

\* Between two requests a migration thread changes only what it does next.
ServerGoes(c, pc) ==
    /\ mt' \in [CPUs -> MtState]
    /\ mt'[c].pc = pc /\ mt'[c].hand = mt[c].hand
    /\ \A d \in CPUs \ {c} : mt'[d] = mt[d]

\* The steps of a migration thread without a request: it goes on, sleeps, or ends.
LEMMA ServerTurn ==
  ASSUME IInv, NEW c \in CPUs, NEW pc \in {"none", "top", "sched", "die"},
         mt[c].pc \in {"top", "sched", "die"},
         ServerRests(c), ServerGoes(c, pc),
         UNCHANGED <<curr, call, done, queue, online, active, hot, gaveup>>,
         pc = "none" => c = HotCPU /\ hot.phase \in {"stopping", "canceling"},
         pc = "die" => c \notin online,
         c = HotCPU => hot.phase # "coming",
         c \in online /\ queue[c] # <<>> /\ (~thread'[c].on \/ (pc = "sched" /\ mt'[c].intr))
            => \E t \in Tasks : call[t].pc = "kick" /\ call[t].rq = c
  PROVE  IInv'
<1>1. /\ thread' \in [Threads -> ThreadState]
      /\ CurrentRight'
      /\ \A u \in Tasks : thread'[u] = thread[u]
      /\ \A d \in CPUs : /\ thread'[d].cpu = thread[d].cpu /\ thread'[d].allowed = thread[d].allowed
                         /\ d # c => thread'[d] = thread[d]
  BY ServerStays
<1>2. mt[c].hand = None /\ mt'[c].hand = None
  BY DEF IInv, ServersRight, ServerGoes
<1>3. \A d \in CPUs : /\ mt'[d].hand = mt[d].hand
                      /\ mt'[d].pc = "hold" <=> mt[d].pc = "hold"
                      /\ mt'[d].pc \in {"hold", "complete"} <=> mt[d].pc \in {"hold", "complete"}
  BY DEF ServerGoes
<1>4. Types'
  BY <1>1 DEF IInv, Types, ServerGoes
<1>5. PhaseRight'
  BY Untouched DEF IInv
<1>6. ServersRight'
  <2>1. ASSUME NEW d \in CPUs
        PROVE  /\ mt'[d].pc \in {"hold", "complete"} <=> mt'[d].hand # None
               /\ mt'[d].pc = "hold" => curr[d] = d /\ d \in online
               /\ mt'[d].pc = "none" => d = HotCPU /\ hot.phase \in {"stopping", "drain", "dead", "canceling"}
               /\ mt'[d].pc = "die" => d \notin online
    <3>1. CASE d = c
      BY <1>2, <3>1 DEF ServerGoes
    <3>2. CASE d # c
      BY <3>2 DEF IInv, ServersRight, ServerGoes
    <3> QED BY <3>1, <3>2
  <2>2. /\ hot.phase = "coming" => mt'[HotCPU].pc = "top"
        /\ hot.phase \in {"drain", "dead"} => mt'[HotCPU].pc = "none"
    BY CPUsAssumption DEF IInv, ServersRight, ServerGoes
  <2> QED BY <2>1, <2>2 DEF ServersRight
<1>7. \A d \in CPUs : Requests(d)' = Requests(d) /\ Unserved(d)' = Unserved(d)
  BY <1>3 DEF Requests, InHand, Unserved
<1>8. RequestsRight'
  BY <1>3, <1>7 DEF IInv, RequestsRight, Waits
<1>9. ServersAwake'
  <2>1. online \subseteq CPUs
    BY DEF IInv, PhaseRight
  <2> QED BY <1>1, <2>1 DEF IInv, ServersAwake, ServerGoes
<1>10. LeftoversRight'
  BY <1>1 DEF IInv, LeftoversRight, TasksLeft, Leftover
<1>11. AffinityRight'
  <2>1. \A u \in Tasks : thread[u].cpu \in CPUs
    BY DEF IInv, Types, ThreadState, Threads
  <2>2. \A u \in Tasks : MoveDue(u) => MoveDue(u)'
    BY <1>1, <1>7, <2>1 DEF MoveDue
  <2> QED BY <1>1, <2>2, CPUsAssumption DEF IInv, AffinityRight
<1> QED BY <1>1, <1>4, <1>5, <1>6, <1>8, <1>9, <1>10, <1>11 DEF IInv

\* The thread of a CPU that comes up does not run before the CPU is there.
LEMMA NotComing ==
  ASSUME IInv, NEW c \in CPUs, Running(c)
  PROVE  /\ c = HotCPU => hot.phase # "coming"
         /\ c \in online => curr[c] = c
<1>1. hot.phase = "coming" => curr[HotCPU] = None
  BY DEF IInv, PhaseRight, Offline, Phases
<1>2. c # None
  BY ThreadsAssumption
<1> QED BY <1>1, <1>2 DEF Running, IInv, AffinityRight

\* The thread takes the first request off its queue, with interrupts off.
LEMMA RequestTaken ==
  ASSUME IInv, NEW c \in CPUs, Running(c), mt[c].pc = "top", c \in online, queue[c] # <<>>,
         mt' = [mt EXCEPT ![c].pc = "hold", ![c].hand = Head(queue[c])],
         queue' = [queue EXCEPT ![c] = Tail(@)],
         UNCHANGED <<thread, curr, call, done, online, active, hot, calls, downs, gaveup>>
  PROVE  IInv'
<1>1. queue \in [CPUs -> Seq(Tasks)] /\ queue[c] \in Seq(Tasks) /\ IsInjective(queue[c])
  BY DEF IInv, Types, RequestsRight
<1>2. /\ Head(queue[c]) \in Tasks /\ Tail(queue[c]) \in Seq(Tasks)
      /\ IsInjective(Tail(queue[c]))
      /\ Head(queue[c]) \notin Range(Tail(queue[c]))
      /\ Range(queue[c]) = Range(Tail(queue[c])) \union {Head(queue[c])}
  BY <1>1, TakeFirst
<1>3. PICK h \in Tasks : h = Head(queue[c])
  BY <1>2
<1>4. /\ mt' \in [CPUs -> MtState] /\ mt'[c].pc = "hold" /\ mt'[c].hand = h
      /\ \A d \in CPUs \ {c} : mt'[d] = mt[d]
  <2>1. mt \in [CPUs -> MtState] /\ mt[c] \in MtState
    BY DEF IInv, Types
  <2>2. /\ mt'[c].pc = "hold" /\ mt'[c].hand = h
        /\ \A d \in CPUs \ {c} : mt'[d] = mt[d]
    BY <1>3, <2>1 DEF MtState
  <2>3. mt' \in [CPUs -> MtState]
    BY <1>3, <2>1 DEF MtState
  <2> QED BY <2>2, <2>3
<1>5. /\ queue' \in [CPUs -> Seq(Tasks)] /\ queue'[c] = Tail(queue[c])
      /\ \A d \in CPUs \ {c} : queue'[d] = queue[d]
  BY <1>1, <1>2
<1>6. mt[c].hand = None /\ h # None
  BY ThreadsAssumption DEF IInv, ServersRight
<1>7. \A d \in CPUs : Requests(d)' = Requests(d) /\ Unserved(d) \subseteq Unserved(d)'
  <2>1. \A d \in CPUs \ {c} : Requests(d)' = Requests(d) /\ Unserved(d) \subseteq Unserved(d)'
    BY <1>4, <1>5 DEF Requests, InHand, Unserved
  <2>2. Requests(c)' = Requests(c)
    BY <1>2, <1>3, <1>4, <1>5, <1>6 DEF Requests, InHand, NoHand
  <2>3. Unserved(c) \subseteq Unserved(c)'
    BY <1>2, <1>3, <1>4, <1>5 DEF Unserved
  <2> QED BY <2>1, <2>2, <2>3
<1>8. Types'
  BY <1>4, <1>5 DEF IInv, Types
<1>9. PhaseRight' /\ CurrentRight'
  BY Untouched DEF IInv
<1>10. ServersRight'
  <2>1. curr[c] = c
    BY NotComing
  <2>2. hot.phase \in {"coming", "drain", "dead"} => HotCPU # c
    BY DEF IInv, PhaseRight, Offline, Phases
  <2> QED BY <1>4, <1>6, <2>1, <2>2, CPUsAssumption DEF IInv, ServersRight
<1>11. RequestsRight'
  <2>1. \A d \in CPUs : IsInjective(queue'[d]) /\ mt'[d].hand \notin Range(queue'[d])
    BY <1>2, <1>3, <1>4, <1>5 DEF IInv, RequestsRight
  <2> QED BY <1>7, <2>1 DEF IInv, RequestsRight, Waits
<1>12. ServersAwake'
  <2>1. online \subseteq CPUs
    BY DEF IInv, PhaseRight
  <2>2. ASSUME ~thread[c].on PROVE \E t \in Tasks : call[t].pc = "kick" /\ call[t].rq = c
    BY <2>2 DEF IInv, ServersAwake
  <2> QED BY <1>4, <1>5, <2>1, <2>2 DEF IInv, ServersAwake
<1>13. LeftoversRight'
  <2>1. hot.phase \in {"dead", "coming", "canceling"} => HotCPU # c
    BY DEF IInv, PhaseRight, Offline, Phases
  <2>2. TasksLeft'
    BY DEF IInv, LeftoversRight, TasksLeft, Leftover
  <2> QED BY <1>5, <2>1, <2>2, CPUsAssumption DEF IInv, LeftoversRight
<1>14. AffinityRight'
  <2>1. \A u \in Tasks : thread[u].cpu \in CPUs
    BY DEF IInv, Types, ThreadState, Threads
  <2>2. \A u \in Tasks : MoveDue(u) => MoveDue(u)'
    BY <1>7, <2>1 DEF MoveDue
  <2> QED BY <2>2 DEF IInv, AffinityRight
<1> QED BY <1>8, <1>9, <1>10, <1>11, <1>12, <1>13, <1>14 DEF IInv

\* The top of the loop: stop, wait to die, sleep on an empty queue, or serve.
LEMMA TopStep ==
  ASSUME IInv, NEW c \in CPUs, migration_thread(c)
  PROVE  IInv'
<1>1. /\ Running(c) /\ thread[c].on /\ mt[c].pc = "top"
      /\ UNCHANGED <<curr, call, done, online, active, hot, calls, downs, gaveup>>
      /\ mt \in [CPUs -> MtState] /\ mt[c] \in MtState /\ mt[c].hand = None
  BY DEF migration_thread, Runs, IInv, Types, ServersRight
<1>2. c = HotCPU => hot.phase # "coming"
  BY <1>1, NotComing
<1>3. CASE /\ kthread_should_stop(c) /\ UNCHANGED queue
           /\ mt' = [mt EXCEPT ![c] = [pc |-> "none", intr |-> FALSE, hand |-> NoHand]]
           /\ thread' = [thread EXCEPT ![c].on = FALSE]
  <2>1. ServerGoes(c, "none") /\ ServerRests(c)
    BY <1>1, <1>3 DEF ServerGoes, ServerRests, MtState, NoHand
  <2>2. c = HotCPU /\ hot.phase \in {"stopping", "canceling"}
    BY <1>3 DEF kthread_should_stop
  <2>3. c \notin online
    BY <2>2 DEF IInv, PhaseRight, Offline, Phases
  <2> QED BY <1>1, <1>3, <2>1, <2>2, <2>3, ServerTurn
<1>4. CASE c \notin online /\ Goto(c, "die") /\ UNCHANGED <<thread, queue>>
  <2>1. ServerGoes(c, "die") /\ ServerRests(c)
    BY <1>1, <1>4 DEF ServerGoes, ServerRests, MtState, Goto
  <2> QED BY <1>1, <1>2, <1>4, <2>1, ServerTurn
<1>5. CASE queue[c] = <<>> /\ Goto(c, "sched") /\ UNCHANGED <<thread, queue>>
  <2>1. ServerGoes(c, "sched") /\ ServerRests(c)
    BY <1>1, <1>5 DEF ServerGoes, ServerRests, MtState, Goto
  <2> QED BY <1>1, <1>2, <1>5, <2>1, ServerTurn
<1>6. CASE /\ c \in online /\ queue[c] # <<>>
           /\ mt' = [mt EXCEPT ![c].pc = "hold", ![c].hand = Head(queue[c])]
           /\ queue' = [queue EXCEPT ![c] = Tail(@)]
           /\ UNCHANGED thread
  BY <1>1, <1>6, RequestTaken
<1> QED BY <1>3, <1>4, <1>5, <1>6 DEF migration_thread

\* Sleeping, waking and waiting for the end.
LEMMA LoopStep ==
  ASSUME IInv, NEW c \in CPUs,
         MigrationThreadSleeps(c) \/ set_current_state(c) \/ wait_to_die(c)
  PROVE  IInv'
<1>1. /\ Running(c) /\ thread[c].on /\ mt[c].pc \in {"sched", "die"}
      /\ UNCHANGED <<curr, call, done, queue, online, active, hot, calls, downs, gaveup>>
      /\ mt \in [CPUs -> MtState] /\ mt[c] \in MtState /\ mt[c].hand = None
  BY DEF MigrationThreadSleeps, set_current_state, wait_to_die, Runs, IInv, Types, ServersRight
<1>2. c = HotCPU => hot.phase # "coming"
  BY <1>1, NotComing
<1>3. CASE MigrationThreadSleeps(c)
  <2>1. /\ mt[c].pc = "sched" /\ mt[c].intr /\ UNCHANGED mt
        /\ thread' = [thread EXCEPT ![c].on = FALSE]
    BY <1>3 DEF MigrationThreadSleeps
  <2>2. ServerGoes(c, "sched") /\ ServerRests(c)
    BY <1>1, <2>1 DEF ServerGoes, ServerRests
  <2>3. c \in online /\ queue[c] # <<>> => \E t \in Tasks : call[t].pc = "kick" /\ call[t].rq = c
    BY <2>1 DEF IInv, ServersAwake
  <2> QED BY <1>1, <1>2, <2>1, <2>2, <2>3, ServerTurn
<1>4. CASE set_current_state(c)
  <2>1. /\ mt[c].pc = "sched" /\ UNCHANGED thread
        /\ mt' = [mt EXCEPT ![c].pc = "top", ![c].intr = TRUE]
    BY <1>4 DEF set_current_state
  <2>2. ServerGoes(c, "top") /\ ServerRests(c)
    BY <1>1, <2>1 DEF ServerGoes, ServerRests, MtState
  <2> QED BY <1>1, <1>2, <2>1, <2>2, ServerTurn
<1>5. CASE wait_to_die(c)
  <2>1. /\ mt[c].pc = "die" /\ thread' = [thread EXCEPT ![c].on = FALSE]
        /\ IF kthread_should_stop(c)
           THEN mt' = [mt EXCEPT ![c] = [pc |-> "none", intr |-> FALSE, hand |-> NoHand]]
           ELSE UNCHANGED mt
    BY <1>5 DEF wait_to_die
  <2>2. ServerRests(c) /\ c \notin online
    BY <2>1 DEF ServerRests, IInv, ServersRight
  <2>3. CASE kthread_should_stop(c)
    <3>1. ServerGoes(c, "none")
      <4>1. mt' = [mt EXCEPT ![c] = [pc |-> "none", intr |-> FALSE, hand |-> NoHand]]
        BY <2>1, <2>3
      <4> QED BY <1>1, <4>1 DEF ServerGoes, MtState, NoHand
    <3>2. c = HotCPU /\ hot.phase \in {"stopping", "canceling"}
      BY <2>3 DEF kthread_should_stop
    <3> QED BY <1>1, <2>1, <2>2, <3>1, <3>2, ServerTurn
  <2>4. CASE ~kthread_should_stop(c)
    <3>1. ServerGoes(c, "die")
      BY <1>1, <2>1, <2>4 DEF ServerGoes
    <3> QED BY <1>1, <1>2, <2>1, <2>2, <3>1, ServerTurn
  <2> QED BY <2>3, <2>4
<1> QED BY <1>3, <1>4, <1>5

\* A request in hand is one of its CPU's, of a caller that waits for it.
LEMMA InHandRight ==
  ASSUME IInv, NEW c \in CPUs, mt[c].pc \in {"hold", "complete"}
  PROVE  \E h \in Tasks :
           /\ h = mt[c].hand /\ h \in Requests(c) /\ h \notin Range(queue[c])
           /\ Waits(h) /\ h \notin done /\ call[h].p \in Tasks /\ call[h].dest \in CPUs
<1>1. mt[c].hand # None /\ mt[c].hand \in Tasks \union {None}
  BY DEF IInv, ServersRight, Types, MtState
<1>2. PICK h \in Tasks : h = mt[c].hand
  BY <1>1
<1>3. h \in Requests(c) /\ h \notin Range(queue[c])
  BY <1>1, <1>2 DEF Requests, InHand, NoHand, IInv, RequestsRight
<1> QED BY <1>2, <1>3 DEF IInv, RequestsRight

\* __migrate_task: the task is moved where it may go, or not at all; it does not
\* run, because the migration thread runs on its CPU.
LEMMA HandleStep ==
  ASSUME IInv, NEW c \in CPUs, HandleRequest(c)
  PROVE  IInv'
<1>1. /\ Running(c) /\ mt[c].pc = "hold" /\ Goto(c, "complete")
      /\ UNCHANGED <<curr, call, done, queue, online, active, hot, calls, downs>>
  BY DEF HandleRequest
<1>2. PICK h \in Tasks :
        /\ h = mt[c].hand /\ h \in Requests(c) /\ h \notin Range(queue[c])
        /\ Waits(h) /\ h \notin done /\ call[h].p \in Tasks /\ call[h].dest \in CPUs
  BY <1>1, InHandRight
<1>3. PICK p \in Tasks, dest \in CPUs : p = call[h].p /\ dest = call[h].dest
  BY <1>2
<1>4. /\ thread' = __migrate_task(p, c, dest)
      /\ gaveup' = IF dest \in active THEN gaveup ELSE gaveup \union {p}
  BY <1>2, <1>3 DEF HandleRequest
<1>5. curr[c] = c /\ c \in online
  BY <1>1 DEF IInv, ServersRight
<1>6. p \in Threads /\ thread \in [Threads -> ThreadState] /\ thread[p] \in ThreadState
  BY DEF IInv, Types, Threads
<1>7. /\ thread' \in [Threads -> ThreadState]
      /\ \A y \in Threads \ {p} : thread'[y] = thread[y]
      /\ thread'[p].allowed = thread[p].allowed /\ thread'[p].on = thread[p].on
      /\ \/ thread[p].cpu = c /\ thread'[p].cpu = dest /\ dest \in active /\ dest \in thread[p].allowed
         \/ /\ thread'[p].cpu = thread[p].cpu
            /\ ~ (dest \in active /\ thread[p].cpu = c /\ dest \in thread[p].allowed)
  <2>1. CASE dest \in active /\ thread[p].cpu = c /\ dest \in thread[p].allowed
    <3>1. thread' = [thread EXCEPT ![p].cpu = dest]
      BY <1>4, <2>1 DEF __migrate_task
    <3>2. /\ thread'[p].allowed = thread[p].allowed /\ thread'[p].on = thread[p].on
          /\ thread'[p].cpu = dest /\ \A y \in Threads \ {p} : thread'[y] = thread[y]
      BY <1>6, <3>1 DEF ThreadState
    <3>3. thread' \in [Threads -> ThreadState]
      BY <1>6, <3>1 DEF ThreadState
    <3> QED BY <2>1, <3>2, <3>3
  <2>2. CASE ~ (dest \in active /\ thread[p].cpu = c /\ dest \in thread[p].allowed)
    <3>1. thread' = thread
      BY <1>4, <2>2 DEF __migrate_task
    <3> QED BY <1>6, <2>2, <3>1
  <2> QED BY <2>1, <2>2
<1>8. Replaced(p)
  <2>1. thread[p].cpu = c => ~Running(p)
    BY <1>5, ThreadsAssumption DEF Running
  <2> QED BY <1>7, <2>1 DEF Replaced
<1>9. /\ mt' \in [CPUs -> MtState] /\ mt'[c].pc = "complete" /\ mt'[c].hand = h
      /\ \A d \in CPUs \ {c} : mt'[d] = mt[d]
  <2>1. mt \in [CPUs -> MtState] /\ mt[c] \in MtState
    BY DEF IInv, Types
  <2>2. /\ mt'[c].pc = "complete" /\ mt'[c].hand = h
        /\ \A d \in CPUs \ {c} : mt'[d] = mt[d]
    BY <1>1, <1>2, <2>1 DEF MtState, Goto
  <2>3. mt' \in [CPUs -> MtState]
    BY <1>1, <2>1 DEF MtState, Goto
  <2> QED BY <2>2, <2>3
<1>10. \A d \in CPUs : mt'[d].hand = mt[d].hand
  BY <1>2, <1>9
<1>11. \A d \in CPUs : /\ Requests(d)' = Requests(d)
                       /\ \A v \in Unserved(d) : v # h \/ d # c => v \in Unserved(d)'
  <2>1. \A d \in CPUs : Requests(d)' = Requests(d)
    BY <1>1, <1>10 DEF Requests, InHand
  <2>2. ASSUME NEW d \in CPUs, NEW v \in Unserved(d), v # h \/ d # c PROVE v \in Unserved(d)'
    BY <1>1, <1>2, <1>9, <2>2 DEF Unserved
  <2> QED BY <2>1, <2>2
<1>12. Types'
  BY <1>1, <1>7, <1>9 DEF IInv, Types
<1>13. PhaseRight'
  BY <1>1, Untouched DEF IInv
<1>14. CurrentRight'
  BY <1>1, <1>6, <1>8, CurrentKept DEF IInv
<1>15. ServersRight'
  <2>1. c = HotCPU => hot.phase \notin {"coming", "drain", "dead"}
    BY <1>5 DEF IInv, PhaseRight, Offline, Phases
  <2>2. h # None
    BY ThreadsAssumption
  <2> QED BY <1>1, <1>9, <2>1, <2>2, CPUsAssumption DEF IInv, ServersRight
<1>16. RequestsRight'
  BY <1>1, <1>10, <1>11 DEF IInv, RequestsRight, Waits
<1>17. \A d \in CPUs : thread'[d] = thread[d]
  BY <1>7, ThreadsAssumption DEF Threads
<1>18. ServersAwake'
  <2>1. online \subseteq CPUs
    BY DEF IInv, PhaseRight
  <2> QED BY <1>1, <1>9, <1>17, <2>1 DEF IInv, ServersAwake
<1>19. \A u \in Tasks : u # p => thread'[u] = thread[u]
  BY <1>7 DEF Threads
<1>20. LeftoversRight'
  <2>1. thread'[p].cpu = HotCPU => Leftover(p)
    <3>1. CASE thread'[p].cpu = thread[p].cpu
      BY <3>1 DEF IInv, LeftoversRight, TasksLeft
    <3>2. CASE thread'[p].cpu \in active
      BY <3>2 DEF IInv, PhaseRight, Leftover
    <3> QED BY <1>7, <3>1, <3>2
  <2>2. \A u \in Tasks : Leftover(u)' = Leftover(u)
    BY <1>1 DEF Leftover
  <2>3. TasksLeft'
    BY <1>1, <1>7, <1>19, <2>1, <2>2 DEF IInv, LeftoversRight, TasksLeft
  <2> QED BY <1>1, <2>3 DEF IInv, LeftoversRight
<1>21. AffinityRight'
  <2>1. ASSUME NEW u \in Tasks, call[u].pc # "gone", thread'[u].cpu \notin thread'[u].allowed
        PROVE  MoveDue(u)' \/ thread'[u].cpu \notin online \/ u \in gaveup'
    <3>1. thread'[u].cpu = thread[u].cpu /\ thread'[u].allowed = thread[u].allowed
      BY <1>7, <1>19, <2>1
    <3>2. MoveDue(u) \/ thread[u].cpu \notin online \/ u \in gaveup
      BY <2>1, <3>1 DEF IInv, AffinityRight
    <3>3. ASSUME MoveDue(u) PROVE MoveDue(u)' \/ u \in gaveup'
      <4>1. PICK v \in Unserved(thread[u].cpu) : call[v].p = u /\ call[v].dest \in thread[u].allowed
        BY <3>3 DEF MoveDue
      <4>2. PICK d \in CPUs : d = thread[u].cpu
        BY DEF IInv, Types, ThreadState, Threads
      <4>3. CASE v = h /\ d = c
        <5>1. u = p /\ thread[p].cpu = c /\ dest \in thread[p].allowed
          BY <1>3, <4>1, <4>2, <4>3
        <5>2. dest \notin active
          BY <1>7, <2>1, <5>1
        <5> QED BY <1>4, <5>1, <5>2
      <4>4. CASE v # h \/ d # c
        <5>1. v \in Unserved(d)'
          BY <1>11, <4>1, <4>2, <4>4
        <5> QED BY <1>1, <3>1, <4>1, <4>2, <5>1 DEF MoveDue
      <4> QED BY <4>3, <4>4
    <3> QED BY <1>4, <3>1, <3>2, <3>3
  <2> QED BY <1>1, <1>17, <2>1 DEF IInv, AffinityRight
<1> QED BY <1>12, <1>13, <1>14, <1>15, <1>16, <1>18, <1>20, <1>21 DEF IInv

\* complete: the caller may go on, and is woken if it sleeps.
LEMMA Completed ==
  ASSUME IInv, NEW h \in Tasks, Waits(h), complete(h), UNCHANGED <<call, curr, online, hot, gaveup>>
  PROVE  /\ thread' \in [Threads -> ThreadState]
         /\ done' = done \union {h}
         /\ \A c \in CPUs : thread'[c] = thread[c]
         /\ CurrentRight' /\ TasksLeft'
         /\ UnservedKept => AffinityRight'
<1>1. done' = done \union {h}
  BY DEF complete
<1>2. CASE call[h].pc = "wait"
  <2>1. WokenUp(h) /\ Replaced(h)
    BY <1>2, Woken DEF complete, IInv, WokenUp
  <2>2. CurrentRight' /\ TasksLeft' /\ (UnservedKept => AffinityRight')
    BY <1>2, <2>1, WokenKeeps
  <2>3. \A c \in CPUs : thread'[c] = thread[c]
    BY <2>1, ThreadsAssumption DEF Replaced, Threads
  <2> QED BY <1>1, <2>1, <2>2, <2>3 DEF Replaced
<1>3. CASE call[h].pc # "wait"
  <2>1. thread' = thread
    BY <1>3 DEF complete
  <2>2. TasksLeft'
    BY <2>1 DEF IInv, LeftoversRight, TasksLeft, Leftover
  <2>3. ASSUME UnservedKept PROVE AffinityRight'
    <3>1. \A u \in Tasks : MoveDue(u) /\ thread[u].cpu \in online => MoveDue(u)'
      BY <2>1, <2>3 DEF MoveDue, UnservedKept
    <3> QED BY <2>1, <3>1 DEF IInv, AffinityRight
  <2> QED BY <1>1, <2>1, <2>2, <2>3, Untouched DEF IInv, Types
<1> QED BY <1>2, <1>3

\* The request in hand is done, the caller told.
LEMMA CompleteStep ==
  ASSUME IInv, NEW c \in CPUs, CompleteRequest(c)
  PROVE  IInv'
<1>1. /\ Running(c) /\ thread[c].on /\ mt[c].pc = "complete" /\ complete(mt[c].hand)
      /\ mt' = [mt EXCEPT ![c].pc = "top", ![c].hand = NoHand]
      /\ UNCHANGED <<curr, call, queue, online, active, hot, calls, downs, gaveup>>
  BY DEF CompleteRequest, Runs
<1>2. PICK h \in Tasks :
        /\ h = mt[c].hand /\ h \in Requests(c) /\ h \notin Range(queue[c])
        /\ Waits(h) /\ h \notin done /\ call[h].p \in Tasks /\ call[h].dest \in CPUs
  BY <1>1, InHandRight
<1>3. /\ thread' \in [Threads -> ThreadState]
      /\ done' = done \union {h}
      /\ \A d \in CPUs : thread'[d] = thread[d]
      /\ CurrentRight' /\ TasksLeft'
      /\ UnservedKept => AffinityRight'
  BY <1>1, <1>2, Completed
<1>4. /\ mt' \in [CPUs -> MtState] /\ mt'[c].pc = "top" /\ mt'[c].hand = None
      /\ \A d \in CPUs \ {c} : mt'[d] = mt[d]
  <2>1. mt \in [CPUs -> MtState] /\ mt[c] \in MtState
    BY DEF IInv, Types
  <2>2. /\ mt'[c].pc = "top" /\ mt'[c].hand = None
        /\ \A d \in CPUs \ {c} : mt'[d] = mt[d]
    BY <1>1, <2>1 DEF MtState, NoHand
  <2>3. mt' \in [CPUs -> MtState]
    BY <1>1, <2>1 DEF MtState, NoHand
  <2> QED BY <2>2, <2>3
<1>5. /\ \A d \in CPUs \ {c} : Requests(d)' = Requests(d)
      /\ Requests(c)' = Requests(c) \ {h}
      /\ \A d \in CPUs : Requests(d) \subseteq Tasks
  <2>1. \A d \in CPUs \ {c} : Requests(d)' = Requests(d)
    BY <1>1, <1>4 DEF Requests, InHand
  <2>2. Requests(c)' = Requests(c) \ {h}
    BY <1>1, <1>2, <1>4 DEF Requests, InHand, NoHand
  <2> QED BY <2>1, <2>2, RequestsOfTasks DEF IInv
<1>6. UnservedKept
  <2>1. online \subseteq CPUs
    BY DEF IInv, PhaseRight
  <2> QED BY <1>1, <1>4, <2>1 DEF UnservedKept, Unserved
<1>7. Types'
  BY <1>1, <1>3, <1>4 DEF IInv, Types
<1>8. PhaseRight'
  BY <1>1, Untouched DEF IInv
<1>9. ServersRight'
  <2>1. c = HotCPU => hot.phase \notin {"coming", "drain", "dead"}
    BY <1>1, NotComing DEF IInv, ServersRight
  <2> QED BY <1>1, <1>4, <2>1, CPUsAssumption DEF IInv, ServersRight
<1>10. RequestsRight'
  <2>1. call[h].rq = c /\ \A d \in CPUs : h \in Requests(d) => d = c
    BY <1>2 DEF IInv, RequestsRight
  <2>2. \A d \in CPUs : mt'[d].hand \notin Range(queue[d])
    <3>1. \A d \in CPUs : Range(queue[d]) \subseteq Tasks
      BY <1>5 DEF Requests
    <3> QED BY <1>4, <3>1, ThreadsAssumption DEF IInv, RequestsRight
  <2>3. \A d \in CPUs, u \in Tasks : u \in Requests(d)' <=> u \in Requests(d) /\ u # h
    BY <1>5, <2>1
  <2>4. \A d \in CPUs : Requests(d)' \subseteq Tasks
    BY <1>5
  <2> QED BY <1>1, <1>3, <2>2, <2>3, <2>4 DEF IInv, RequestsRight, Waits
<1>11. ServersAwake'
  <2>1. online \subseteq CPUs
    BY DEF IInv, PhaseRight
  <2> QED BY <1>1, <1>3, <1>4, <2>1 DEF IInv, ServersAwake
<1>12. LeftoversRight'
  BY <1>1, <1>3 DEF IInv, LeftoversRight
<1> QED BY <1>3, <1>6, <1>7, <1>8, <1>9, <1>10, <1>11, <1>12 DEF IInv

-----------------------------------------------------------------------------
(* Hotplug.                                                                *)

\* A change of phase is nothing else.
LEMMA PhaseChanged ==
  ASSUME Types, NEW from, NEW to \in Phases, Phase(from, to)
  PROVE  /\ hot.phase = from /\ hot'.phase = to /\ hot'.todo = hot.todo
         /\ hot' \in [phase : Phases, todo : Seq(Threads)]
<1>1. hot \in [phase : Phases, todo : Seq(Threads)] /\ hot.phase = from
      /\ hot' = [hot EXCEPT !.phase = to]
  BY DEF Types, Phase
<1> QED BY <1>1

\* Before the CPU is gone: out of cpu_active_mask, and back.
LEMMA PrepareStep ==
  ASSUME IInv, cpu_down \/ CPU_DOWN_PREPARE \/ CPU_DOWN_FAILED
  PROVE  IInv'
<1>1. /\ UNCHANGED <<thread, curr, call, done, queue, mt, online, gaveup>>
      /\ \/ Phase("up", "inactive") /\ active' = active \ {HotCPU}
         \/ Phase("inactive", "prepare") /\ Readers = {} /\ UNCHANGED active
         \/ Phase("prepare", "up") /\ active' = active \union {HotCPU}
  BY DEF cpu_down, CPU_DOWN_PREPARE, CPU_DOWN_FAILED
<1>2. /\ hot' \in [phase : Phases, todo : Seq(Threads)]
      /\ \/ hot.phase = "up" /\ hot'.phase = "inactive" /\ active' = active \ {HotCPU}
         \/ hot.phase = "inactive" /\ hot'.phase = "prepare" /\ Readers = {} /\ UNCHANGED active
         \/ hot.phase = "prepare" /\ hot'.phase = "up" /\ active' = active \union {HotCPU}
  BY <1>1, PhaseChanged DEF IInv, Phases
<1>3. Types'
  BY <1>1, <1>2 DEF IInv, Types
<1>4. PhaseRight'
  <2>1. Readers' = Readers
    BY <1>1 DEF Readers
  <2>2. active' = IF hot'.phase = "up" THEN CPUs ELSE CPUs \ {HotCPU}
    BY <1>2, CPUsAssumption DEF IInv, PhaseRight
  <2>3. online' = CPUs
    BY <1>1, <1>2 DEF IInv, PhaseRight, Offline, Phases
  <2> QED BY <1>2, <2>1, <2>2, <2>3 DEF PhaseRight, Offline, Phases, IInv
<1>5. CurrentRight' /\ RequestsRight' /\ ServersAwake'
  BY <1>1, Untouched DEF IInv
<1>6. ServersRight'
  BY <1>1, <1>2 DEF IInv, ServersRight
<1>7. LeftoversRight'
  BY <1>1, <1>2 DEF IInv, LeftoversRight, TasksLeft, Leftover
<1>8. AffinityRight'
  <2>1. \A u \in Tasks : MoveDue(u)' = MoveDue(u)
    BY <1>1 DEF MoveDue, Unserved
  <2> QED BY <1>1, <1>2, <2>1 DEF IInv, AffinityRight
<1> QED BY <1>3, <1>4, <1>5, <1>6, <1>7, <1>8 DEF IInv

\* The CPU leaves: stop_machine finds no migration thread with a request in hand.
LEMMA DyingStep ==
  ASSUME IInv, CPU_DYING
  PROVE  IInv'
<1>1. /\ \A c \in CPUs : ~IrqsOff(c)
      /\ Phase("prepare", "dying")
      /\ online' = online \ {HotCPU} /\ curr' = [curr EXCEPT ![HotCPU] = None]
      /\ UNCHANGED <<thread, call, done, queue, mt, active, calls, downs, gaveup>>
  BY DEF CPU_DYING
<1>2. /\ hot' \in [phase : Phases, todo : Seq(Threads)]
      /\ hot.phase = "prepare" /\ hot'.phase = "dying"
  BY <1>1, PhaseChanged DEF IInv, Phases
<1>3. /\ curr' \in [CPUs -> Threads \union {None}] /\ curr'[HotCPU] = None
      /\ \A c \in CPUs \ {HotCPU} : curr'[c] = curr[c]
  BY <1>1, CPUsAssumption DEF IInv, Types
<1>4. online = CPUs /\ online' = CPUs \ {HotCPU} /\ active = CPUs \ {HotCPU}
  BY <1>1, <1>2 DEF IInv, PhaseRight, Offline, Phases
<1>5. Types'
  BY <1>1, <1>2, <1>3 DEF IInv, Types
<1>6. PhaseRight'
  <2>1. Readers' = Readers
    BY <1>1 DEF Readers
  <2> QED BY <1>1, <1>2, <1>4, <2>1 DEF PhaseRight, Offline, Phases, IInv
<1>7. CurrentRight'
  BY <1>1, <1>3 DEF IInv, CurrentRight
<1>8. ServersRight'
  <2>1. mt[HotCPU].pc # "hold"
    <3>1. SUFFICES ASSUME mt[HotCPU].pc = "hold" PROVE FALSE
      OBVIOUS
    <3>2. curr[HotCPU] = HotCPU
      BY <3>1, CPUsAssumption DEF IInv, ServersRight
    <3>3. Holding(HotCPU)
      BY <3>1, <3>2, CPUsAssumption DEF Holding
    <3> QED BY <1>1, <3>3, CPUsAssumption DEF IrqsOff
  <2> QED BY <1>1, <1>2, <1>3, <1>4, <2>1 DEF IInv, ServersRight
<1>9. RequestsRight'
  BY <1>1, Untouched DEF IInv
<1>10. ServersAwake'
  BY <1>1, <1>4 DEF IInv, ServersAwake
<1>11. LeftoversRight'
  BY <1>1, <1>2 DEF IInv, LeftoversRight, TasksLeft, Leftover
<1>12. AffinityRight'
  <2>1. \A u \in Tasks : MoveDue(u)' = MoveDue(u)
    BY <1>1 DEF MoveDue, Unserved
  <2> QED BY <1>1, <1>2, <1>4, <2>1 DEF IInv, AffinityRight
<1> QED BY <1>5, <1>6, <1>7, <1>8, <1>9, <1>10, <1>11, <1>12 DEF IInv

\* The steps of hotplug that only change the phase, where the CPU stays away.
LEMMA AwayStep ==
  ASSUME IInv, hot' \in [phase : Phases, todo : Seq(Threads)],
         hot.phase \in Offline, hot'.phase \in Offline \ {"dying", "coming"},
         curr[HotCPU] = None,
         mt[HotCPU].pc = "none" => hot'.phase \in {"stopping", "drain", "dead", "canceling"},
         hot'.phase \in {"drain", "dead"} => mt[HotCPU].pc = "none",
         \A t \in Tasks : thread[t].cpu = HotCPU => Leftover(t)',
         hot'.phase \in {"dead", "canceling"} => queue[HotCPU] = <<>>,
         UNCHANGED <<thread, curr, call, done, queue, mt, online, active, gaveup>>
  PROVE  IInv'
<1>1. Types'
  BY DEF IInv, Types
<1>2. PhaseRight'
  <2>1. Readers' = Readers
    BY DEF Readers
  <2> QED BY <2>1 DEF PhaseRight, Offline, Phases, IInv
<1>3. CurrentRight' /\ RequestsRight' /\ ServersAwake'
  BY Untouched DEF IInv
<1>4. ServersRight'
  BY DEF IInv, ServersRight, Offline
<1>5. LeftoversRight'
  BY DEF IInv, LeftoversRight, TasksLeft, Offline
<1>6. AffinityRight'
  <2>1. \A u \in Tasks : MoveDue(u)' = MoveDue(u)
    BY DEF MoveDue, Unserved
  <2> QED BY <2>1 DEF IInv, AffinityRight, Offline
<1> QED BY <1>1, <1>2, <1>3, <1>4, <1>5, <1>6 DEF IInv

\* The idle task runs on the CPU, and the list of threads is gone through.
LEMMA DeadStep ==
  ASSUME IInv, CPU_DEAD
  PROVE  IInv'
<1>1. /\ curr[HotCPU] = None /\ hot.phase = "dying" /\ hot' = [phase |-> "live", todo |-> TaskList]
      /\ UNCHANGED <<thread, curr, call, done, queue, mt, online, active, calls, downs, gaveup>>
  BY DEF CPU_DEAD
<1>2. /\ hot' \in [phase : Phases, todo : Seq(Threads)]
      /\ hot'.phase = "live" /\ Range(hot'.todo) = Threads
  BY <1>1, TaskListComplete DEF Phases
<1>3. mt[HotCPU].pc # "none"
  BY <1>1, CPUsAssumption DEF IInv, ServersRight
<1>4. \A t \in Tasks : Leftover(t)'
  BY <1>2 DEF Leftover, Threads
<1> QED BY <1>1, <1>2, <1>3, <1>4, AwayStep DEF Offline, Phases

\* The elements of a list are the first and those of the rest.
LEMMA FirstAndRest ==
  ASSUME NEW S, NEW s \in Seq(S), s # <<>>
  PROVE  /\ Head(s) \in S /\ Tail(s) \in Seq(S)
         /\ Range(s) \subseteq Range(Tail(s)) \union {Head(s)}
<1>1. /\ Tail(s) \in Seq(S) /\ Len(Tail(s)) = Len(s) - 1 /\ Len(s) \in Nat /\ Len(s) >= 1
      /\ Head(s) = s[1] /\ s[1] \in S
      /\ \A i \in 1 .. Len(s) - 1 : Tail(s)[i] = s[i + 1]
  OBVIOUS
<1>2. DOMAIN Tail(s) = 1 .. Len(s) - 1 /\ DOMAIN s = 1 .. Len(s)
  BY <1>1
<1>3. \A i \in 1 .. Len(s) : i = 1 \/ (i - 1 \in 1 .. Len(s) - 1 /\ Tail(s)[i - 1] = s[i])
  BY <1>1
<1>4. \A i \in 1 .. Len(s) : s[i] \in Range(Tail(s)) \union {Head(s)}
  BY <1>1, <1>2, <1>3 DEF Range
<1>5. Range(s) \subseteq Range(Tail(s)) \union {Head(s)}
  BY <1>2, <1>4 DEF Range
<1> QED BY <1>1, <1>5

\* A thread leaves the dead CPU for one that it may use, now or from now on.
MovedOff(p) ==
    /\ Replaced(p) /\ thread'[p].on = thread[p].on
    /\ thread'[p].cpu \in online /\ thread'[p].cpu \in thread'[p].allowed

\* move_task_off_dead_cpu: nobody but the idle task is current there.
LEMMA MoveOff ==
  ASSUME IInv, NEW p \in Threads, thread[p].cpu = HotCPU, hot.phase \in {"live", "stopping"},
         move_task_off_dead_cpu(p, MayGo(p))
  PROVE  MovedOff(p)
<1>1. /\ thread \in [Threads -> ThreadState] /\ thread[p] \in ThreadState
      /\ CPUs \in (SUBSET CPUs) \ {{}}
  BY CPUsAssumption DEF IInv, Types
<1>2. online \subseteq CPUs /\ curr[HotCPU] = None
  BY DEF IInv, PhaseRight, Offline, Phases
<1>3. PICK c \in CPUs, m \in (SUBSET CPUs) \ {{}} :
        c \in online /\ c \in m /\ thread' = [thread EXCEPT ![p].cpu = c, ![p].allowed = m]
  <2>1. CASE MayGo(p) # {}
    <3>1. PICK c \in MayGo(p) : thread' = [thread EXCEPT ![p].cpu = c, ![p].allowed = @]
      BY <2>1 DEF move_task_off_dead_cpu
    <3>2. thread[p].allowed \in (SUBSET CPUs) \ {{}} /\ c \in online /\ c \in thread[p].allowed
      BY <1>1, <3>1 DEF ThreadState, MayGo
    <3>3. thread' = [thread EXCEPT ![p].cpu = c, ![p].allowed = thread[p].allowed]
      BY <1>1, <3>1 DEF ThreadState
    <3> QED BY <1>2, <3>2, <3>3
  <2>2. CASE MayGo(p) = {}
    <3>1. PICK c \in online : thread' = [thread EXCEPT ![p].cpu = c, ![p].allowed = CPUs]
      BY <2>2 DEF move_task_off_dead_cpu
    <3> QED BY <1>1, <1>2, <3>1
  <2> QED BY <2>1, <2>2
<1>4. /\ thread'[p].cpu = c /\ thread'[p].allowed = m /\ thread'[p].on = thread[p].on
      /\ \A y \in Threads \ {p} : thread'[y] = thread[y]
  BY <1>1, <1>3 DEF ThreadState
<1>5. thread' \in [Threads -> ThreadState]
  BY <1>1, <1>3 DEF ThreadState
<1>6. ~Running(p)
  BY <1>2, ThreadsAssumption DEF Running, Threads
<1> QED BY <1>3, <1>4, <1>5, <1>6 DEF MovedOff, Replaced

\* While the CPU is emptied: who leaves it stays runnable or asleep, is where it
\* may be, and does not come back.
LEMMA MovedOffKeeps ==
  ASSUME IInv, NEW p \in Threads, thread[p].cpu = HotCPU, hot.phase \in {"live", "stopping"},
         MovedOff(p), hot'.phase = hot.phase, hot' \in [phase : Phases, todo : Seq(Threads)],
         \A t \in Tasks \ {p} : thread[t].cpu = HotCPU => Leftover(t)',
         UNCHANGED <<curr, call, done, queue, mt, online, active, gaveup>>
  PROVE  IInv'
<1>1. HotCPU \notin online /\ online \subseteq CPUs
  BY DEF IInv, PhaseRight, Offline, Phases
<1>2. /\ Replaced(p) /\ thread'[p].cpu # HotCPU /\ thread'[p].cpu \in online
      /\ thread'[p].cpu \in thread'[p].allowed /\ thread'[p].on = thread[p].on
  BY <1>1 DEF MovedOff
<1>3. \A y \in Threads : y # p => thread'[y] = thread[y]
  BY <1>2 DEF Replaced
<1>4. Types'
  BY <1>2 DEF IInv, Types, Replaced
<1>5. PhaseRight'
  <2>1. Readers' = Readers
    BY DEF Readers
  <2> QED BY <2>1 DEF IInv, PhaseRight
<1>6. CurrentRight'
  BY <1>2, CurrentKept DEF IInv
<1>7. ServersRight'
  BY DEF IInv, ServersRight
<1>8. RequestsRight'
  BY Untouched DEF IInv
<1>9. ServersAwake'
  <2>1. \A c \in CPUs : thread'[c].on = thread[c].on
    BY <1>2, <1>3 DEF Threads
  <2> QED BY <1>1, <2>1 DEF IInv, ServersAwake
<1>10. LeftoversRight'
  <2>1. ASSUME NEW u \in Tasks
        PROVE  /\ thread'[u].cpu = HotCPU => Leftover(u)'
               /\ call'[u].pc = "exiting" => thread'[u].on
               /\ call'[u].pc = "gone" => ~thread'[u].on
    <3>1. CASE u = p
      BY <1>2, <3>1 DEF IInv, LeftoversRight, TasksLeft
    <3>2. CASE u # p
      BY <1>3, <3>2 DEF IInv, LeftoversRight, TasksLeft, Threads
    <3> QED BY <3>1, <3>2
  <2> QED BY <2>1 DEF LeftoversRight, TasksLeft
<1>11. AffinityRight'
  <2>1. ASSUME NEW c \in CPUs PROVE thread'[c].cpu \in thread'[c].allowed /\ (c \in online => thread'[c].cpu = c)
    <3>1. CASE c = p
      BY <1>1, <1>2, <3>1 DEF IInv, AffinityRight
    <3>2. CASE c # p
      BY <1>3, <3>2 DEF IInv, AffinityRight, Threads
    <3> QED BY <3>1, <3>2
  <2>2. ASSUME NEW u \in Tasks, u # p PROVE MoveDue(u)' = MoveDue(u) /\ thread'[u] = thread[u]
    <3>1. thread'[u] = thread[u]
      BY <1>3, <2>2 DEF Threads
    <3> QED BY <3>1 DEF MoveDue, Unserved
  <2> QED BY <1>2, <2>1, <2>2 DEF IInv, AffinityRight
<1> QED BY <1>4, <1>5, <1>6, <1>7, <1>8, <1>9, <1>10, <1>11 DEF IInv

\* migrate_live_tasks visits a thread: it is moved off, or not there to be moved.
LEMMA LiveStep ==
  ASSUME IInv, migrate_live_tasks
  PROVE  IInv'
<1>1. /\ hot.phase = "live" /\ hot.todo # <<>>
      /\ hot' = [hot EXCEPT !.todo = Tail(@)]
      /\ IF LivesHere(Head(hot.todo))
         THEN move_task_off_dead_cpu(Head(hot.todo), MayGo(Head(hot.todo))) ELSE UNCHANGED thread
      /\ UNCHANGED <<curr, call, done, queue, mt, online, active, calls, downs, gaveup>>
  BY DEF migrate_live_tasks
<1>2. hot \in [phase : Phases, todo : Seq(Threads)] /\ hot.todo \in Seq(Threads)
  BY DEF IInv, Types
<1>3. /\ Head(hot.todo) \in Threads /\ Tail(hot.todo) \in Seq(Threads)
      /\ Range(hot.todo) \subseteq Range(Tail(hot.todo)) \union {Head(hot.todo)}
  BY <1>1, <1>2, FirstAndRest
<1>4. PICK p \in Threads : p = Head(hot.todo)
  BY <1>3
<1>5. /\ hot'.phase = "live" /\ hot'.todo = Tail(hot.todo)
      /\ hot' \in [phase : Phases, todo : Seq(Threads)]
  BY <1>1, <1>2, <1>3
<1>6. ASSUME NEW t \in Tasks, thread[t].cpu = HotCPU, t # p PROVE Leftover(t)'
  <2>1. t \in Range(hot.todo) \/ call[t].pc \in {"exiting", "gone"}
    BY <1>1, <1>6 DEF IInv, LeftoversRight, TasksLeft, Leftover
  <2>2. t \in Range(hot'.todo) \/ call'[t].pc \in {"exiting", "gone"}
    BY <1>1, <1>3, <1>4, <1>5, <1>6, <2>1
  <2> QED BY <1>5, <2>2 DEF Leftover
<1>7. CASE LivesHere(p)
  <2>1. thread[p].cpu = HotCPU /\ move_task_off_dead_cpu(p, MayGo(p))
    BY <1>1, <1>4, <1>7 DEF LivesHere
  <2>2. MovedOff(p)
    BY <1>1, <2>1, MoveOff
  <2> QED BY <1>1, <1>5, <1>6, <2>1, <2>2, MovedOffKeeps
<1>8. CASE ~LivesHere(p)
  <2>1. UNCHANGED thread
    BY <1>1, <1>4, <1>8
  <2>2. ASSUME NEW t \in Tasks, thread[t].cpu = HotCPU PROVE Leftover(t)'
    <3>1. CASE t = p
      BY <1>1, <1>5, <1>8, <2>2, <3>1 DEF LivesHere, Leftover
    <3>2. CASE t # p
      BY <1>6, <2>2, <3>2
    <3> QED BY <3>1, <3>2
  <2>3. curr[HotCPU] = None /\ mt[HotCPU].pc # "none"
    BY <1>1, CPUsAssumption DEF IInv, PhaseRight, ServersRight, Offline, Phases
  <2> QED BY <1>1, <1>5, <2>1, <2>2, <2>3, AwayStep DEF Offline, Phases
<1> QED BY <1>7, <1>8

\* migrate_dead_tasks moves what is queued and has left the task list; then
\* nothing is left.
LEMMA DeadTasksStep ==
  ASSUME IInv, migrate_dead_tasks
  PROVE  IInv'
<1>1. /\ hot.phase = "stopping" /\ mt[HotCPU].pc = "none"
      /\ UNCHANGED <<curr, call, done, queue, mt, online, active, calls, downs, gaveup>>
      /\ \/ \E p \in Queued(HotCPU) : move_task_off_dead_cpu(p, MayGo(p)) /\ UNCHANGED hot
         \/ Queued(HotCPU) = {} /\ Phase("stopping", "drain") /\ UNCHANGED thread
  BY DEF migrate_dead_tasks
<1>2. ASSUME NEW p \in Queued(HotCPU), move_task_off_dead_cpu(p, MayGo(p)), UNCHANGED hot
      PROVE  IInv'
  <2>1. p \in Threads /\ thread[p].cpu = HotCPU
    BY DEF Queued
  <2>2. MovedOff(p)
    BY <1>1, <1>2, <2>1, MoveOff
  <2>3. \A t \in Tasks : thread[t].cpu = HotCPU => Leftover(t)'
    BY <1>1, <1>2 DEF IInv, LeftoversRight, TasksLeft, Leftover
  <2>4. hot' \in [phase : Phases, todo : Seq(Threads)]
    BY <1>2 DEF IInv, Types
  <2> QED BY <1>1, <1>2, <2>1, <2>2, <2>3, <2>4, MovedOffKeeps
<1>3. ASSUME Queued(HotCPU) = {}, Phase("stopping", "drain"), UNCHANGED thread
      PROVE  IInv'
  <2>1. hot'.phase = "drain" /\ hot' \in [phase : Phases, todo : Seq(Threads)]
    BY <1>3, PhaseChanged DEF IInv, Phases
  <2>2. ASSUME NEW t \in Tasks, thread[t].cpu = HotCPU PROVE call[t].pc = "gone"
    <3>1. call[t].pc \in {"exiting", "gone"}
      BY <1>1, <2>2 DEF IInv, LeftoversRight, TasksLeft, Leftover
    <3>2. ~thread[t].on
      BY <1>3, <2>2 DEF Queued, Threads
    <3> QED BY <3>1, <3>2 DEF IInv, LeftoversRight, TasksLeft
  <2>3. \A t \in Tasks : thread[t].cpu = HotCPU => Leftover(t)'
    BY <1>1, <2>1, <2>2 DEF Leftover
  <2>4. curr[HotCPU] = None
    BY <1>1 DEF IInv, PhaseRight, Offline, Phases
  <2> QED BY <1>1, <1>3, <2>1, <2>3, <2>4, AwayStep DEF Offline, Phases
<1> QED BY <1>1, <1>2, <1>3

\* The requests that are left on the CPU are completed one by one.
LEMMA DrainStep ==
  ASSUME IInv, DrainRequests
  PROVE  IInv'
<1>1. /\ hot.phase = "drain" /\ mt[HotCPU].pc = "none" /\ mt[HotCPU].hand = None
      /\ UNCHANGED <<curr, call, mt, online, active, calls, downs, gaveup>>
      /\ HotCPU \in CPUs
  BY CPUsAssumption DEF DrainRequests, IInv, ServersRight
<1>2. HotCPU \notin online /\ online \subseteq CPUs /\ curr[HotCPU] = None
  BY <1>1 DEF IInv, PhaseRight, Offline, Phases
<1>3. CASE queue[HotCPU] = <<>> /\ Phase("drain", "dead") /\ UNCHANGED <<thread, done, queue>>
  <2>1. hot'.phase = "dead" /\ hot' \in [phase : Phases, todo : Seq(Threads)]
    BY <1>3, PhaseChanged DEF IInv, Phases
  <2>2. \A t \in Tasks : thread[t].cpu = HotCPU => Leftover(t)'
    BY <1>1, <2>1 DEF IInv, LeftoversRight, TasksLeft, Leftover
  <2> QED BY <1>1, <1>2, <1>3, <2>1, <2>2, AwayStep DEF Offline, Phases
<1>4. ASSUME queue[HotCPU] # <<>>, queue' = [queue EXCEPT ![HotCPU] = Tail(@)],
             complete(Head(queue[HotCPU])), UNCHANGED hot
      PROVE  IInv'
  <2>1. queue \in [CPUs -> Seq(Tasks)] /\ queue[HotCPU] \in Seq(Tasks) /\ IsInjective(queue[HotCPU])
    BY <1>1 DEF IInv, Types, RequestsRight
  <2>2. /\ Head(queue[HotCPU]) \in Tasks /\ Tail(queue[HotCPU]) \in Seq(Tasks)
        /\ IsInjective(Tail(queue[HotCPU]))
        /\ Head(queue[HotCPU]) \notin Range(Tail(queue[HotCPU]))
        /\ Range(queue[HotCPU]) = Range(Tail(queue[HotCPU])) \union {Head(queue[HotCPU])}
    BY <1>4, <2>1, TakeFirst
  <2>3. PICK h \in Tasks : h = Head(queue[HotCPU])
    BY <2>2
  <2>4. h \in Requests(HotCPU) /\ Waits(h) /\ h \notin done /\ call[h].rq = HotCPU
    BY <1>1, <2>2, <2>3 DEF Requests, IInv, RequestsRight
  <2>5. /\ queue' \in [CPUs -> Seq(Tasks)] /\ queue'[HotCPU] = Tail(queue[HotCPU])
        /\ \A d \in CPUs \ {HotCPU} : queue'[d] = queue[d]
    BY <1>1, <1>4, <2>1, <2>2
  <2>6. /\ thread' \in [Threads -> ThreadState]
        /\ done' = done \union {h}
        /\ \A d \in CPUs : thread'[d] = thread[d]
        /\ CurrentRight' /\ TasksLeft'
        /\ UnservedKept => AffinityRight'
    BY <1>1, <1>4, <2>3, <2>4, Completed
  <2>7. /\ \A d \in CPUs \ {HotCPU} : Requests(d)' = Requests(d)
        /\ Requests(HotCPU)' = Requests(HotCPU) \ {h}
        /\ \A d \in CPUs : Requests(d) \subseteq Tasks
    <3>1. \A d \in CPUs \ {HotCPU} : Requests(d)' = Requests(d)
      BY <1>1, <2>5 DEF Requests, InHand
    <3>2. Requests(HotCPU)' = Requests(HotCPU) \ {h}
      BY <1>1, <2>2, <2>3, <2>5 DEF Requests, InHand, NoHand
    <3> QED BY <3>1, <3>2, RequestsOfTasks DEF IInv
  <2>8. UnservedKept
    BY <1>1, <1>2, <2>5 DEF UnservedKept, Unserved
  <2>9. Types'
    BY <1>1, <1>4, <2>5, <2>6 DEF IInv, Types
  <2>10. PhaseRight' /\ ServersRight'
    BY <1>1, <1>4, Untouched DEF IInv
  <2>11. RequestsRight'
    <3>1. \A d \in CPUs : h \in Requests(d) => d = HotCPU
      BY <2>4 DEF IInv, RequestsRight
    <3>2. \A d \in CPUs : IsInjective(queue'[d]) /\ mt'[d].hand \notin Range(queue'[d])
      BY <1>1, <2>2, <2>5 DEF IInv, RequestsRight
    <3>3. \A d \in CPUs, u \in Tasks : u \in Requests(d)' <=> u \in Requests(d) /\ u # h
      BY <2>7, <3>1
    <3>4. \A d \in CPUs : Requests(d)' \subseteq Tasks
      BY <2>7
    <3> QED BY <1>1, <2>6, <3>2, <3>3, <3>4 DEF IInv, RequestsRight, Waits
  <2>12. ServersAwake'
    BY <1>1, <1>2, <2>5, <2>6 DEF IInv, ServersAwake
  <2>13. LeftoversRight'
    BY <1>1, <1>4, <2>6 DEF IInv, LeftoversRight
  <2> QED BY <2>6, <2>8, <2>9, <2>10, <2>11, <2>12, <2>13 DEF IInv
<1> QED BY <1>3, <1>4 DEF DrainRequests

\* The migration thread of the CPU is told: to stop, or that it may begin.
LEMMA TellStep ==
  ASSUME IInv, kthread_stop \/ CPU_ONLINE
  PROVE  IInv'
<1>1. /\ WakeMigrationThread(HotCPU) /\ HotCPU \in CPUs
      /\ UNCHANGED <<curr, call, done, queue, online, active, calls, downs, gaveup>>
      /\ \/ hot.todo = <<>> /\ Phase("live", "stopping")
         \/ Phase("onlined", "up")
  BY CPUsAssumption DEF kthread_stop, CPU_ONLINE
<1>2. /\ hot' \in [phase : Phases, todo : Seq(Threads)]
      /\ \/ hot.phase = "live" /\ hot'.phase = "stopping" /\ hot.todo = <<>>
         \/ hot.phase = "onlined" /\ hot'.phase = "up"
  BY <1>1, PhaseChanged DEF IInv, Phases
<1>3. ServerWoken(HotCPU)
  BY <1>1, ServerIsWoken DEF IInv
<1>4. /\ CurrentRight'
      /\ \A u \in Tasks : thread'[u] = thread[u]
      /\ \A d \in CPUs : thread'[d].cpu = thread[d].cpu /\ thread'[d].allowed = thread[d].allowed
      /\ \A d \in CPUs : Requests(d)' = Requests(d) /\ Unserved(d)' = Unserved(d)
  BY <1>1, <1>3, ServerWokenKeeps
<1>5. \A d \in CPUs : mt'[d].pc = mt[d].pc /\ mt'[d].hand = mt[d].hand
  BY <1>3 DEF ServerWoken
<1>6. mt[HotCPU].pc # "none"
  BY <1>1, <1>2 DEF IInv, ServersRight
<1>7. Types'
  BY <1>1, <1>2, <1>3 DEF IInv, Types, ServerWoken, Replaced
<1>8. PhaseRight'
  <2>1. Readers' = Readers
    BY <1>1 DEF Readers
  <2> QED BY <1>1, <1>2, <2>1 DEF IInv, PhaseRight, Offline, Phases
<1>9. ServersRight'
  BY <1>1, <1>2, <1>5, <1>6 DEF IInv, ServersRight
<1>10. RequestsRight'
  BY <1>1, <1>4, <1>5 DEF IInv, RequestsRight, Waits
<1>11. ServersAwake'
  <2>1. online \subseteq CPUs
    BY DEF IInv, PhaseRight
  <2> QED BY <1>1, <1>3, <1>6, <2>1, ServerWokenAwake
<1>12. LeftoversRight'
  <2>1. hot.todo = <<>> => Range(hot.todo) = {}
    BY DEF Range
  <2> QED BY <1>1, <1>2, <1>4, <2>1 DEF IInv, LeftoversRight, TasksLeft, Leftover
<1>13. AffinityRight'
  <2>1. \A u \in Tasks : thread[u].cpu \in CPUs
    BY DEF IInv, Types, ThreadState, Threads
  <2>2. \A u \in Tasks : MoveDue(u) => MoveDue(u)'
    BY <1>1, <1>4, <2>1 DEF MoveDue
  <2> QED BY <1>1, <1>2, <1>4, <2>2 DEF IInv, AffinityRight
<1> QED BY <1>4, <1>7, <1>8, <1>9, <1>10, <1>11, <1>12, <1>13 DEF IInv

\* The migration thread of the CPU is a new one, or bound elsewhere to be stopped.
LEMMA BoundStep ==
  ASSUME IInv, NEW r \in ThreadState, r.cpu \in r.allowed,
         thread' = [thread EXCEPT ![HotCPU] = r], ~Running(HotCPU),
         hot' \in [phase : Phases, todo : Seq(Threads)],
         \/ hot.phase = "dead" /\ hot'.phase = "coming" /\ r.cpu = HotCPU /\ mt'[HotCPU].pc = "top"
         \/ hot.phase = "coming" /\ hot'.phase = "canceling" /\ mt'[HotCPU].pc = "top",
         mt' \in [CPUs -> MtState], mt'[HotCPU].hand = None,
         \A d \in CPUs \ {HotCPU} : mt'[d] = mt[d],
         UNCHANGED <<curr, call, done, queue, online, active, gaveup>>
  PROVE  IInv'
<1>1. HotCPU \notin online /\ online \subseteq CPUs /\ HotCPU \in CPUs
  BY CPUsAssumption DEF IInv, PhaseRight, Offline, Phases
<1>2. thread \in [Threads -> ThreadState] /\ HotCPU \in Threads
  BY <1>1 DEF IInv, Types, Threads
<1>3. /\ thread' \in [Threads -> ThreadState] /\ thread'[HotCPU] = r
      /\ \A y \in Threads \ {HotCPU} : thread'[y] = thread[y]
  BY <1>2
<1>4. \A u \in Tasks : thread'[u] = thread[u]
  BY <1>3, CPUsAssumption, ThreadsAssumption DEF Threads
<1>5. Replaced(HotCPU)
  BY <1>3 DEF Replaced
<1>6. /\ mt[HotCPU].hand = None
      /\ \A d \in CPUs : mt'[d].hand = mt[d].hand
      /\ mt'[HotCPU].pc \notin {"hold", "complete"} /\ mt[HotCPU].pc \notin {"hold", "complete"}
  BY <1>1 DEF IInv, ServersRight
<1>7. \A d \in CPUs : Requests(d)' = Requests(d) /\ Unserved(d)' = Unserved(d)
  BY <1>6 DEF Requests, InHand, Unserved
<1>8. Types'
  BY <1>3 DEF IInv, Types
<1>9. PhaseRight'
  <2>1. Readers' = Readers
    BY DEF Readers
  <2> QED BY <2>1 DEF IInv, PhaseRight, Offline, Phases
<1>10. CurrentRight'
  BY <1>2, <1>5, CurrentKept DEF IInv
<1>11. ServersRight'
  <2>1. mt'[HotCPU].pc = "top"
    OBVIOUS
  <2>2. ASSUME NEW d \in CPUs
        PROVE  /\ mt'[d].pc \in {"hold", "complete"} <=> mt'[d].hand # None
               /\ mt'[d].pc = "hold" => curr[d] = d /\ d \in online
               /\ mt'[d].pc = "none" => d = HotCPU /\ hot'.phase \in {"stopping", "drain", "dead", "canceling"}
               /\ mt'[d].pc = "die" => d \notin online
    <3>1. CASE d = HotCPU
      BY <2>1, <3>1
    <3>2. CASE d # HotCPU
      BY <3>2 DEF IInv, ServersRight
    <3> QED BY <3>1, <3>2
  <2> QED BY <2>1, <2>2 DEF ServersRight
<1>12. RequestsRight'
  BY <1>6, <1>7 DEF IInv, RequestsRight, Waits
<1>13. ServersAwake'
  BY <1>1, <1>3 DEF IInv, ServersAwake, Threads
<1>14. LeftoversRight'
  BY <1>4 DEF IInv, LeftoversRight, TasksLeft, Leftover
<1>15. AffinityRight'
  <2>1. \A u \in Tasks : thread[u].cpu \in CPUs
    BY DEF IInv, Types, ThreadState, Threads
  <2>2. \A u \in Tasks : MoveDue(u) => MoveDue(u)'
    BY <1>4, <1>7, <2>1 DEF MoveDue
  <2>3. \A c \in CPUs : /\ thread'[c].cpu \in thread'[c].allowed
                        /\ c \in online \/ hot'.phase = "coming" => thread'[c].cpu = c
    <3>1. online = CPUs \ {HotCPU}
      BY DEF IInv, PhaseRight, Offline, Phases
    <3> QED BY <1>3, <3>1 DEF IInv, AffinityRight, Threads
  <2> QED BY <1>4, <2>2, <2>3 DEF IInv, AffinityRight
<1> QED BY <1>8, <1>9, <1>10, <1>11, <1>12, <1>13, <1>14, <1>15 DEF IInv

\* CPU_UP_PREPARE and CPU_UP_CANCELED.
LEMMA UpStep ==
  ASSUME IInv, CPU_UP_PREPARE \/ CPU_UP_CANCELED
  PROVE  IInv'
<1>0. HotCPU \in CPUs
  BY CPUsAssumption
<1>1. CASE CPU_UP_PREPARE
  <2> DEFINE r == [cpu |-> HotCPU, allowed |-> {HotCPU}, on |-> FALSE]
             m == [pc |-> "top", intr |-> TRUE, hand |-> NoHand]
  <2>1. /\ ~Running(HotCPU) /\ Phase("dead", "coming")
        /\ thread' = [thread EXCEPT ![HotCPU] = r] /\ mt' = [mt EXCEPT ![HotCPU] = m]
        /\ UNCHANGED <<curr, call, done, queue, online, active, calls, downs, gaveup>>
    BY <1>1 DEF CPU_UP_PREPARE
  <2>2. /\ hot.phase = "dead" /\ hot'.phase = "coming"
        /\ hot' \in [phase : Phases, todo : Seq(Threads)]
    BY <2>1, PhaseChanged DEF IInv, Phases
  <2>3. r \in ThreadState /\ r.cpu = HotCPU /\ r.allowed = {HotCPU}
    BY <1>0 DEF ThreadState
  <2>4. m \in MtState /\ m.pc = "top" /\ m.hand = None
    BY DEF MtState, NoHand
  <2> HIDE DEF r, m
  <2>5. /\ mt' \in [CPUs -> MtState] /\ mt'[HotCPU] = m
        /\ \A d \in CPUs \ {HotCPU} : mt'[d] = mt[d]
    BY <1>0, <2>1, <2>4 DEF IInv, Types
  <2> QED BY <2>1, <2>2, <2>3, <2>4, <2>5, BoundStep
<1>2. ASSUME Phase("coming", "canceling"), NEW c \in online,
             thread' = [thread EXCEPT ![HotCPU] = [cpu |-> c, allowed |-> {c}, on |-> TRUE]],
             UNCHANGED <<curr, call, done, queue, mt, online, active, calls, downs, gaveup>>
      PROVE  IInv'
  <2> DEFINE r == [cpu |-> c, allowed |-> {c}, on |-> TRUE]
  <2>1. /\ hot.phase = "coming" /\ hot'.phase = "canceling"
        /\ hot' \in [phase : Phases, todo : Seq(Threads)]
    BY <1>2, PhaseChanged DEF IInv, Phases
  <2>2. c \in CPUs
    BY <1>2 DEF IInv, PhaseRight
  <2>3. r \in ThreadState /\ r.cpu = c /\ r.allowed = {c}
    BY <2>2 DEF ThreadState
  <2>4. thread' = [thread EXCEPT ![HotCPU] = r]
    BY <1>2
  <2> HIDE DEF r
  <2>5. mt[HotCPU].pc = "top" /\ mt[HotCPU].hand = None /\ mt \in [CPUs -> MtState]
    BY <1>0, <2>1 DEF IInv, ServersRight, Types
  <2>6. ~Running(HotCPU)
    BY <1>0, <2>1, NotComing
  <2> QED BY <1>2, <2>1, <2>3, <2>4, <2>5, <2>6, BoundStep
<1>3. ASSUME Phase("canceling", "dead"), mt[HotCPU].pc = "none",
             UNCHANGED <<thread, curr, call, done, queue, mt, online, active, calls, downs, gaveup>>
      PROVE  IInv'
  <2>1. /\ hot.phase = "canceling" /\ hot'.phase = "dead"
        /\ hot' \in [phase : Phases, todo : Seq(Threads)]
    BY <1>3, PhaseChanged DEF IInv, Phases
  <2>2. \A t \in Tasks : thread[t].cpu = HotCPU => Leftover(t)'
    BY <1>3, <2>1 DEF IInv, LeftoversRight, TasksLeft, Leftover
  <2>3. curr[HotCPU] = None /\ queue[HotCPU] = <<>>
    BY <2>1 DEF IInv, PhaseRight, LeftoversRight, Offline, Phases
  <2> QED BY <1>3, <2>1, <2>2, <2>3, AwayStep DEF Offline, Phases
<1> QED BY <1>1, <1>2, <1>3 DEF CPU_UP_CANCELED

\* The CPU is back: empty, with a migration thread of its own.
LEMMA BackStep ==
  ASSUME IInv, __cpu_up
  PROVE  IInv'
<1>1. /\ Phase("coming", "onlined") /\ HotCPU \in CPUs
      /\ online' = online \union {HotCPU} /\ active' = active \union {HotCPU}
      /\ UNCHANGED <<thread, curr, call, done, queue, mt, calls, downs, gaveup>>
  BY CPUsAssumption DEF __cpu_up
<1>2. /\ hot.phase = "coming" /\ hot'.phase = "onlined"
      /\ hot' \in [phase : Phases, todo : Seq(Threads)]
  BY <1>1, PhaseChanged DEF IInv, Phases
<1>3. online = CPUs \ {HotCPU} /\ online' = CPUs /\ active' = CPUs
  BY <1>1, <1>2 DEF IInv, PhaseRight, Offline, Phases
<1>4. Types'
  BY <1>1, <1>2 DEF IInv, Types
<1>5. PhaseRight'
  <2>1. Readers' = Readers
    BY <1>1 DEF Readers
  <2> QED BY <1>1, <1>2, <1>3, <2>1 DEF IInv, PhaseRight, Offline, Phases
<1>6. CurrentRight' /\ RequestsRight'
  BY <1>1, Untouched DEF IInv
<1>7. ServersRight'
  BY <1>1, <1>2, <1>3 DEF IInv, ServersRight
<1>8. ServersAwake'
  <2>1. queue[HotCPU] = <<>>
    BY <1>2 DEF IInv, LeftoversRight
  <2> QED BY <1>1, <1>3, <2>1 DEF IInv, ServersAwake
<1>9. LeftoversRight'
  BY <1>1, <1>2 DEF IInv, LeftoversRight, TasksLeft, Leftover
<1>10. AffinityRight'
  <2>1. \A u \in Tasks : MoveDue(u)' = MoveDue(u)
    BY <1>1 DEF MoveDue, Unserved
  <2>2. \A u \in Tasks : thread[u].cpu \in CPUs /\ (thread[u].cpu = HotCPU => call[u].pc = "gone")
    BY <1>2 DEF IInv, Types, ThreadState, Threads, LeftoversRight, TasksLeft, Leftover
  <2> QED BY <1>1, <1>2, <1>3, <2>1, <2>2 DEF IInv, AffinityRight
<1> QED BY <1>4, <1>5, <1>6, <1>7, <1>8, <1>9, <1>10 DEF IInv

-----------------------------------------------------------------------------
\* Every step keeps the invariant, and so does none.
LEMMA IInvNext == IInv /\ [Next]_vars => IInv'
<1> SUFFICES ASSUME IInv, [Next]_vars PROVE IInv'
  OBVIOUS
<1>1. CASE UNCHANGED vars
  <2>1. UNCHANGED <<thread, curr, call, done, queue, mt, online, active, hot, gaveup>>
    BY <1>1 DEF vars
  <2> QED BY <2>1, Untouched DEF IInv, Types
<1>2. ASSUME NEW c \in CPUs, Schedule(c) \/ MigrationStep(c) PROVE IInv'
  BY <1>2, ScheduleStep, TopStep, HandleStep, CompleteStep, LoopStep DEF MigrationStep
<1>3. ASSUME NEW t \in Tasks,
             \/ Block(t) \/ Wakeup(t) \/ Exit(t)
             \/ \E p \in Tasks, m \in Masks : sched_setaffinity(t, p, m)
             \/ \E dest \in CPUs : sched_exec(t, dest)
             \/ wake_migration_thread(t) \/ wait_for_completion(t)
      PROVE  IInv'
  BY <1>3, TaskStep, AffinityStep, ExecStep, KickStep, WaitStep
<1>4. CASE cpu_down \/ CPU_DOWN_PREPARE \/ CPU_DOWN_FAILED \/ CPU_DYING
  BY <1>4, PrepareStep, DyingStep
<1>5. CASE HotplugStep
  BY <1>5, DeadStep, LiveStep, TellStep, DeadTasksStep, DrainStep, UpStep DEF HotplugStep
<1>6. CASE CPU_UP_PREPARE \/ __cpu_up
  BY <1>6, UpStep, BackStep
<1> QED BY <1>1, <1>2, <1>3, <1>4, <1>5, <1>6 DEF Next

\* In every reachable state.
LEMMA IInvAlways == Spec => []IInv
BY IInvInit, IInvNext, PTL DEF Spec

\* No request to a migration thread is lost, served twice or left behind, and a
\* CPU that went down is empty (BUG_ON(rq->nr_running != 0) in migration_call):
\* in every interleaving of calls, switches, exits and hotplug, for every number
\* of CPUs and tasks.
THEOREM RequestsAlwaysSound == Spec => []RequestsSound
BY IInvAlways, SoundFollows, PTL

\* Who may not run where it is will be moved, unless a request to do so met a
\* CPU on its way out (set_cpus_allowed_ptr, __migrate_task).
THEOREM AffinityAlwaysPursued == Spec => []AffinityPursued
BY IInvAlways, PursuitFollows, PTL

\* No step moves a thread off the CPU on which it is current, running or in the
\* middle of schedule() (__migrate_task, move_task_off_dead_cpu, migrate_task).
THEOREM CurrentNeverMoved == Spec => NotMovedWhileCurrent
<1>1. IInv' => [\A c \in CPUs : curr[c] # None /\ curr'[c] = curr[c] => thread'[curr[c]].cpu = c]_vars
  BY DEF IInv, CurrentRight
<1> QED BY <1>1, IInvAlways, PTL DEF NotMovedWhileCurrent

=============================================================================
