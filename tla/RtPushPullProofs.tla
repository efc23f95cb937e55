-------------------------- MODULE RtPushPullProofs ---------------------------
(***************************************************************************)
(* Proofs about RtPushPull for any CPUs, tasks, priorities and affinities: *)
(* the run queues and what a CPU offers to the others are sound however    *)
(* pushes, pulls, wake-ups and changes interleave, and the CPUs that wait  *)
(* for locks never wait for each other in a circle.                        *)
(*                                                                         *)
(* The argument: Sound is what holds of the state s of a CPU in the middle *)
(* of a call.  Every operator keeps it and touches only the run queues     *)
(* that the CPU has locked (Reach), so that what another CPU in the middle *)
(* of a call knows of its own run queue stays true (CallRight).  LocksRight*)
(* says that a CPU waits for a lock above those it holds.                  *)
(***************************************************************************)
EXTENDS RtPushPull, ListLemmas

States == [task : [Threads -> TaskStruct], rq : [CPUs -> RunQueue],
           rd : [rto_mask : SUBSET CPUs, cpupri : [CPUs -> 0 .. MAX_RT_PRIO]]]

\* p is queued on r and does not run: under the lock of r it may be moved.
Movable(s, p, r) ==
  p \in Tasks /\ s.task[p].cpu = r /\ s.task[p].on_rq /\ Current(s, r) # p

SortedList(s, q) ==
  \A i, j \in DOMAIN q : i < j => s.task[q[i]].prio <= s.task[q[j]].prio
MovableOf(s, c) == {p \in ToSet(s.rq[c].active) : Migratable(s, p)}

\* The idle task of a CPU stays there, ready to run, below every task.
ThreadsRight(s) ==
  /\ \A c \in CPUs : /\ s.task[c].cpu = c /\ s.task[c].prio = MAX_RT_PRIO + 1
                     /\ s.task[c].on_rq /\ ~ s.task[c].sleeping
  /\ \A p \in Tasks : s.task[p].prio <= MAX_RT_PRIO
\* Nobody runs the task of another CPU, and a task is where it may be.
PlacesRight(s) ==
  /\ \A c \in CPUs : s.task[Current(s, c)].cpu = c
  /\ \A p \in Tasks : s.task[p].cpu \in s.task[p].cpus_allowed
\* p is not on the real-time queue of d.
Aside(s, p, d) == s.task[p].cpu # d \/ ~ s.task[p].on_rq \/ ~ rt_task(s, p)
ActiveRight(s, c) ==
  LET q == s.rq[c].active IN
  /\ IsInjective(q) /\ SortedList(s, q)
  /\ \A p \in Tasks :
       p \in ToSet(q) <=> s.task[p].cpu = c /\ s.task[p].on_rq /\ rt_task(s, p)
PushableRight(s, c) ==
  LET q == s.rq[c].pushable IN
  /\ IsInjective(q)
  /\ \A p \in ToSet(q) : Movable(s, p, c) /\ rt_task(s, p) /\ Migratable(s, p)
SeenRight(s, c) ==
  /\ s.rd.cpupri[c] = highest_prio(s, c)
  /\ s.rq[c].migratory = Cardinality(MovableOf(s, c))
  /\ s.rq[c].overloaded = (MovableOf(s, c) # {} /\ Len(s.rq[c].active) > 1)
  /\ (c \in s.rd.rto_mask) = s.rq[c].overloaded
QueueRight(s, c) == ActiveRight(s, c) /\ PushableRight(s, c) /\ SeenRight(s, c)

Sound(s) ==
  s \in States /\ ThreadsRight(s) /\ PlacesRight(s) /\ \A c \in CPUs : QueueRight(s, c)

-----------------------------------------------------------------------------
(* Lists.                                                                  *)

\* A task added to a list that does not hold it, before the places given.
LEMMA AddedBefore ==
  ASSUME NEW q \in Seq(Tasks), IsInjective(q), NEW p \in Tasks, p \notin ToSet(q),
         NEW places \in SUBSET DOMAIN q
  PROVE  LET b == Before(q, places, p) IN
         /\ b \in Seq(Tasks) /\ Len(b) = Len(q) + 1
         /\ IsInjective(b) /\ ToSet(b) = ToSet(q) \cup {p}
         /\ \E k \in 1 .. Len(q) + 1 :
              /\ \A j \in 1 .. Len(q) + 1 :
                   b[j] = IF j < k THEN q[j] ELSE IF j = k THEN p ELSE q[j - 1]
              /\ k \in DOMAIN q => k \in places
              /\ \A j \in places : k <= j
<1> DEFINE b == Before(q, places, p)
           n == Len(q)
<1>1. n \in Nat /\ DOMAIN q = 1 .. n
  OBVIOUS
<1>2. CASE places = {}
  <2>1. b = Append(q, p)
    BY <1>2 DEF Before
  <2>2. b \in Seq(Tasks) /\ Len(b) = n + 1
        /\ \A j \in 1 .. n + 1 : b[j] = IF j < n + 1 THEN q[j] ELSE p
    BY <1>1, <2>1, AppendProperties
  <2>3. IsInjective(b) /\ ToSet(b) = ToSet(q) \cup {p}
    BY <2>1, AppendFresh
  <2> HIDE DEF b
  <2> QED BY <1>1, <1>2, <2>2, <2>3 DEF b
<1>3. CASE places # {}
  <2> DEFINE k == Min(places)
  <2>1. k \in places /\ \A j \in places : k <= j
    BY <1>1, <1>3, MinOfNaturals
  <2>5. k \in DOMAIN q /\ k \in 1 .. n + 1
    BY <1>1, <2>1
  <2>2. b = InsertAt(q, k, p)
    BY <1>3 DEF Before
  <2> HIDE DEF k
  <2>3. /\ b \in Seq(Tasks) /\ Len(b) = n + 1
        /\ \A j \in 1 .. n + 1 : b[j] = IF j < k THEN q[j] ELSE IF j = k THEN p ELSE q[j - 1]
    <3> DEFINE r == InsertAt(q, k, p)
    <3>1. /\ r \in Seq(Tasks) /\ Len(r) = n + 1
          /\ \A j \in 1 .. n + 1 : r[j] = IF j < k THEN q[j] ELSE IF j = k THEN p ELSE q[j - 1]
      <4>1. ASSUME NEW e \in DOMAIN q
            PROVE  /\ InsertAt(q, e, p) \in Seq(Tasks) /\ Len(InsertAt(q, e, p)) = Len(q) + 1
                   /\ \A j \in 1 .. Len(q) + 1 : InsertAt(q, e, p)[j] =
                        IF j < e THEN q[j] ELSE IF j = e THEN p ELSE q[j - 1]
        BY InsertAtPlaces
      <4> QED BY <2>5, <4>1
    <3> QED BY <2>2, <3>1
  <2> HIDE DEF b
  <2>4. IsInjective(b) /\ ToSet(b) = ToSet(q) \cup {p}
    BY <2>3, <2>5, PutFresh
  <2> QED BY <1>1, <2>1, <2>3, <2>4, <2>5 DEF b
<1> QED BY <1>2, <1>3

\* The two ways to add a task keep a list sorted, and the list begins with the
\* better of it and the first.
LEMMA AddedSorted ==
  ASSUME NEW s \in States, NEW q \in Seq(Tasks), IsInjective(q), SortedList(s, q),
         NEW p \in Tasks, p \notin ToSet(q), NEW b, b = AddTail(s, q, p) \/ b = AddHead(s, q, p)
  PROVE  /\ b \in Seq(Tasks) /\ Len(b) = Len(q) + 1
         /\ IsInjective(b) /\ ToSet(b) = ToSet(q) \cup {p} /\ SortedList(s, b)
         /\ b # <<>>
         /\ s.task[Head(b)].prio = IF q = <<>> THEN s.task[p].prio
                                   ELSE IF s.task[p].prio < s.task[Head(q)].prio
                                        THEN s.task[p].prio ELSE s.task[Head(q)].prio
<1> DEFINE pr(t) == s.task[t].prio
           n == Len(q)
<1>1. \A t \in Tasks : pr(t) \in Int
  BY PriosAssumption DEF States, TaskStruct, Threads
<1>2. n \in Nat /\ DOMAIN q = 1 .. n /\ \A j \in 1 .. n : q[j] \in Tasks
  OBVIOUS
<1>3. PICK places \in SUBSET DOMAIN q :
        /\ b = Before(q, places, p)
        /\ \A j \in places : pr(q[j]) >= pr(p)
        /\ \A j \in DOMAIN q \ places : pr(q[j]) <= pr(p)
  <2>1. CASE b = AddTail(s, q, p)
    <3> DEFINE behind == {j \in DOMAIN q : pr(q[j]) > pr(p)}
    <3>1. b = Before(q, behind, p)
      BY <2>1 DEF AddTail
    <3>2. \A j \in DOMAIN q : pr(q[j]) \in Int /\ pr(p) \in Int
      BY <1>1, <1>2
    <3> HIDE DEF pr
    <3>3. \A j \in behind : pr(q[j]) >= pr(p)
      BY <3>2
    <3>4. \A j \in DOMAIN q \ behind : pr(q[j]) <= pr(p)
      BY <3>2
    <3> QED BY <3>1, <3>3, <3>4
  <2>2. CASE b = AddHead(s, q, p)
    <3> DEFINE behind == {j \in DOMAIN q : pr(q[j]) >= pr(p)}
    <3>1. b = Before(q, behind, p)
      BY <2>2 DEF AddHead
    <3>2. \A j \in DOMAIN q : pr(q[j]) \in Int /\ pr(p) \in Int
      BY <1>1, <1>2
    <3> HIDE DEF pr
    <3>3. \A j \in behind : pr(q[j]) >= pr(p)
      BY <3>2
    <3>4. \A j \in DOMAIN q \ behind : pr(q[j]) <= pr(p)
      BY <3>2
    <3> QED BY <3>1, <3>3, <3>4
  <2> QED BY <2>1, <2>2
<1>4. /\ b \in Seq(Tasks) /\ Len(b) = n + 1
      /\ IsInjective(b) /\ ToSet(b) = ToSet(q) \cup {p}
  BY <1>3, AddedBefore
<1>5. PICK k \in 1 .. n + 1 :
        /\ \A j \in 1 .. n + 1 : b[j] = IF j < k THEN q[j] ELSE IF j = k THEN p ELSE q[j - 1]
        /\ k \in DOMAIN q => k \in places
        /\ \A j \in places : k <= j
  BY <1>3, AddedBefore
<1>6. \A i, j \in 1 .. n : i < j => pr(q[i]) <= pr(q[j])
  BY <1>2 DEF SortedList
<1>7. \A j \in 1 .. n : j < k => pr(q[j]) <= pr(p)
  BY <1>2, <1>3, <1>5
<1>8. \A j \in 1 .. n : j >= k => pr(q[j]) >= pr(p)
  <2> SUFFICES ASSUME NEW j \in 1 .. n, j >= k PROVE pr(q[j]) >= pr(p)
    OBVIOUS
  <2>1. k \in 1 .. n /\ pr(q[k]) >= pr(p)
    BY <1>2, <1>3, <1>5
  <2>2. pr(q[j]) >= pr(q[k])
    BY <1>1, <1>2, <1>6, <2>1
  <2>3. pr(q[j]) \in Int /\ pr(q[k]) \in Int /\ pr(p) \in Int
    BY <1>1, <1>2, <2>1
  <2> HIDE DEF pr
  <2> QED BY <2>1, <2>2, <2>3
<1> HIDE DEF pr
<1>9. SortedList(s, b)
  <2>1. DOMAIN b = 1 .. n + 1
    BY <1>2, <1>4
  <2> SUFFICES ASSUME NEW i \in 1 .. n + 1, NEW j \in 1 .. n + 1, i < j
               PROVE  pr(b[i]) <= pr(b[j])
    BY <2>1 DEF SortedList, pr
  <2>2. CASE j < k
    BY <1>2, <1>5, <1>6, <2>2
  <2>3. CASE j = k
    BY <1>2, <1>5, <1>7, <2>3
  <2>4. CASE i = k
    BY <1>2, <1>5, <1>8, <2>4
  <2>5. CASE i < k /\ j > k
    <3>1. b[i] = q[i] /\ b[j] = q[j - 1] /\ i \in 1 .. n /\ j - 1 \in 1 .. n /\ i <= j - 1
      BY <1>2, <1>5, <2>5
    <3>2. pr(q[i]) <= pr(p) /\ pr(q[j - 1]) >= pr(p)
      BY <1>7, <1>8, <2>5, <3>1
    <3>3. pr(q[i]) \in Int /\ pr(q[j - 1]) \in Int /\ pr(p) \in Int
      BY <1>1, <1>2, <3>1
    <3> QED BY <3>1, <3>2, <3>3
  <2>6. CASE i > k
    BY <1>2, <1>5, <1>6, <2>6
  <2> QED BY <2>2, <2>3, <2>4, <2>5, <2>6
<1>10. b # <<>> /\ Head(b) = b[1] /\ (q # <<>> => Head(q) = q[1] /\ 1 \in 1 .. n) /\ (q = <<>> => n = 0)
  BY <1>2, <1>4
<1>11. pr(Head(b)) = IF q = <<>> THEN pr(p)
                     ELSE IF pr(p) < pr(Head(q)) THEN pr(p) ELSE pr(Head(q))
  <2>1. CASE q = <<>>
    BY <1>5, <1>10, <2>1
  <2>2. CASE q # <<>> /\ k = 1
    <3>1. b[1] = p /\ pr(q[1]) >= pr(p) /\ pr(q[1]) \in Int /\ pr(p) \in Int
      BY <1>1, <1>2, <1>5, <1>8, <1>10, <2>2
    <3> QED BY <1>10, <2>2, <3>1
  <2>3. CASE q # <<>> /\ k # 1
    <3>1. b[1] = q[1] /\ pr(q[1]) <= pr(p) /\ pr(q[1]) \in Int /\ pr(p) \in Int
      BY <1>1, <1>2, <1>5, <1>7, <1>10, <2>3
    <3> QED BY <1>10, <2>3, <3>1
  <2> QED BY <2>1, <2>2, <2>3
<1> QED BY <1>4, <1>9, <1>10, <1>11 DEF pr

\* A list without one of its tasks.
LEMMA RemovedSorted ==
  ASSUME NEW s \in States, NEW q \in Seq(Tasks), IsInjective(q), NEW p
  PROVE  LET r == RemoveFirst(q, p) IN
         /\ r \in Seq(Tasks) /\ IsInjective(r) /\ ToSet(r) = ToSet(q) \ {p}
         /\ SortedList(s, q) => SortedList(s, r)
         /\ p \notin ToSet(q) => r = q
         /\ p \in ToSet(q) => Len(r) = Len(q) - 1
<1> DEFINE r == RemoveFirst(q, p)
           n == Len(q)
<1>1. CASE p \notin ToSet(q)
  <2>1. \A i \in DOMAIN q : q[i] # p
    BY <1>1 DEF ToSet
  <2>2. r = q
    BY <2>1, RemoveFirstOut
  <2> QED BY <1>1, <2>2
<1>2. CASE p \in ToSet(q)
  <2>1. \E i \in DOMAIN q : q[i] = p
    BY <1>2 DEF ToSet
  <2>2. PICK m \in DOMAIN q :
          /\ r \in Seq(Tasks) /\ Len(r) = n - 1
          /\ \A i \in 1 .. n - 1 : r[i] = q[IF i < m THEN i ELSE i + 1]
    BY <2>1, RemoveFirstIn
  <2>3. IsInjective(r) /\ ToSet(r) = ToSet(q) \ {p}
    BY <1>2, RemoveOnce
  <2> HIDE DEF r
  <2>4. SortedList(s, q) => SortedList(s, r)
    <3> SUFFICES ASSUME SortedList(s, q), NEW i \in DOMAIN r, NEW j \in DOMAIN r, i < j
                 PROVE  s.task[r[i]].prio <= s.task[r[j]].prio
      BY DEF SortedList
    <3> DEFINE ii == IF i < m THEN i ELSE i + 1
               jj == IF j < m THEN j ELSE j + 1
    <3>1. i \in 1 .. n - 1 /\ j \in 1 .. n - 1 /\ n \in Nat /\ DOMAIN q = 1 .. n
      BY <2>2
    <3>2. ii \in DOMAIN q /\ jj \in DOMAIN q /\ ii < jj
      BY <3>1
    <3>3. r[i] = q[ii] /\ r[j] = q[jj]
      BY <2>2, <3>1
    <3> HIDE DEF ii, jj
    <3> QED BY <3>2, <3>3 DEF SortedList
  <2> QED BY <1>2, <2>2, <2>3, <2>4 DEF r
<1> QED BY <1>1, <1>2

\* A sorted list begins with the best.
LEMMA HeadBest ==
  ASSUME NEW s \in States, NEW q \in Seq(Tasks), SortedList(s, q), q # <<>>
  PROVE  Head(q) \in ToSet(q) /\ \A t \in ToSet(q) : s.task[Head(q)].prio <= s.task[t].prio
<1>1. 1 \in DOMAIN q /\ Head(q) = q[1]
  OBVIOUS
<1>2. \A t \in Tasks : s.task[t].prio \in Int
  BY PriosAssumption DEF States, TaskStruct, Threads
<1>3. ASSUME NEW j \in DOMAIN q PROVE s.task[q[1]].prio <= s.task[q[j]].prio
  <2>1. q[j] \in Tasks
    OBVIOUS
  <2>2. CASE j = 1
    BY <1>2, <2>1, <2>2
  <2>3. CASE j # 1
    BY <1>1, <2>3 DEF SortedList
  <2> QED BY <2>2, <2>3
<1> QED BY <1>1, <1>3 DEF ToSet

-----------------------------------------------------------------------------
(* The fields of a state.                                                  *)

Alike(s, t, p) ==
  /\ t.task[p].prio = s.task[p].prio /\ t.task[p].cpu = s.task[p].cpu
  /\ t.task[p].on_rq = s.task[p].on_rq /\ t.task[p].cpus_allowed = s.task[p].cpus_allowed
\* From s to t nothing changes about the run queues of other CPUs.
Elsewhere(s, t, c) == \A d \in CPUs \ {c} :
  t.rq[d] = s.rq[d] /\ t.rd.cpupri[d] = s.rd.cpupri[d] /\ (d \in t.rd.rto_mask <=> d \in s.rd.rto_mask)
QueueStep(s, t, c) ==
  t \in States /\ t.task = s.task /\ Elsewhere(s, t, c) /\ Current(t, c) = Current(s, c)
TaskStep(s, t, p) ==
  /\ t \in States /\ t.rq = s.rq /\ t.rd = s.rd
  /\ \A q \in Threads \ {p} : t.task[q] = s.task[q]

\* One field of one run queue.
LEMMA SetActive ==
  ASSUME NEW s \in States, NEW c \in CPUs, NEW q \in Seq(Tasks),
         NEW t, t = [s EXCEPT !.rq[c].active = q]
  PROVE  /\ QueueStep(s, t, c) /\ t.rd = s.rd /\ t.rq[c].active = q
         /\ t.rq[c].pushable = s.rq[c].pushable /\ t.rq[c].next = s.rq[c].next
         /\ t.rq[c].migratory = s.rq[c].migratory /\ t.rq[c].overloaded = s.rq[c].overloaded
BY DEF States, RunQueue, QueueStep, Elsewhere, Current

\* The pushable list is set.
LEMMA SetPushable ==
  ASSUME NEW s \in States, NEW c \in CPUs, NEW q \in Seq(Tasks),
         NEW t, t = [s EXCEPT !.rq[c].pushable = q]
  PROVE  /\ QueueStep(s, t, c) /\ t.rd = s.rd /\ t.rq[c].pushable = q
         /\ t.rq[c].active = s.rq[c].active /\ t.rq[c].next = s.rq[c].next
         /\ t.rq[c].migratory = s.rq[c].migratory /\ t.rq[c].overloaded = s.rq[c].overloaded
BY DEF States, RunQueue, QueueStep, Elsewhere, Current

\* The count of tasks that may move is set.
LEMMA SetMigratory ==
  ASSUME NEW s \in States, NEW c \in CPUs, NEW n \in Int,
         NEW t, t = [s EXCEPT !.rq[c].migratory = n]
  PROVE  /\ QueueStep(s, t, c) /\ t.rd = s.rd /\ t.rq[c].migratory = n
         /\ t.rq[c].active = s.rq[c].active /\ t.rq[c].next = s.rq[c].next
         /\ t.rq[c].pushable = s.rq[c].pushable /\ t.rq[c].overloaded = s.rq[c].overloaded
BY DEF States, RunQueue, QueueStep, Elsewhere, Current

\* The run queue of c is set, and what the others know of it.
LEMMA SetQueue ==
  ASSUME NEW s \in States, NEW c \in CPUs,
         NEW t, t = [task |-> t.task, rq |-> t.rq, rd |-> t.rd], t.task = s.task,
         t.rq \in [CPUs -> RunQueue], t.rq[c].curr = s.rq[c].curr,
         t.rd \in [rto_mask : SUBSET CPUs, cpupri : [CPUs -> 0 .. MAX_RT_PRIO]],
         \A d \in CPUs \ {c} : /\ t.rq[d] = s.rq[d] /\ t.rd.cpupri[d] = s.rd.cpupri[d]
                               /\ d \in t.rd.rto_mask <=> d \in s.rd.rto_mask
  PROVE  QueueStep(s, t, c)
<1>1. s.task \in [Threads -> TaskStruct]
  BY DEF States
<1>2. t \in States
  BY <1>1 DEF States
<1> QED BY <1>2 DEF QueueStep, Elsewhere, Current

\* The priorities that a run queue keeps are in range.
LEMMA PriosKept ==
  ASSUME NEW s \in States, ThreadsRight(s), NEW c \in CPUs
  PROVE  highest_prio(s, c) \in 0 .. MAX_RT_PRIO /\ next_prio(s, c) \in 0 .. MAX_RT_PRIO
<1> DEFINE q == s.rq[c].active
<1>1. q \in Seq(Tasks)
  BY DEF States, RunQueue
<1>2. \A p \in Tasks : s.task[p].prio \in 0 .. MAX_RT_PRIO
  BY PriosAssumption DEF States, TaskStruct, Threads, ThreadsRight
<1>3. highest_prio(s, c) \in 0 .. MAX_RT_PRIO
  BY <1>1, <1>2, PriosAssumption DEF highest_prio
<1> DEFINE places == {i \in DOMAIN q : /\ q[i] # Current(s, c) /\ Migratable(s, q[i])
                                      /\ c \in s.task[q[i]].cpus_allowed}
<1>4. places # {} => Min(places) \in DOMAIN q
  <2>1. places \in SUBSET Nat /\ places \subseteq DOMAIN q
    BY <1>1
  <2> HIDE DEF places
  <2> QED BY <2>1, MinOfNaturals
<1>5. pick_next_highest_task_rt(s, c, c) = IF places = {} THEN None ELSE q[Min(places)]
  BY DEF pick_next_highest_task_rt
<1> HIDE DEF places
<1>6. pick_next_highest_task_rt(s, c, c) \in Tasks \cup {None}
  BY <1>1, <1>4, <1>5
<1> QED BY <1>2, <1>3, <1>6, PriosAssumption DEF next_prio

\* What a push or a pull finds on a run queue.
LEMMA PickedTask ==
  ASSUME NEW s \in States, NEW c \in CPUs, NEW cpu, NEW p,
         p = pick_next_highest_task_rt(s, c, cpu), p # None
  PROVE  p \in ToSet(s.rq[c].active) /\ p \in Tasks /\ p # Current(s, c)
         /\ cpu \in s.task[p].cpus_allowed
<1> DEFINE q == s.rq[c].active
           places == {i \in DOMAIN q : /\ q[i] # Current(s, c) /\ Migratable(s, q[i])
                                      /\ cpu \in s.task[q[i]].cpus_allowed}
<1>1. q \in Seq(Tasks)
  BY DEF States, RunQueue
<1>2. p = IF places = {} THEN None ELSE q[Min(places)]
  BY DEF pick_next_highest_task_rt
<1>3. places # {} => Min(places) \in places
  <2>1. places \in SUBSET Nat
    BY <1>1
  <2> HIDE DEF places
  <2> QED BY <2>1, MinOfNaturals
<1>4. PICK i \in places : p = q[i]
  BY <1>2, <1>3
<1> QED BY <1>1, <1>4 DEF ToSet

\* inc_rt_prio_smp after the task is on the array.
LEMMA IncPrio ==
  ASSUME NEW s \in States, ThreadsRight(s), NEW c \in CPUs,
         NEW prio \in 0 .. MAX_RT_PRIO, NEW prev \in 0 .. MAX_RT_PRIO,
         NEW t, t = inc_rt_prio_smp(s, c, prio, prev)
  PROVE  /\ QueueStep(s, t, c) /\ t.rd.rto_mask = s.rd.rto_mask
         /\ t.rd.cpupri[c] = IF prio < prev THEN prio ELSE s.rd.cpupri[c]
         /\ t.rq[c].active = s.rq[c].active /\ t.rq[c].migratory = s.rq[c].migratory
         /\ t.rq[c].pushable = s.rq[c].pushable /\ t.rq[c].overloaded = s.rq[c].overloaded
<1> DEFINE now == highest_prio(s, c)
           next == CASE prio < prev -> prev
                     [] prio >= prev /\ prio = now -> prio
                     [] prio > now /\ prio < s.rq[c].next -> next_prio(s, c)
                     [] OTHER -> s.rq[c].next
           k == IF prio < prev THEN prio ELSE s.rd.cpupri[c]
<1>1. t = [s EXCEPT !.rq[c].next = next, !.rd.cpupri[c] = k]
  BY DEF inc_rt_prio_smp, States
<1>2. s.rq[c].next \in 0 .. MAX_RT_PRIO /\ k \in 0 .. MAX_RT_PRIO
  BY DEF States, RunQueue
<1>3. next \in 0 .. MAX_RT_PRIO
  BY <1>2, PriosKept
<1> HIDE DEF next, k
<1>4. ASSUME NEW u, u = [s EXCEPT !.rq[c].next = next, !.rd.cpupri[c] = k]
      PROVE  /\ QueueStep(s, u, c) /\ u.rd.cpupri[c] = k /\ u.rd.rto_mask = s.rd.rto_mask
             /\ u.rq[c].active = s.rq[c].active /\ u.rq[c].migratory = s.rq[c].migratory
             /\ u.rq[c].pushable = s.rq[c].pushable /\ u.rq[c].overloaded = s.rq[c].overloaded
  <2>1. PICK x : x = [s.rq[c] EXCEPT !.next = next]
    OBVIOUS
  <2>2. /\ x \in RunQueue /\ x.curr = s.rq[c].curr
        /\ x.active = s.rq[c].active /\ x.migratory = s.rq[c].migratory
        /\ x.pushable = s.rq[c].pushable /\ x.overloaded = s.rq[c].overloaded
    BY <1>3, <2>1 DEF States, RunQueue
  <2>3. PICK y : y = [s.rd EXCEPT !.cpupri[c] = k]
    OBVIOUS
  <2>4. /\ y \in [rto_mask : SUBSET CPUs, cpupri : [CPUs -> 0 .. MAX_RT_PRIO]]
        /\ y.cpupri[c] = k /\ y.rto_mask = s.rd.rto_mask
        /\ \A d \in CPUs \ {c} : y.cpupri[d] = s.rd.cpupri[d]
    BY <1>2, <1>3, <2>3 DEF States
  <2>5. u = [task |-> s.task, rq |-> [s.rq EXCEPT ![c] = x], rd |-> y]
    BY <1>4, <2>1, <2>3 DEF States
  <2>6. /\ u = [task |-> u.task, rq |-> u.rq, rd |-> u.rd]
        /\ u.task = s.task /\ u.rd = y /\ u.rq \in [CPUs -> RunQueue] /\ u.rq[c] = x
        /\ \A d \in CPUs \ {c} : u.rq[d] = s.rq[d]
    BY <2>2, <2>5 DEF States
  <2>7. QueueStep(s, u, c)
    BY <2>2, <2>4, <2>6, SetQueue
  <2> QED BY <2>2, <2>4, <2>6, <2>7
<1> QED BY <1>1, <1>4 DEF k

\* dec_rt_prio_smp after the task is off the array.
LEMMA DecPrio ==
  ASSUME NEW s \in States, ThreadsRight(s), NEW c \in CPUs,
         NEW prio \in 0 .. MAX_RT_PRIO, NEW prev \in 0 .. MAX_RT_PRIO,
         s.rd.cpupri[c] = prev,
         NEW t, t = dec_rt_prio_smp(s, c, prio, prev)
  PROVE  /\ QueueStep(s, t, c) /\ t.rd.rto_mask = s.rd.rto_mask
         /\ t.rd.cpupri[c] = highest_prio(s, c)
         /\ t.rq[c].active = s.rq[c].active /\ t.rq[c].migratory = s.rq[c].migratory
         /\ t.rq[c].pushable = s.rq[c].pushable /\ t.rq[c].overloaded = s.rq[c].overloaded
<1> DEFINE stays == s.rq[c].active # <<>> /\ prio <= s.rq[c].next
           next == IF stays THEN next_prio(s, c) ELSE s.rq[c].next
           k == IF highest_prio(s, c) # prev THEN highest_prio(s, c) ELSE s.rd.cpupri[c]
<1>1. t = [s EXCEPT !.rq[c].next = next, !.rd.cpupri[c] = k]
  BY DEF dec_rt_prio_smp, States
<1>2. s.rq[c].next \in 0 .. MAX_RT_PRIO /\ k = highest_prio(s, c)
  BY DEF States, RunQueue
<1>3. next \in 0 .. MAX_RT_PRIO /\ k \in 0 .. MAX_RT_PRIO
  BY <1>2, PriosKept
<1> HIDE DEF next, k
<1>4. ASSUME NEW u, u = [s EXCEPT !.rq[c].next = next, !.rd.cpupri[c] = k]
      PROVE  /\ QueueStep(s, u, c) /\ u.rd.cpupri[c] = k /\ u.rd.rto_mask = s.rd.rto_mask
             /\ u.rq[c].active = s.rq[c].active /\ u.rq[c].migratory = s.rq[c].migratory
             /\ u.rq[c].pushable = s.rq[c].pushable /\ u.rq[c].overloaded = s.rq[c].overloaded
  <2>1. PICK x : x = [s.rq[c] EXCEPT !.next = next]
    OBVIOUS
  <2>2. /\ x \in RunQueue /\ x.curr = s.rq[c].curr
        /\ x.active = s.rq[c].active /\ x.migratory = s.rq[c].migratory
        /\ x.pushable = s.rq[c].pushable /\ x.overloaded = s.rq[c].overloaded
    BY <1>3, <2>1 DEF States, RunQueue
  <2>3. PICK y : y = [s.rd EXCEPT !.cpupri[c] = k]
    OBVIOUS
  <2>4. /\ y \in [rto_mask : SUBSET CPUs, cpupri : [CPUs -> 0 .. MAX_RT_PRIO]]
        /\ y.cpupri[c] = k /\ y.rto_mask = s.rd.rto_mask
        /\ \A d \in CPUs \ {c} : y.cpupri[d] = s.rd.cpupri[d]
    BY <1>2, <1>3, <2>3 DEF States
  <2>5. u = [task |-> s.task, rq |-> [s.rq EXCEPT ![c] = x], rd |-> y]
    BY <1>4, <2>1, <2>3 DEF States
  <2>6. /\ u = [task |-> u.task, rq |-> u.rq, rd |-> u.rd]
        /\ u.task = s.task /\ u.rd = y /\ u.rq \in [CPUs -> RunQueue] /\ u.rq[c] = x
        /\ \A d \in CPUs \ {c} : u.rq[d] = s.rq[d]
    BY <2>2, <2>5 DEF States
  <2>7. QueueStep(s, u, c)
    BY <2>2, <2>4, <2>6, SetQueue
  <2> QED BY <2>2, <2>4, <2>6, <2>7
<1> QED BY <1>1, <1>2, <1>4

\* The counters decide who pulls.
LEMMA UpdateMigration ==
  ASSUME NEW s \in States, NEW c \in CPUs, NEW t, t = update_rt_migration(s, c)
  PROVE  /\ QueueStep(s, t, c) /\ t.rd.cpupri = s.rd.cpupri
         /\ t.rq[c].active = s.rq[c].active /\ t.rq[c].migratory = s.rq[c].migratory
         /\ t.rq[c].pushable = s.rq[c].pushable
         /\ t.rq[c].overloaded = (s.rq[c].migratory > 0 /\ Len(s.rq[c].active) > 1)
         /\ (c \in t.rd.rto_mask) = t.rq[c].overloaded
<1> DEFINE over == s.rq[c].migratory > 0 /\ Len(s.rq[c].active) > 1
           mask == IF over THEN s.rd.rto_mask \cup {c} ELSE s.rd.rto_mask \ {c}
<1>1. t = [s EXCEPT !.rq[c].overloaded = over, !.rd.rto_mask = mask]
  BY DEF update_rt_migration, States
<1>2. over \in BOOLEAN /\ (c \in mask <=> over)
  OBVIOUS
<1>3. mask \in SUBSET CPUs /\ mask \ {c} = s.rd.rto_mask \ {c}
  BY DEF States
<1> HIDE DEF over, mask
<1>4. ASSUME NEW u, u = [s EXCEPT !.rq[c].overloaded = over, !.rd.rto_mask = mask]
      PROVE  /\ QueueStep(s, u, c) /\ u.rd.cpupri = s.rd.cpupri /\ u.rd.rto_mask = mask
             /\ u.rq[c].active = s.rq[c].active /\ u.rq[c].migratory = s.rq[c].migratory
             /\ u.rq[c].pushable = s.rq[c].pushable /\ u.rq[c].overloaded = over
  <2>1. PICK x : x = [s.rq[c] EXCEPT !.overloaded = over]
    OBVIOUS
  <2>2. /\ x \in RunQueue /\ x.curr = s.rq[c].curr
        /\ x.active = s.rq[c].active /\ x.migratory = s.rq[c].migratory
        /\ x.pushable = s.rq[c].pushable /\ x.overloaded = over
    BY <1>2, <2>1 DEF States, RunQueue
  <2>3. PICK y : y = [s.rd EXCEPT !.rto_mask = mask]
    OBVIOUS
  <2>4. /\ y \in [rto_mask : SUBSET CPUs, cpupri : [CPUs -> 0 .. MAX_RT_PRIO]]
        /\ y.cpupri = s.rd.cpupri /\ y.rto_mask = mask
        /\ \A d \in CPUs \ {c} : d \in y.rto_mask <=> d \in s.rd.rto_mask
    BY <1>3, <2>3 DEF States
  <2>5. u = [task |-> s.task, rq |-> [s.rq EXCEPT ![c] = x], rd |-> y]
    BY <1>4, <2>1, <2>3 DEF States
  <2>6. /\ u = [task |-> u.task, rq |-> u.rq, rd |-> u.rd]
        /\ u.task = s.task /\ u.rd = y /\ u.rq \in [CPUs -> RunQueue] /\ u.rq[c] = x
        /\ \A d \in CPUs \ {c} : u.rq[d] = s.rq[d]
    BY <2>2, <2>5 DEF States
  <2>7. QueueStep(s, u, c)
    BY <2>2, <2>4, <2>6, SetQueue
  <2> QED BY <2>2, <2>4, <2>6, <2>7
<1>5. /\ QueueStep(s, t, c) /\ t.rd.cpupri = s.rd.cpupri /\ t.rd.rto_mask = mask
      /\ t.rq[c].active = s.rq[c].active /\ t.rq[c].migratory = s.rq[c].migratory
      /\ t.rq[c].pushable = s.rq[c].pushable /\ t.rq[c].overloaded = over
  BY <1>1, <1>4, Zenon
<1>6. (c \in t.rd.rto_mask) = t.rq[c].overloaded
  BY <1>2, <1>5
<1> QED BY <1>5, <1>6 DEF over

\* One step of a run queue after the other.
LEMMA TwoQueueSteps ==
  ASSUME NEW s, NEW t, NEW u, NEW c, QueueStep(s, t, c), QueueStep(t, u, c)
  PROVE  QueueStep(s, u, c)
BY DEF QueueStep, Elsewhere

\* The lists of a sound run queue.
LEMMA ListsTyped ==
  ASSUME NEW s \in States, NEW c \in CPUs
  PROVE  /\ s.rq[c].active \in Seq(Tasks) /\ s.rq[c].pushable \in Seq(Tasks)
         /\ s.rq[c].migratory \in Int /\ Current(s, c) \in Threads
BY DEF States, RunQueue, Current

\* The task is off the pushable list of c.
LEMMA DequeuePushable ==
  ASSUME NEW s \in States, NEW c \in CPUs, IsInjective(s.rq[c].pushable), NEW p,
         NEW t, t = dequeue_pushable_task(s, c, p)
  PROVE  /\ QueueStep(s, t, c) /\ t.rd = s.rd
         /\ t.rq[c].active = s.rq[c].active /\ t.rq[c].migratory = s.rq[c].migratory
         /\ t.rq[c].overloaded = s.rq[c].overloaded
         /\ IsInjective(t.rq[c].pushable)
         /\ ToSet(t.rq[c].pushable) = ToSet(s.rq[c].pushable) \ {p}
<1> DEFINE r == RemoveFirst(s.rq[c].pushable, p)
<1>1. r \in Seq(Tasks) /\ IsInjective(r) /\ ToSet(r) = ToSet(s.rq[c].pushable) \ {p}
  BY ListsTyped, RemovedSorted
<1>2. t = [s EXCEPT !.rq[c].pushable = r]
  BY DEF dequeue_pushable_task
<1> HIDE DEF r
<1>3. ASSUME NEW u, u = [s EXCEPT !.rq[c].pushable = r]
      PROVE  /\ QueueStep(s, u, c) /\ u.rd = s.rd /\ u.rq[c].pushable = r
             /\ u.rq[c].active = s.rq[c].active /\ u.rq[c].migratory = s.rq[c].migratory
             /\ u.rq[c].overloaded = s.rq[c].overloaded
  <2>1. PICK x : x = [s.rq[c] EXCEPT !.pushable = r]
    OBVIOUS
  <2>2. /\ x \in RunQueue /\ x.curr = s.rq[c].curr
        /\ x.active = s.rq[c].active /\ x.migratory = s.rq[c].migratory
        /\ x.pushable = r /\ x.overloaded = s.rq[c].overloaded
    BY <1>1, <2>1 DEF States, RunQueue
  <2>3. s.rd \in [rto_mask : SUBSET CPUs, cpupri : [CPUs -> 0 .. MAX_RT_PRIO]]
    BY DEF States
  <2>4. u = [task |-> s.task, rq |-> [s.rq EXCEPT ![c] = x], rd |-> s.rd]
    BY <1>3, <2>1 DEF States
  <2>5. /\ u = [task |-> u.task, rq |-> u.rq, rd |-> u.rd]
        /\ u.task = s.task /\ u.rd = s.rd /\ u.rq \in [CPUs -> RunQueue] /\ u.rq[c] = x
        /\ \A d \in CPUs \ {c} : u.rq[d] = s.rq[d]
    BY <2>2, <2>4 DEF States
  <2>6. QueueStep(s, u, c)
    BY <2>2, <2>3, <2>5, SetQueue
  <2> QED BY <2>2, <2>5, <2>6
<1> QED BY <1>1, <1>2, <1>3

\* The task is on the pushable list of c.
LEMMA EnqueuePushable ==
  ASSUME NEW s \in States, NEW c \in CPUs, IsInjective(s.rq[c].pushable), NEW p \in Tasks,
         NEW t, t = enqueue_pushable_task(s, c, p)
  PROVE  /\ QueueStep(s, t, c) /\ t.rd = s.rd
         /\ t.rq[c].active = s.rq[c].active /\ t.rq[c].migratory = s.rq[c].migratory
         /\ t.rq[c].overloaded = s.rq[c].overloaded
         /\ IsInjective(t.rq[c].pushable)
         /\ ToSet(t.rq[c].pushable) = ToSet(s.rq[c].pushable) \cup {p}
<1> DEFINE off == dequeue_pushable_task(s, c, p)
           q == off.rq[c].pushable
           b == AddTail(s, q, p)
<1>1. /\ QueueStep(s, off, c) /\ off.rd = s.rd
      /\ off.rq[c].active = s.rq[c].active /\ off.rq[c].migratory = s.rq[c].migratory
      /\ off.rq[c].overloaded = s.rq[c].overloaded
      /\ IsInjective(q) /\ ToSet(q) = ToSet(s.rq[c].pushable) \ {p}
  BY DequeuePushable
<1>2. t = [off EXCEPT !.rq[c].pushable = b]
  BY DEF enqueue_pushable_task
<1> HIDE DEF off
<1>3. off \in States /\ q \in Seq(Tasks)
  BY <1>1, ListsTyped DEF QueueStep
<1>4. b \in Seq(Tasks) /\ IsInjective(b) /\ ToSet(b) = ToSet(q) \cup {p}
  BY <1>1, <1>3, AddedBefore DEF AddTail
<1> HIDE DEF b
<1>5. ASSUME NEW u, u = [off EXCEPT !.rq[c].pushable = b]
      PROVE  /\ QueueStep(off, u, c) /\ u.rd = off.rd /\ u.rq[c].pushable = b
             /\ u.rq[c].active = off.rq[c].active /\ u.rq[c].migratory = off.rq[c].migratory
             /\ u.rq[c].overloaded = off.rq[c].overloaded
  BY <1>3, <1>4, <1>5, SetPushable
<1>6. ToSet(b) = ToSet(s.rq[c].pushable) \cup {p}
  BY <1>1, <1>4
<1> QED BY <1>1, <1>2, <1>4, <1>5, <1>6, TwoQueueSteps

\* enqueue_task_rt.
LEMMA EnqueueEffect ==
  ASSUME NEW s \in States, ThreadsRight(s), NEW c \in CPUs, NEW p \in Tasks, rt_task(s, p),
         IsInjective(s.rq[c].active), SortedList(s, s.rq[c].active), p \notin ToSet(s.rq[c].active),
         IsInjective(s.rq[c].pushable), NEW t, t = enqueue_task_rt(s, c, p)
  PROVE  /\ QueueStep(s, t, c)
         /\ t.rq[c].active = AddTail(s, s.rq[c].active, p)
         /\ IsInjective(t.rq[c].pushable)
         /\ ToSet(t.rq[c].pushable) = IF p # Current(s, c) /\ Migratable(s, p)
                                      THEN ToSet(s.rq[c].pushable) \cup {p}
                                      ELSE ToSet(s.rq[c].pushable)
         /\ t.rq[c].migratory = s.rq[c].migratory + (IF Migratable(s, p) THEN 1 ELSE 0)
         /\ t.rq[c].overloaded = (t.rq[c].migratory > 0 /\ Len(t.rq[c].active) > 1)
         /\ (c \in t.rd.rto_mask) = t.rq[c].overloaded
         /\ t.rd.cpupri[c] = IF s.task[p].prio < highest_prio(s, c) THEN s.task[p].prio
                             ELSE s.rd.cpupri[c]
<1> DEFINE prev == highest_prio(s, c)
           prio == s.task[p].prio
           b == AddTail(s, s.rq[c].active, p)
           listed == [s EXCEPT !.rq[c].active = b]
           inc == inc_rt_prio_smp(listed, c, prio, prev)
           n == inc.rq[c].migratory + (IF Migratable(s, p) THEN 1 ELSE 0)
           counted == [inc EXCEPT !.rq[c].migratory = n]
           seen == update_rt_migration(counted, c)
<1>1. /\ b \in Seq(Tasks) /\ prev \in 0 .. MAX_RT_PRIO /\ prio \in 0 .. MAX_RT_PRIO
      /\ s.rq[c].active \in Seq(Tasks) /\ s.rq[c].migratory \in Int
  <2>1. s.rq[c].active \in Seq(Tasks) /\ s.rq[c].migratory \in Int
    BY ListsTyped
  <2>2. b \in Seq(Tasks)
    BY <2>1, AddedSorted
  <2>3. prio \in 0 .. MAX_RT_PRIO
    BY PriosAssumption DEF rt_task, rt_prio, States, TaskStruct, Threads
  <2> QED BY <2>1, <2>2, <2>3, PriosKept
<1>2. /\ QueueStep(s, listed, c) /\ listed.rd = s.rd /\ listed.rq[c].active = b
      /\ listed.rq[c].pushable = s.rq[c].pushable
      /\ listed.rq[c].migratory = s.rq[c].migratory
  <2> HIDE DEF b
  <2> QED BY <1>1, SetActive
<1>3. t = IF p # Current(s, c) /\ Migratable(s, p) THEN enqueue_pushable_task(seen, c, p) ELSE seen
  <2>1. counted = [inc EXCEPT !.rq[c].migratory = IF Migratable(s, p) THEN @ + 1 ELSE @]
    <3>1. listed \in States /\ ThreadsRight(listed)
      BY <1>2 DEF QueueStep, ThreadsRight
    <3> HIDE DEF listed
    <3>2. inc \in States
      BY <1>1, <3>1, IncPrio DEF QueueStep
    <3>3. inc.rq[c].migratory \in Int
      BY <3>2, ListsTyped
    <3> HIDE DEF inc
    <3> QED BY <3>3
  <2> QED BY <2>1 DEF enqueue_task_rt
<1> HIDE DEF listed
<1>4. listed \in States /\ ThreadsRight(listed)
  BY <1>2 DEF QueueStep, ThreadsRight
<1>5. /\ QueueStep(listed, inc, c) /\ inc.rd.rto_mask = listed.rd.rto_mask
      /\ inc.rd.cpupri[c] = IF prio < prev THEN prio ELSE listed.rd.cpupri[c]
      /\ inc.rq[c].active = listed.rq[c].active /\ inc.rq[c].migratory = listed.rq[c].migratory
      /\ inc.rq[c].pushable = listed.rq[c].pushable
  BY <1>1, <1>4, IncPrio
<1> HIDE DEF inc, prev, prio, b
<1>6. /\ QueueStep(inc, counted, c) /\ counted.rd = inc.rd /\ counted.rq[c].migratory = n
      /\ counted.rq[c].active = inc.rq[c].active /\ counted.rq[c].pushable = inc.rq[c].pushable
  <2>1. inc \in States /\ n \in Int
    BY <1>1, <1>2, <1>5 DEF QueueStep
  <2> HIDE DEF n
  <2> QED BY <2>1, SetMigratory
<1> HIDE DEF counted
<1>7. /\ QueueStep(counted, seen, c) /\ seen.rd.cpupri = counted.rd.cpupri
      /\ seen.rq[c].active = counted.rq[c].active /\ seen.rq[c].migratory = counted.rq[c].migratory
      /\ seen.rq[c].pushable = counted.rq[c].pushable
      /\ seen.rq[c].overloaded = (counted.rq[c].migratory > 0 /\ Len(counted.rq[c].active) > 1)
      /\ (c \in seen.rd.rto_mask) = seen.rq[c].overloaded
  <2>1. counted \in States
    BY <1>6 DEF QueueStep
  <2> QED BY <2>1, UpdateMigration
<1> HIDE DEF seen
<1>8. /\ QueueStep(s, seen, c)
      /\ seen.rq[c].active = b /\ seen.rq[c].pushable = s.rq[c].pushable
      /\ seen.rq[c].migratory = s.rq[c].migratory + (IF Migratable(s, p) THEN 1 ELSE 0)
      /\ seen.rq[c].overloaded = (seen.rq[c].migratory > 0 /\ Len(seen.rq[c].active) > 1)
      /\ (c \in seen.rd.rto_mask) = seen.rq[c].overloaded
      /\ seen.rd.cpupri[c] = IF prio < prev THEN prio ELSE s.rd.cpupri[c]
  <2>1. QueueStep(s, seen, c)
    BY <1>2, <1>5, <1>6, <1>7, TwoQueueSteps
  <2>2. seen.rq[c].migratory = s.rq[c].migratory + (IF Migratable(s, p) THEN 1 ELSE 0)
    BY <1>2, <1>5, <1>6, <1>7
  <2>3. seen.rq[c].overloaded = (seen.rq[c].migratory > 0 /\ Len(seen.rq[c].active) > 1)
        /\ (c \in seen.rd.rto_mask) = seen.rq[c].overloaded
    BY <1>7
  <2> QED BY <1>2, <1>5, <1>6, <1>7, <2>1, <2>2, <2>3
<1>9. CASE ~ (p # Current(s, c) /\ Migratable(s, p))
  BY <1>3, <1>8, <1>9 DEF b, prio, prev
<1>10. CASE p # Current(s, c) /\ Migratable(s, p)
  <2>1. t = enqueue_pushable_task(seen, c, p) /\ seen \in States
    BY <1>3, <1>8, <1>10 DEF QueueStep
  <2>2. /\ QueueStep(seen, t, c) /\ t.rd = seen.rd
        /\ t.rq[c].active = seen.rq[c].active /\ t.rq[c].migratory = seen.rq[c].migratory
        /\ t.rq[c].overloaded = seen.rq[c].overloaded
        /\ IsInjective(t.rq[c].pushable)
        /\ ToSet(t.rq[c].pushable) = ToSet(seen.rq[c].pushable) \cup {p}
    <3>1. IsInjective(seen.rq[c].pushable)
      BY <1>8
    <3> QED BY <2>1, <3>1, EnqueuePushable
  <2>3. QueueStep(s, t, c)
    BY <1>8, <2>2, TwoQueueSteps
  <2> QED BY <1>8, <1>10, <2>2, <2>3 DEF b, prio, prev
<1> QED BY <1>9, <1>10

\* dequeue_rt_entity.
LEMMA DequeueEffect ==
  ASSUME NEW s \in States, ThreadsRight(s), NEW c \in CPUs, NEW p \in Tasks, rt_task(s, p),
         IsInjective(s.rq[c].active), s.rd.cpupri[c] = highest_prio(s, c),
         IsInjective(s.rq[c].pushable), NEW t, t = dequeue_rt_entity(s, c, p)
  PROVE  /\ QueueStep(s, t, c)
         /\ t.rq[c].active = RemoveFirst(s.rq[c].active, p)
         /\ IsInjective(t.rq[c].pushable)
         /\ ToSet(t.rq[c].pushable) = ToSet(s.rq[c].pushable) \ {p}
         /\ t.rq[c].migratory = s.rq[c].migratory - (IF Migratable(s, p) THEN 1 ELSE 0)
         /\ t.rq[c].overloaded = (t.rq[c].migratory > 0 /\ Len(t.rq[c].active) > 1)
         /\ (c \in t.rd.rto_mask) = t.rq[c].overloaded
         /\ t.rd.cpupri[c] = highest_prio(t, c)
<1> DEFINE prev == highest_prio(s, c)
           prio == s.task[p].prio
           b == RemoveFirst(s.rq[c].active, p)
           unlisted == [s EXCEPT !.rq[c].active = b]
           dec == dec_rt_prio_smp(unlisted, c, prio, prev)
           n == dec.rq[c].migratory - (IF Migratable(s, p) THEN 1 ELSE 0)
           counted == [dec EXCEPT !.rq[c].migratory = n]
           seen == update_rt_migration(counted, c)
<1>1. /\ b \in Seq(Tasks) /\ prev \in 0 .. MAX_RT_PRIO /\ prio \in 0 .. MAX_RT_PRIO
      /\ s.rq[c].active \in Seq(Tasks) /\ s.rq[c].migratory \in Int
  <2>1. s.rq[c].active \in Seq(Tasks) /\ s.rq[c].migratory \in Int
    BY ListsTyped
  <2>2. b \in Seq(Tasks)
    BY <2>1, RemovedSorted
  <2>3. prio \in 0 .. MAX_RT_PRIO
    BY PriosAssumption DEF rt_task, rt_prio, States, TaskStruct, Threads
  <2> QED BY <2>1, <2>2, <2>3, PriosKept
<1>2. /\ QueueStep(s, unlisted, c) /\ unlisted.rd = s.rd /\ unlisted.rq[c].active = b
      /\ unlisted.rq[c].pushable = s.rq[c].pushable
      /\ unlisted.rq[c].migratory = s.rq[c].migratory
  <2> HIDE DEF b
  <2> QED BY <1>1, SetActive
<1>3. t = dequeue_pushable_task(seen, c, p)
  <2>1. counted = [dec EXCEPT !.rq[c].migratory = IF Migratable(s, p) THEN @ - 1 ELSE @]
    <3>1. unlisted \in States /\ ThreadsRight(unlisted) /\ unlisted.rd.cpupri[c] = prev
      BY <1>2 DEF QueueStep, ThreadsRight
    <3> HIDE DEF unlisted
    <3>2. dec \in States
      <4> HIDE DEF prev, prio
      <4> QED BY <1>1, <3>1, DecPrio DEF QueueStep
    <3>3. dec.rq[c].migratory \in Int
      BY <3>2, ListsTyped
    <3> HIDE DEF dec
    <3> QED BY <3>3
  <2> QED BY <2>1 DEF dequeue_rt_entity
<1>4. unlisted \in States /\ ThreadsRight(unlisted) /\ unlisted.rd.cpupri[c] = prev
  BY <1>2 DEF QueueStep, ThreadsRight
<1> HIDE DEF unlisted, prev, prio, b
<1>5. /\ QueueStep(unlisted, dec, c) /\ dec.rd.rto_mask = unlisted.rd.rto_mask
      /\ dec.rd.cpupri[c] = highest_prio(unlisted, c)
      /\ dec.rq[c].active = unlisted.rq[c].active /\ dec.rq[c].migratory = unlisted.rq[c].migratory
      /\ dec.rq[c].pushable = unlisted.rq[c].pushable
  BY <1>1, <1>4, DecPrio
<1> HIDE DEF dec
<1>6. /\ QueueStep(dec, counted, c) /\ counted.rd = dec.rd /\ counted.rq[c].migratory = n
      /\ counted.rq[c].active = dec.rq[c].active /\ counted.rq[c].pushable = dec.rq[c].pushable
  <2>1. dec \in States /\ n \in Int
    BY <1>1, <1>2, <1>5 DEF QueueStep
  <2> HIDE DEF n
  <2> QED BY <2>1, SetMigratory
<1> HIDE DEF counted
<1>7. /\ QueueStep(counted, seen, c) /\ seen.rd.cpupri = counted.rd.cpupri
      /\ seen.rq[c].active = counted.rq[c].active /\ seen.rq[c].migratory = counted.rq[c].migratory
      /\ seen.rq[c].pushable = counted.rq[c].pushable
      /\ seen.rq[c].overloaded = (counted.rq[c].migratory > 0 /\ Len(counted.rq[c].active) > 1)
      /\ (c \in seen.rd.rto_mask) = seen.rq[c].overloaded
  <2>1. counted \in States
    BY <1>6 DEF QueueStep
  <2> QED BY <2>1, UpdateMigration
<1> HIDE DEF seen
<1>8. /\ QueueStep(s, seen, c) /\ seen \in States
      /\ seen.rq[c].active = b /\ seen.rq[c].pushable = s.rq[c].pushable
      /\ seen.rq[c].migratory = s.rq[c].migratory - (IF Migratable(s, p) THEN 1 ELSE 0)
      /\ seen.rq[c].overloaded = (seen.rq[c].migratory > 0 /\ Len(seen.rq[c].active) > 1)
      /\ (c \in seen.rd.rto_mask) = seen.rq[c].overloaded
      /\ seen.rd.cpupri[c] = highest_prio(unlisted, c)
      /\ IsInjective(seen.rq[c].pushable)
  <2>1. QueueStep(s, seen, c) /\ seen \in States
    BY <1>2, <1>5, <1>6, <1>7, TwoQueueSteps DEF QueueStep
  <2>2. seen.rq[c].migratory = s.rq[c].migratory - (IF Migratable(s, p) THEN 1 ELSE 0)
    BY <1>2, <1>5, <1>6, <1>7
  <2>3. seen.rq[c].overloaded = (seen.rq[c].migratory > 0 /\ Len(seen.rq[c].active) > 1)
        /\ (c \in seen.rd.rto_mask) = seen.rq[c].overloaded
    BY <1>7
  <2>4. seen.rd.cpupri[c] = highest_prio(unlisted, c)
    BY <1>5, <1>6, <1>7
  <2> QED BY <1>2, <1>5, <1>6, <1>7, <2>1, <2>2, <2>3, <2>4
<1>9. /\ QueueStep(seen, t, c) /\ t.rd = seen.rd
      /\ t.rq[c].active = seen.rq[c].active /\ t.rq[c].migratory = seen.rq[c].migratory
      /\ t.rq[c].overloaded = seen.rq[c].overloaded
      /\ IsInjective(t.rq[c].pushable)
      /\ ToSet(t.rq[c].pushable) = ToSet(seen.rq[c].pushable) \ {p}
  BY <1>3, <1>8, DequeuePushable
<1>10. QueueStep(s, t, c)
  BY <1>8, <1>9, TwoQueueSteps
<1>11. highest_prio(unlisted, c) = highest_prio(t, c)
  BY <1>2, <1>8, <1>9, <1>10 DEF QueueStep, highest_prio
<1> QED BY <1>8, <1>9, <1>10, <1>11 DEF b

-----------------------------------------------------------------------------
(* Soundness of the run queues.                                            *)

\* What others see is right when the counters are.
LEMMA CountersRight ==
  ASSUME NEW t \in States, NEW c \in CPUs,
         t.rd.cpupri[c] = highest_prio(t, c),
         t.rq[c].migratory = Cardinality(MovableOf(t, c)),
         t.rq[c].overloaded = (t.rq[c].migratory > 0 /\ Len(t.rq[c].active) > 1),
         (c \in t.rd.rto_mask) = t.rq[c].overloaded
  PROVE  SeenRight(t, c)
<1>1. IsFiniteSet(MovableOf(t, c))
  <2>1. IsFiniteSet(ToSet(t.rq[c].active)) /\ MovableOf(t, c) \subseteq ToSet(t.rq[c].active)
    BY ListsTyped, ListFinite DEF MovableOf
  <2> QED BY <2>1, FS_Subset
<1>2. Cardinality(MovableOf(t, c)) \in Nat
      /\ (Cardinality(MovableOf(t, c)) = 0 <=> MovableOf(t, c) = {})
  BY <1>1, FS_CardinalityType, FS_EmptySet
<1>3. t.rq[c].migratory > 0 <=> MovableOf(t, c) # {}
  BY <1>2
<1> QED BY <1>3 DEF SeenRight

\* The order of a list is that of the priorities.
LEMMA SortedAlike ==
  ASSUME NEW s, NEW t, NEW q \in Seq(Tasks), SortedList(s, q),
         \A p \in ToSet(q) : t.task[p].prio = s.task[p].prio
  PROVE  SortedList(t, q)
<1>1. \A i \in DOMAIN q : q[i] \in ToSet(q)
  BY DEF ToSet
<1> QED BY <1>1 DEF SortedList

\* The queue of a CPU stays right when it and its tasks do not change: p, which
\* may, is not on its array.
LEMMA OtherQueue ==
  ASSUME NEW s, Sound(s), NEW t \in States, NEW p, NEW d \in CPUs,
         t.rq[d] = s.rq[d], t.rd.cpupri[d] = s.rd.cpupri[d],
         d \in t.rd.rto_mask <=> d \in s.rd.rto_mask,
         \A q \in Tasks \ {p} : Alike(s, t, q),
         p \in Tasks => Aside(s, p, d) /\ Aside(t, p, d)
  PROVE  QueueRight(t, d)
<1> DEFINE q == s.rq[d].active
           u == s.rq[d].pushable
<1>1. s \in States /\ QueueRight(s, d)
  BY DEF Sound
<1>2. q \in Seq(Tasks) /\ u \in Seq(Tasks) /\ ToSet(q) \subseteq Tasks /\ ToSet(u) \subseteq Tasks
  BY <1>1, ListsTyped DEF ToSet
<1>3. p \notin ToSet(q) /\ p \notin ToSet(u)
  <2>1. p \in ToSet(q) => p \in Tasks /\ ~ Aside(s, p, d)
    BY <1>1, <1>2 DEF QueueRight, ActiveRight, Aside
  <2>2. p \in ToSet(u) => p \in Tasks /\ ~ Aside(s, p, d)
    BY <1>1 DEF QueueRight, PushableRight, Movable, Aside
  <2> QED BY <2>1, <2>2
<1>4. t.rq[d].active = q /\ t.rq[d].pushable = u /\ Current(t, d) = Current(s, d)
  BY DEF Current
<1>5. \A x \in Tasks \ {p} : /\ rt_task(t, x) = rt_task(s, x)
                             /\ Migratable(t, x) = Migratable(s, x)
                             /\ t.task[x].prio = s.task[x].prio
                             /\ t.task[x].cpu = s.task[x].cpu /\ t.task[x].on_rq = s.task[x].on_rq
  BY DEF Alike, rt_task, Migratable
<1>6. ActiveRight(t, d)
  <2>1. IsInjective(q) /\ SortedList(t, q)
    BY <1>1, <1>2, <1>3, <1>5, SortedAlike DEF QueueRight, ActiveRight
  <2>2. ASSUME NEW x \in Tasks
        PROVE  x \in ToSet(q) <=> t.task[x].cpu = d /\ t.task[x].on_rq /\ rt_task(t, x)
    <3>1. CASE x = p
      BY <1>3, <3>1 DEF Aside
    <3>2. CASE x # p
      BY <1>1, <1>5, <3>2 DEF QueueRight, ActiveRight
    <3> QED BY <3>1, <3>2
  <2> QED BY <1>4, <2>1, <2>2 DEF ActiveRight
<1>7. PushableRight(t, d)
  <2>1. \A x \in ToSet(u) : x \in Tasks \ {p} /\ Movable(s, x, d) /\ rt_task(s, x) /\ Migratable(s, x)
    BY <1>1, <1>2, <1>3 DEF QueueRight, PushableRight
  <2>2. \A x \in ToSet(u) : Movable(t, x, d) /\ rt_task(t, x) /\ Migratable(t, x)
    BY <1>4, <1>5, <2>1 DEF Movable
  <2> QED BY <1>1, <1>4, <2>2 DEF QueueRight, PushableRight
<1>8. SeenRight(t, d)
  <2>1. MovableOf(t, d) = MovableOf(s, d)
    BY <1>2, <1>3, <1>4, <1>5 DEF MovableOf
  <2>2. highest_prio(t, d) = highest_prio(s, d)
    <3>1. q # <<>> => Head(q) \in ToSet(q)
      BY <1>2 DEF ToSet
    <3>2. q # <<>> => t.task[Head(q)].prio = s.task[Head(q)].prio
      BY <1>2, <1>3, <1>5, <3>1
    <3> QED BY <1>4, <3>2 DEF highest_prio
  <2> QED BY <1>1, <2>1, <2>2 DEF QueueRight, SeenRight
<1> QED BY <1>6, <1>7, <1>8 DEF QueueRight

\* What a CPU that has locked r knows of its run queue and its tasks stays true.
KeptQueue(s, t, r) ==
  /\ t.rq[r].pushable = s.rq[r].pushable
  /\ \A p \in Tasks : s.task[p].cpu = r =>
       /\ t.task[p].cpu = r /\ t.task[p].on_rq = s.task[p].on_rq
       /\ t.task[p].cpus_allowed = s.task[p].cpus_allowed
\* From s a CPU that has the locks L comes to t, without a switch.
Touches(s, t, L) ==
  /\ Sound(t)
  /\ \A d \in CPUs : Current(t, d) = Current(s, d)
  /\ \A r \in CPUs \ L : KeptQueue(s, t, r)
\* Nobody's task is taken off its queue under it.
Runs(s, t) == \A d \in CPUs : s.task[Current(s, d)].on_rq => t.task[Current(t, d)].on_rq
Under(s, t, L) == Touches(s, t, L) /\ Runs(s, t)

\* One call after the other.
LEMMA TouchesTwice ==
  ASSUME NEW s, NEW t, NEW u, NEW L, Touches(s, t, L), Touches(t, u, L)
  PROVE  Touches(s, u, L)
BY DEF Touches, KeptQueue

\* One call after the other, and no current task taken off.
LEMMA UnderTwice ==
  ASSUME NEW s, NEW t, NEW u, NEW L, Under(s, t, L), Under(t, u, L)
  PROVE  Under(s, u, L)
<1>1. Touches(s, u, L)
  BY TouchesTwice DEF Under
<1>2. Runs(s, u)
  BY DEF Under, Runs
<1> QED BY <1>1, <1>2 DEF Under

\* More locks do no harm.
LEMMA MoreLocks ==
  ASSUME NEW s, NEW t, NEW L, NEW M, L \subseteq M, Touches(s, t, L)
  PROVE  Touches(s, t, M)
BY DEF Touches

\* A state is what becomes of it when nothing is done.
LEMMA NothingDone ==
  ASSUME NEW s, Sound(s), NEW L
  PROVE  Under(s, s, L)
BY DEF Under, Touches, KeptQueue, Runs

\* Every queue is right after a change of one task that is on no array.
LEMMA TaskAside ==
  ASSUME NEW s, Sound(s), NEW p, NEW t, TaskStep(s, t, p), p \in Threads,
         p \in Tasks => \A d \in CPUs : Aside(s, p, d) /\ Aside(t, p, d)
  PROVE  \A d \in CPUs : QueueRight(t, d) /\ Current(t, d) = Current(s, d)
<1> SUFFICES ASSUME NEW d \in CPUs PROVE QueueRight(t, d) /\ Current(t, d) = Current(s, d)
  OBVIOUS
<1>1. t \in States /\ t.rq = s.rq /\ t.rd = s.rd
  BY DEF TaskStep
<1>2. \A q \in Tasks \ {p} : Alike(s, t, q)
  BY DEF TaskStep, Alike, Threads
<1>3. QueueRight(t, d)
  BY <1>1, <1>2, OtherQueue
<1> QED BY <1>1, <1>3 DEF Current

\* A change of one task that is on no array: the CPU r where it was is locked.
LEMMA TaskChanged ==
  ASSUME NEW s, Sound(s), NEW p \in Tasks, NEW t, TaskStep(s, t, p),
         \A d \in CPUs : Aside(s, p, d) /\ Aside(t, p, d),
         t.task[p].prio <= MAX_RT_PRIO, t.task[p].cpu \in t.task[p].cpus_allowed,
         \A d \in CPUs : Current(s, d) = p => t.task[p].cpu = d
  PROVE  Touches(s, t, {s.task[p].cpu})
<1>1. t \in States /\ t.rq = s.rq /\ \A q \in Threads \ {p} : t.task[q] = s.task[q]
  BY DEF TaskStep
<1>2. \A d \in CPUs : QueueRight(t, d) /\ Current(t, d) = Current(s, d)
  BY TaskAside DEF Threads
<1>3. ThreadsRight(t)
  BY <1>1, ThreadsAssumption DEF Sound, ThreadsRight, Threads
<1>4. PlacesRight(t)
  <2>1. ASSUME NEW d \in CPUs PROVE t.task[Current(t, d)].cpu = d
    <3>1. Current(s, d) \in Threads /\ s.task[Current(s, d)].cpu = d
      BY ListsTyped DEF Sound, PlacesRight
    <3> QED BY <1>1, <1>2, <3>1
  <2>2. \A q \in Tasks : t.task[q].cpu \in t.task[q].cpus_allowed
    BY <1>1 DEF Sound, PlacesRight, Threads
  <2> QED BY <2>1, <2>2 DEF PlacesRight
<1>5. \A r \in CPUs \ {s.task[p].cpu} : KeptQueue(s, t, r)
  BY <1>1 DEF KeptQueue, Threads
<1> QED BY <1>1, <1>2, <1>3, <1>4, <1>5 DEF Sound, Touches

\* Flags of a thread: no queue depends on them.
LEMMA FlagsChanged ==
  ASSUME NEW s, Sound(s), NEW p \in Threads, NEW t, TaskStep(s, t, p), Alike(s, t, p),
         p \in CPUs => ~ t.task[p].sleeping
  PROVE  Under(s, t, {})
<1>1. t \in States /\ t.rq = s.rq /\ t.rd = s.rd /\ \A q \in Threads \ {p} : t.task[q] = s.task[q]
  BY DEF TaskStep
<1>2. \A q \in Threads : Alike(s, t, q)
  BY <1>1 DEF Alike
<1>3. \A d \in CPUs : QueueRight(t, d)
  <2> SUFFICES ASSUME NEW d \in CPUs PROVE QueueRight(t, d)
    OBVIOUS
  <2>1. None \notin Tasks /\ \A q \in Tasks \ {None} : Alike(s, t, q)
    BY <1>2, ThreadsAssumption DEF Threads
  <2> QED BY <1>1, <2>1, OtherQueue
<1>4. \A d \in CPUs : Current(t, d) = Current(s, d) /\ Current(s, d) \in Threads
  BY <1>1, ListsTyped DEF Current, Sound
<1>5. ThreadsRight(t)
  <2>1. ASSUME NEW d \in CPUs
        PROVE  /\ t.task[d].cpu = d /\ t.task[d].prio = MAX_RT_PRIO + 1
               /\ t.task[d].on_rq /\ ~ t.task[d].sleeping
    <3>1. d \in Threads
      BY DEF Threads
    <3>2. ~ t.task[d].sleeping
      BY <1>1, <3>1 DEF Sound, ThreadsRight
    <3> QED BY <1>2, <3>1, <3>2 DEF Sound, ThreadsRight, Alike
  <2>2. \A q \in Tasks : t.task[q].prio <= MAX_RT_PRIO
    BY <1>2 DEF Sound, ThreadsRight, Alike, Threads
  <2> QED BY <2>1, <2>2 DEF ThreadsRight
<1>6. PlacesRight(t)
  BY <1>2, <1>4 DEF Sound, PlacesRight, Alike, Threads
<1>7. \A r \in CPUs : KeptQueue(s, t, r)
  BY <1>1, <1>2 DEF KeptQueue, Alike, Threads
<1>8. Runs(s, t)
  BY <1>2, <1>4 DEF Runs, Alike
<1> QED BY <1>1, <1>3, <1>4, <1>5, <1>6, <1>7, <1>8 DEF Sound, Touches, Under

\* One task of a state.
LEMMA SetTask ==
  ASSUME NEW s \in States, NEW p \in Threads, NEW x \in TaskStruct,
         NEW t, t = [s EXCEPT !.task[p] = x]
  PROVE  TaskStep(s, t, p) /\ t.task[p] = x
BY DEF States, TaskStep

\* A reschedule is asked for.
LEMMA Resched ==
  ASSUME NEW s, Sound(s), NEW p \in Threads, NEW t, t = resched_task(s, p)
  PROVE  Under(s, t, {}) /\ TaskStep(s, t, p) /\ Alike(s, t, p)
<1> DEFINE x == [s.task[p] EXCEPT !.resched = TRUE]
<1>1. s \in States /\ s.task[p] \in TaskStruct
  BY DEF Sound, States
<1>2. /\ x \in TaskStruct /\ x.prio = s.task[p].prio /\ x.cpu = s.task[p].cpu
      /\ x.on_rq = s.task[p].on_rq /\ x.cpus_allowed = s.task[p].cpus_allowed
      /\ x.sleeping = s.task[p].sleeping
  BY <1>1 DEF TaskStruct
<1> HIDE DEF x
<1>5. t = [s EXCEPT !.task[p] = x]
  BY DEF resched_task, x
<1>6. TaskStep(s, t, p) /\ t.task[p] = x
  BY <1>1, <1>2, <1>5, SetTask
<1>3. TaskStep(s, t, p) /\ Alike(s, t, p) /\ t.task[p].sleeping = s.task[p].sleeping
  BY <1>2, <1>6 DEF Alike
<1>4. p \in CPUs => ~ t.task[p].sleeping
  BY <1>3 DEF Sound, ThreadsRight
<1> QED BY <1>3, <1>4, FlagsChanged

-----------------------------------------------------------------------------
(* activate_task and deactivate_task.                                      *)

\* The tasks that may move, without p or with it.
LEMMA OneMore ==
  ASSUME NEW S, IsFiniteSet(S), NEW p
  PROVE  /\ p \notin S => Cardinality(S \cup {p}) = Cardinality(S) + 1
         /\ p \in S => Cardinality(S \ {p}) = Cardinality(S) - 1
         /\ S \cup {p} = S \/ p \notin S
BY FS_AddElement, FS_RemoveElement

\* The task on a queue, and off it.
Queued(s, t, p) ==
  /\ TaskStep(s, t, p)
  /\ t.task[p].prio = s.task[p].prio /\ t.task[p].cpu = s.task[p].cpu
  /\ t.task[p].cpus_allowed = s.task[p].cpus_allowed
  /\ t.task[p].sleeping = s.task[p].sleeping

\* The tasks are as before but for the flag.
SameTasks(s, t, p) ==
  /\ \A x \in Threads \ {p} : t.task[x] = s.task[x]
  /\ t.task[p].prio = s.task[p].prio /\ t.task[p].cpu = s.task[p].cpu
  /\ t.task[p].cpus_allowed = s.task[p].cpus_allowed
  /\ t.task[p].sleeping = s.task[p].sleeping

\* The flag on_rq is set.
LEMMA SetOnRq ==
  ASSUME NEW s \in States, NEW p \in Threads, NEW t, t = [s EXCEPT !.task[p].on_rq = TRUE]
  PROVE  Queued(s, t, p) /\ t.task[p].on_rq
<1> DEFINE x == [s.task[p] EXCEPT !.on_rq = TRUE]
<1>1. s.task[p] \in TaskStruct
  BY DEF States
<1>2. /\ x \in TaskStruct /\ x.prio = s.task[p].prio /\ x.cpu = s.task[p].cpu
      /\ x.on_rq /\ x.cpus_allowed = s.task[p].cpus_allowed
      /\ x.sleeping = s.task[p].sleeping
  BY <1>1 DEF TaskStruct
<1>3. t = [s EXCEPT !.task[p] = x]
  OBVIOUS
<1> HIDE DEF x
<1>4. ASSUME NEW v, v = [s EXCEPT !.task[p] = x]
      PROVE  TaskStep(s, v, p) /\ v.task[p] = x
  BY <1>2, <1>4 DEF States, TaskStep
<1>5. TaskStep(s, t, p) /\ t.task[p] = x
  BY <1>3, <1>4
<1> QED BY <1>2, <1>5 DEF Queued

\* The flag on_rq is cleared.
LEMMA ClearOnRq ==
  ASSUME NEW s \in States, NEW p \in Threads, NEW t, t = [s EXCEPT !.task[p].on_rq = FALSE]
  PROVE  Queued(s, t, p) /\ ~ t.task[p].on_rq
<1> DEFINE x == [s.task[p] EXCEPT !.on_rq = FALSE]
<1>1. s.task[p] \in TaskStruct
  BY DEF States
<1>2. /\ x \in TaskStruct /\ x.prio = s.task[p].prio /\ x.cpu = s.task[p].cpu
      /\ ~ x.on_rq /\ x.cpus_allowed = s.task[p].cpus_allowed
      /\ x.sleeping = s.task[p].sleeping
  BY <1>1 DEF TaskStruct
<1>3. t = [s EXCEPT !.task[p] = x]
  OBVIOUS
<1> HIDE DEF x
<1>4. ASSUME NEW v, v = [s EXCEPT !.task[p] = x]
      PROVE  TaskStep(s, v, p) /\ v.task[p] = x
  BY <1>2, <1>4 DEF States, TaskStep
<1>5. TaskStep(s, t, p) /\ t.task[p] = x
  BY <1>3, <1>4
<1> QED BY <1>2, <1>5 DEF Queued

\* deactivate_task of a queued real-time task: the queue it leaves is right.
LEMMA DequeuedRight ==
  ASSUME NEW s, Sound(s), NEW c \in CPUs, NEW p \in Tasks, s.task[p].cpu = c, s.task[p].on_rq,
         rt_task(s, p), NEW u, u = dequeue_rt_entity(s, c, p),
         NEW t, t = [u EXCEPT !.task[p].on_rq = FALSE]
  PROVE  QueueRight(t, c)
<1> DEFINE q == s.rq[c].active
           b == RemoveFirst(q, p)
<1>1. s \in States /\ ThreadsRight(s) /\ QueueRight(s, c) /\ q \in Seq(Tasks)
  BY ListsTyped DEF Sound
<1>2. IsInjective(q) /\ SortedList(s, q) /\ p \in ToSet(q) /\ IsInjective(s.rq[c].pushable)
      /\ s.rd.cpupri[c] = highest_prio(s, c)
  BY <1>1 DEF QueueRight, ActiveRight, PushableRight, SeenRight
<1>3. /\ QueueStep(s, u, c) /\ u.rq[c].active = b
      /\ IsInjective(u.rq[c].pushable)
      /\ ToSet(u.rq[c].pushable) = ToSet(s.rq[c].pushable) \ {p}
      /\ u.rq[c].migratory = s.rq[c].migratory - (IF Migratable(s, p) THEN 1 ELSE 0)
      /\ u.rq[c].overloaded = (u.rq[c].migratory > 0 /\ Len(u.rq[c].active) > 1)
      /\ (c \in u.rd.rto_mask) = u.rq[c].overloaded
      /\ u.rd.cpupri[c] = highest_prio(u, c)
  BY <1>1, <1>2, DequeueEffect
<1>4. b \in Seq(Tasks) /\ IsInjective(b) /\ SortedList(s, b) /\ ToSet(b) = ToSet(q) \ {p}
  BY <1>1, <1>2, RemovedSorted
<1>5. TaskStep(u, t, p) /\ ~ t.task[p].on_rq
      /\ t.task[p].prio = s.task[p].prio /\ t.task[p].cpu = s.task[p].cpu
      /\ t.task[p].cpus_allowed = s.task[p].cpus_allowed
  <2>1. u \in States /\ u.task = s.task /\ p \in Threads
    BY <1>3 DEF QueueStep, Threads
  <2>2. Queued(u, t, p) /\ ~ t.task[p].on_rq
    BY <2>1, ClearOnRq
  <2> QED BY <2>1, <2>2 DEF Queued
<1>6. /\ t \in States /\ t.rq = u.rq /\ t.rd = u.rd
      /\ \A x \in Tasks \ {p} : t.task[x] = s.task[x]
      /\ \A x \in Tasks : t.task[x].prio = s.task[x].prio /\ Migratable(t, x) = Migratable(s, x)
                          /\ rt_task(t, x) = rt_task(s, x)
  BY <1>3, <1>5 DEF QueueStep, TaskStep, Threads, Migratable, rt_task
<1> HIDE DEF b
<1>7. ActiveRight(t, c)
  <2>1. SortedList(t, b)
    <3>1. \A x \in ToSet(b) : t.task[x].prio = s.task[x].prio
      BY <1>4, <1>6 DEF ToSet
    <3> QED BY <1>4, <3>1, SortedAlike
  <2>2. ASSUME NEW x \in Tasks
        PROVE  x \in ToSet(b) <=> t.task[x].cpu = c /\ t.task[x].on_rq /\ rt_task(t, x)
    <3>1. CASE x = p
      BY <1>4, <1>5, <3>1
    <3>2. CASE x # p
      BY <1>1, <1>4, <1>6, <3>2 DEF QueueRight, ActiveRight
    <3> QED BY <3>1, <3>2
  <2> QED BY <1>3, <1>4, <1>6, <2>1, <2>2 DEF ActiveRight
<1>8. PushableRight(t, c)
  <2>1. \A x \in ToSet(t.rq[c].pushable) :
          x \in Tasks \ {p} /\ Movable(s, x, c) /\ rt_task(s, x) /\ Migratable(s, x)
    BY <1>1, <1>3, <1>6 DEF QueueRight, PushableRight, Movable
  <2>2. Current(t, c) = Current(s, c)
    BY <1>3, <1>6 DEF QueueStep, Current
  <2>3. ASSUME NEW x \in ToSet(t.rq[c].pushable)
        PROVE  Movable(t, x, c) /\ rt_task(t, x) /\ Migratable(t, x)
    <3>1. x \in Tasks \ {p} /\ Movable(s, x, c) /\ rt_task(s, x) /\ Migratable(s, x)
      BY <2>1
    <3>2. t.task[x] = s.task[x] /\ rt_task(t, x) /\ Migratable(t, x)
      BY <1>6, <3>1
    <3> QED BY <2>2, <3>1, <3>2 DEF Movable
  <2> QED BY <1>3, <1>6, <2>3 DEF PushableRight
<1>9. SeenRight(t, c)
  <2>1. highest_prio(t, c) = highest_prio(u, c)
    BY <1>3, <1>4, <1>6 DEF highest_prio, QueueStep
  <2>2. MovableOf(t, c) = MovableOf(s, c) \ {p}
    <3>1. t.rq[c].active = b /\ ToSet(q) \subseteq Tasks
      BY <1>1, <1>3, <1>6 DEF ToSet
    <3>2. \A x \in ToSet(q) : Migratable(t, x) = Migratable(s, x)
      BY <1>6, <3>1
    <3> QED BY <1>4, <3>1, <3>2 DEF MovableOf
  <2>3. IsFiniteSet(MovableOf(s, c))
    <3>1. IsFiniteSet(ToSet(q)) /\ MovableOf(s, c) \subseteq ToSet(q)
      BY <1>1, ListFinite DEF MovableOf
    <3> QED BY <3>1, FS_Subset
  <2>4. p \in MovableOf(s, c) <=> Migratable(s, p)
    BY <1>2 DEF MovableOf
  <2>5. s.rq[c].migratory = Cardinality(MovableOf(s, c)) /\ Cardinality(MovableOf(s, c)) \in Nat
    BY <1>1, <2>3, FS_CardinalityType DEF QueueRight, SeenRight
  <2>6. t.rq[c].migratory = Cardinality(MovableOf(t, c))
    <3>1. CASE Migratable(s, p)
      <4>1. Cardinality(MovableOf(t, c)) = Cardinality(MovableOf(s, c)) - 1
        BY <2>2, <2>3, <2>4, <3>1, OneMore
      <4>2. t.rq[c].migratory = s.rq[c].migratory - 1
        BY <1>3, <1>6, <3>1
      <4> QED BY <2>5, <4>1, <4>2
    <3>2. CASE ~ Migratable(s, p)
      <4>1. MovableOf(t, c) = MovableOf(s, c)
        BY <2>2, <2>4, <3>2
      <4>2. t.rq[c].migratory = s.rq[c].migratory - 0
        BY <1>3, <1>6, <3>2
      <4> QED BY <2>5, <4>1, <4>2
    <3> QED BY <3>1, <3>2
  <2>7. /\ t.rd.cpupri[c] = highest_prio(t, c)
        /\ t.rq[c].overloaded = (t.rq[c].migratory > 0 /\ Len(t.rq[c].active) > 1)
        /\ (c \in t.rd.rto_mask) = t.rq[c].overloaded
    BY <1>3, <1>6, <2>1, Zenon
  <2> QED BY <1>6, <2>6, <2>7, CountersRight
<1> QED BY <1>7, <1>8, <1>9 DEF QueueRight

\* activate_task of a real-time task that was off: the queue it joins is right.
LEMMA EnqueuedRight ==
  ASSUME NEW s, Sound(s), NEW c \in CPUs, NEW p \in Tasks, s.task[p].cpu = c, ~ s.task[p].on_rq,
         rt_task(s, p), NEW u, u = enqueue_task_rt(s, c, p),
         NEW t, t = [u EXCEPT !.task[p].on_rq = TRUE]
  PROVE  QueueRight(t, c)
<1> DEFINE q == s.rq[c].active
           b == AddTail(s, q, p)
<1>1. s \in States /\ ThreadsRight(s) /\ QueueRight(s, c) /\ q \in Seq(Tasks)
  BY ListsTyped DEF Sound
<1>2. IsInjective(q) /\ SortedList(s, q) /\ p \notin ToSet(q) /\ IsInjective(s.rq[c].pushable)
      /\ p \notin ToSet(s.rq[c].pushable)
      /\ s.rd.cpupri[c] = highest_prio(s, c)
  BY <1>1 DEF QueueRight, ActiveRight, PushableRight, SeenRight, Movable
<1>3. /\ QueueStep(s, u, c) /\ u.rq[c].active = b
      /\ IsInjective(u.rq[c].pushable)
      /\ ToSet(u.rq[c].pushable) = IF p # Current(s, c) /\ Migratable(s, p)
                                   THEN ToSet(s.rq[c].pushable) \cup {p}
                                   ELSE ToSet(s.rq[c].pushable)
      /\ u.rq[c].migratory = s.rq[c].migratory + (IF Migratable(s, p) THEN 1 ELSE 0)
      /\ u.rq[c].overloaded = (u.rq[c].migratory > 0 /\ Len(u.rq[c].active) > 1)
      /\ (c \in u.rd.rto_mask) = u.rq[c].overloaded
      /\ u.rd.cpupri[c] = IF s.task[p].prio < highest_prio(s, c) THEN s.task[p].prio
                          ELSE s.rd.cpupri[c]
  <2>1. /\ s \in States /\ ThreadsRight(s) /\ rt_task(s, p)
        /\ IsInjective(s.rq[c].active) /\ SortedList(s, s.rq[c].active)
        /\ p \notin ToSet(s.rq[c].active) /\ IsInjective(s.rq[c].pushable)
    BY <1>1, <1>2
  <2> HIDE DEF b
  <2>2. b = AddTail(s, s.rq[c].active, p)
    BY DEF b
  <2> QED BY <2>1, <2>2, EnqueueEffect
<1>4. /\ b \in Seq(Tasks) /\ IsInjective(b) /\ SortedList(s, b) /\ ToSet(b) = ToSet(q) \cup {p}
      /\ b # <<>>
      /\ s.task[Head(b)].prio = IF q = <<>> THEN s.task[p].prio
                                ELSE IF s.task[p].prio < s.task[Head(q)].prio
                                     THEN s.task[p].prio ELSE s.task[Head(q)].prio
  BY <1>1, <1>2, AddedSorted
<1>5. TaskStep(u, t, p) /\ t.task[p].on_rq
      /\ t.task[p].prio = s.task[p].prio /\ t.task[p].cpu = s.task[p].cpu
      /\ t.task[p].cpus_allowed = s.task[p].cpus_allowed
  <2>1. u \in States /\ u.task = s.task /\ p \in Threads
    BY <1>3 DEF QueueStep, Threads
  <2>2. Queued(u, t, p) /\ t.task[p].on_rq
    BY <2>1, SetOnRq
  <2> QED BY <2>1, <2>2 DEF Queued
<1>6. /\ t \in States /\ t.rq = u.rq /\ t.rd = u.rd
      /\ \A x \in Tasks \ {p} : t.task[x] = s.task[x]
      /\ \A x \in Tasks : t.task[x].prio = s.task[x].prio /\ Migratable(t, x) = Migratable(s, x)
                          /\ rt_task(t, x) = rt_task(s, x)
  BY <1>3, <1>5 DEF QueueStep, TaskStep, Threads, Migratable, rt_task
<1> HIDE DEF b
<1>7. ActiveRight(t, c)
  <2>1. SortedList(t, b)
    <3>1. \A x \in ToSet(b) : t.task[x].prio = s.task[x].prio
      BY <1>4, <1>6 DEF ToSet
    <3> QED BY <1>4, <3>1, SortedAlike
  <2>2. ASSUME NEW x \in Tasks
        PROVE  x \in ToSet(b) <=> t.task[x].cpu = c /\ t.task[x].on_rq /\ rt_task(t, x)
    <3>1. CASE x = p
      BY <1>4, <1>5, <1>6, <3>1
    <3>2. CASE x # p
      <4>1. x \in ToSet(b) <=> x \in ToSet(q)
        BY <1>4, <3>2
      <4>2. x \in ToSet(q) <=> s.task[x].cpu = c /\ s.task[x].on_rq /\ rt_task(s, x)
        BY <1>1 DEF QueueRight, ActiveRight
      <4>3. t.task[x] = s.task[x] /\ (rt_task(t, x) <=> rt_task(s, x))
        BY <1>6, <3>2
      <4> QED BY <4>1, <4>2, <4>3
    <3> QED BY <3>1, <3>2
  <2> QED BY <1>3, <1>4, <1>6, <2>1, <2>2 DEF ActiveRight
<1>8. PushableRight(t, c)
  <2>2. Current(t, c) = Current(s, c)
    BY <1>3, <1>6 DEF QueueStep, Current
  <2>3. ASSUME NEW x \in ToSet(t.rq[c].pushable)
        PROVE  Movable(t, x, c) /\ rt_task(t, x) /\ Migratable(t, x)
    <3>1. CASE x = p
      <4>1. p # Current(s, c) /\ Migratable(s, p)
        BY <1>2, <1>3, <1>6, <3>1
      <4> QED BY <1>5, <1>6, <2>2, <3>1, <4>1 DEF Movable
    <3>2. CASE x # p
      <4>1. x \in Tasks /\ Movable(s, x, c) /\ rt_task(s, x) /\ Migratable(s, x)
        BY <1>1, <1>3, <1>6, <3>2 DEF QueueRight, PushableRight, Movable
      <4>2. t.task[x] = s.task[x] /\ rt_task(t, x) /\ Migratable(t, x)
        BY <1>6, <3>2, <4>1
      <4> QED BY <2>2, <4>1, <4>2 DEF Movable
    <3> QED BY <3>1, <3>2
  <2> QED BY <1>3, <1>6, <2>3 DEF PushableRight
<1>9. SeenRight(t, c)
  <2>1. t.rd.cpupri[c] = highest_prio(t, c)
    <3>1. Head(b) \in Tasks /\ highest_prio(t, c) = s.task[Head(b)].prio
      BY <1>3, <1>4, <1>6 DEF highest_prio
    <3>2. highest_prio(s, c) = IF q = <<>> THEN MAX_RT_PRIO ELSE s.task[Head(q)].prio
      BY DEF highest_prio
    <3>3. s.task[p].prio < MAX_RT_PRIO
      BY DEF rt_task, rt_prio
    <3> QED BY <1>2, <1>3, <1>4, <1>6, <3>1, <3>2, <3>3
  <2>2. MovableOf(t, c) = IF Migratable(s, p) THEN MovableOf(s, c) \cup {p} ELSE MovableOf(s, c)
    <3>1. t.rq[c].active = b /\ ToSet(q) \subseteq Tasks
      BY <1>1, <1>3, <1>6 DEF ToSet
    <3>2. \A x \in ToSet(q) \cup {p} : Migratable(t, x) = Migratable(s, x)
      BY <1>6, <3>1
    <3> QED BY <1>4, <3>1, <3>2 DEF MovableOf
  <2>3. IsFiniteSet(MovableOf(s, c))
    <3>1. IsFiniteSet(ToSet(q)) /\ MovableOf(s, c) \subseteq ToSet(q)
      BY <1>1, ListFinite DEF MovableOf
    <3> QED BY <3>1, FS_Subset
  <2>4. p \notin MovableOf(s, c)
    BY <1>2 DEF MovableOf
  <2>5. s.rq[c].migratory = Cardinality(MovableOf(s, c)) /\ Cardinality(MovableOf(s, c)) \in Nat
    BY <1>1, <2>3, FS_CardinalityType DEF QueueRight, SeenRight
  <2>6. t.rq[c].migratory = Cardinality(MovableOf(t, c))
    <3>1. CASE Migratable(s, p)
      <4>3. MovableOf(t, c) = MovableOf(s, c) \cup {p}
        BY <2>2, <3>1
      <4>1. Cardinality(MovableOf(t, c)) = Cardinality(MovableOf(s, c)) + 1
        <5> DEFINE S == MovableOf(s, c)
        <5>1. IsFiniteSet(S) /\ p \notin S
          BY <2>3, <2>4
        <5> HIDE DEF S
        <5>2. Cardinality(S \cup {p}) = Cardinality(S) + 1
          BY <5>1, FS_AddElement
        <5> QED BY <4>3, <5>2 DEF S
      <4>2. t.rq[c].migratory = s.rq[c].migratory + 1
        BY <1>3, <1>6, <3>1
      <4> QED BY <2>5, <4>1, <4>2
    <3>2. CASE ~ Migratable(s, p)
      <4>1. MovableOf(t, c) = MovableOf(s, c)
        BY <2>2, <3>2
      <4>2. t.rq[c].migratory = s.rq[c].migratory + 0
        BY <1>3, <1>6, <3>2
      <4> QED BY <2>5, <4>1, <4>2
    <3> QED BY <3>1, <3>2
  <2>7. /\ t.rq[c].overloaded = (t.rq[c].migratory > 0 /\ Len(t.rq[c].active) > 1)
        /\ (c \in t.rd.rto_mask) = t.rq[c].overloaded
    BY <1>3, <1>6, Zenon
  <2> QED BY <1>6, <2>1, <2>6, <2>7, CountersRight
<1> QED BY <1>7, <1>8, <1>9 DEF QueueRight

\* A step of the queue of c and then of a task that is on it or was.
LEMMA QueueAndTask ==
  ASSUME NEW s, Sound(s), NEW c \in CPUs, NEW p \in Tasks, s.task[p].cpu = c,
         NEW u, QueueStep(s, u, c), NEW t, TaskStep(u, t, p), QueueRight(t, c),
         t.task[p].prio = s.task[p].prio, t.task[p].cpu = c, c \in t.task[p].cpus_allowed
  PROVE  Touches(s, t, {c})
<1>1. /\ t \in States /\ t.rq = u.rq /\ t.rd = u.rd /\ u.task = s.task
      /\ \A x \in Threads \ {p} : t.task[x] = s.task[x]
  BY DEF QueueStep, TaskStep
<1>2. \A d \in CPUs : Current(t, d) = Current(s, d)
  BY <1>1 DEF QueueStep, Elsewhere, Current
<1>3. \A d \in CPUs \ {c} : QueueRight(t, d)
  <2> SUFFICES ASSUME NEW d \in CPUs \ {c} PROVE QueueRight(t, d)
    OBVIOUS
  <2>1. t.rq[d] = s.rq[d] /\ t.rd.cpupri[d] = s.rd.cpupri[d]
        /\ (d \in t.rd.rto_mask <=> d \in s.rd.rto_mask)
    BY <1>1 DEF QueueStep, Elsewhere
  <2>2. \A x \in Tasks \ {p} : Alike(s, t, x)
    BY <1>1 DEF Alike, Threads
  <2>3. Aside(s, p, d) /\ Aside(t, p, d)
    BY <1>1 DEF Aside
  <2> QED BY <1>1, <2>1, <2>2, <2>3, OtherQueue
<1>4. ThreadsRight(t)
  <2>1. \A d \in CPUs : t.task[d] = s.task[d]
    BY <1>1, ThreadsAssumption DEF Threads
  <2>2. \A x \in Tasks : t.task[x].prio <= MAX_RT_PRIO
    BY <1>1 DEF Sound, ThreadsRight, Threads
  <2> QED BY <2>1, <2>2 DEF Sound, ThreadsRight
<1>5. PlacesRight(t)
  <2>1. \A x \in Threads : t.task[x].cpu = s.task[x].cpu
    BY <1>1
  <2>2. \A d \in CPUs : Current(s, d) \in Threads
    BY ListsTyped DEF Sound
  <2>3. \A x \in Tasks : t.task[x].cpu \in t.task[x].cpus_allowed
    BY <1>1 DEF Sound, PlacesRight, Threads
  <2> QED BY <1>2, <2>1, <2>2, <2>3 DEF Sound, PlacesRight
<1>6. \A r \in CPUs \ {c} : KeptQueue(s, t, r)
  BY <1>1 DEF QueueStep, Elsewhere, KeptQueue, Threads
<1> QED BY <1>1, <1>2, <1>3, <1>4, <1>5, <1>6 DEF Touches, Sound

\* A step of one queue only.
LEMMA QueueOnly ==
  ASSUME NEW s, Sound(s), NEW c \in CPUs, NEW t, QueueStep(s, t, c), QueueRight(t, c)
  PROVE  /\ Under(s, t, {c})
         /\ t.rq[c].pushable = s.rq[c].pushable => Under(s, t, {})
<1>1. t \in States /\ t.task = s.task
  BY DEF QueueStep
<1>2. \A d \in CPUs : Current(t, d) = Current(s, d)
  BY DEF QueueStep, Elsewhere, Current
<1>3. \A d \in CPUs \ {c} : QueueRight(t, d)
  <2> SUFFICES ASSUME NEW d \in CPUs \ {c} PROVE QueueRight(t, d)
    OBVIOUS
  <2>1. t.rq[d] = s.rq[d] /\ t.rd.cpupri[d] = s.rd.cpupri[d]
        /\ (d \in t.rd.rto_mask <=> d \in s.rd.rto_mask)
    BY DEF QueueStep, Elsewhere
  <2>2. \A x \in Tasks \ {None} : Alike(s, t, x)
    BY <1>1 DEF Alike
  <2> QED BY <1>1, <2>1, <2>2, ThreadsAssumption, OtherQueue
<1>4. ThreadsRight(t) /\ PlacesRight(t)
  BY <1>1, <1>2 DEF Sound, ThreadsRight, PlacesRight
<1>5. Sound(t)
  BY <1>1, <1>3, <1>4 DEF Sound
<1>6. \A r \in CPUs \ {c} : KeptQueue(s, t, r)
  BY <1>1 DEF QueueStep, Elsewhere, KeptQueue
<1>7. t.rq[c].pushable = s.rq[c].pushable => KeptQueue(s, t, c)
  BY <1>1 DEF KeptQueue
<1>8. Runs(s, t)
  BY <1>1, <1>2 DEF Runs
<1> QED BY <1>2, <1>5, <1>6, <1>7, <1>8 DEF Under, Touches

\* The run queue x is q but for throttled and spent.
SameLists(q, x) ==
  /\ x \in RunQueue /\ x.curr = q.curr /\ x.active = q.active /\ x.pushable = q.pushable
  /\ x.migratory = q.migratory /\ x.overloaded = q.overloaded

\* Throttling and unthrottling, and using up the runtime: no list and no count
\* depends on them.
LEMMA Charged ==
  ASSUME NEW s, Sound(s), NEW c \in CPUs, NEW x, SameLists(s.rq[c], x),
         NEW t, t = [task |-> t.task, rq |-> t.rq, rd |-> t.rd],
         t.task = s.task, t.rd = s.rd, t.rq = [s.rq EXCEPT ![c] = x]
  PROVE  /\ Under(s, t, {}) /\ t.task = s.task
         /\ \A d \in CPUs : t.rq[d].pushable = s.rq[d].pushable
<1>1. s \in States /\ QueueRight(s, c)
  BY DEF Sound
<1>2. /\ QueueStep(s, t, c) /\ t.rd = s.rd
      /\ t.rq[c].active = s.rq[c].active /\ t.rq[c].pushable = s.rq[c].pushable
      /\ t.rq[c].migratory = s.rq[c].migratory /\ t.rq[c].overloaded = s.rq[c].overloaded
  <2>1. /\ s.rq \in [CPUs -> RunQueue]
        /\ s.rd \in [rto_mask : SUBSET CPUs, cpupri : [CPUs -> 0 .. MAX_RT_PRIO]]
    BY <1>1 DEF States
  <2>2. t.rq[c] = x /\ \A d \in CPUs \ {c} : t.rq[d] = s.rq[d]
    BY <2>1
  <2>3. t.rq \in [CPUs -> RunQueue] /\ t.rq[c].curr = s.rq[c].curr
    BY <2>1, <2>2 DEF SameLists
  <2>4. QueueStep(s, t, c)
    BY <1>1, <2>1, <2>2, <2>3, SetQueue
  <2> QED BY <2>2, <2>4 DEF SameLists
<1>3. t.task = s.task /\ Current(t, c) = Current(s, c)
  BY <1>2 DEF QueueStep
<1>4. /\ \A y : rt_task(t, y) = rt_task(s, y) /\ Migratable(t, y) = Migratable(s, y)
      /\ highest_prio(t, c) = highest_prio(s, c) /\ MovableOf(t, c) = MovableOf(s, c)
  BY <1>2, <1>3 DEF rt_task, Migratable, highest_prio, MovableOf
<1>5. ActiveRight(t, c)
  BY <1>1, <1>2, <1>3, <1>4 DEF QueueRight, ActiveRight, SortedList
<1>6. PushableRight(t, c)
  BY <1>1, <1>2, <1>3, <1>4 DEF QueueRight, PushableRight, Movable
<1>7. SeenRight(t, c)
  BY <1>1, <1>2, <1>4 DEF QueueRight, SeenRight
<1>8. QueueRight(t, c)
  BY <1>5, <1>6, <1>7 DEF QueueRight
<1>9. \A d \in CPUs : t.rq[d].pushable = s.rq[d].pushable
  BY <1>2 DEF QueueStep, Elsewhere
<1> QED BY <1>2, <1>3, <1>8, <1>9, QueueOnly

\* update_curr_rt: the queue may be throttled, and what runs be told to reschedule.
LEMMA CurrUpdated ==
  ASSUME NEW s, Sound(s), NEW c \in CPUs, NEW t, t = update_curr_rt(s, c)
  PROVE  Under(s, t, {}) /\ \A x \in Threads : Alike(s, t, x)
<1>1. Current(s, c) \in Threads
  BY ListsTyped DEF Sound
<1>2. PICK u : u = resched_task(s, Current(s, c))
  OBVIOUS
<1>3. Under(s, u, {}) /\ \A x \in Threads : Alike(s, u, x)
  BY <1>1, <1>2, Resched DEF TaskStep, Alike
<1>4. CASE t = s
  BY <1>4, NothingDone DEF Alike
<1>5. CASE t = [u EXCEPT !.rq[c].throttled = TRUE]
  <2>1. Sound(u)
    BY <1>3 DEF Under, Touches
  <2>2. Under(u, t, {}) /\ t.task = u.task
    <3>1. PICK x : x = [u.rq[c] EXCEPT !.throttled = TRUE]
      OBVIOUS
    <3>2. SameLists(u.rq[c], x)
      <4>1. u.rq[c] \in RunQueue
        BY <2>1 DEF Sound, States
      <4> QED BY <3>1, <4>1 DEF RunQueue, SameLists
    <3>3. /\ t = [task |-> t.task, rq |-> t.rq, rd |-> t.rd]
          /\ t.task = u.task /\ t.rd = u.rd /\ t.rq = [u.rq EXCEPT ![c] = x]
      <4>1. u = [task |-> u.task, rq |-> u.rq, rd |-> u.rd]
        BY <2>1 DEF Sound, States
      <4> QED BY <1>5, <3>1, <4>1
    <3> QED BY <2>1, <3>2, <3>3, Charged
  <2>3. Under(s, t, {})
    BY <1>3, <2>2, UnderTwice
  <2> QED BY <1>3, <2>2, <2>3 DEF Alike
<1> QED BY <1>2, <1>4, <1>5 DEF update_curr_rt

\* deactivate_task of a queued task, what runs there being charged already.
EntityOff(s, c, p) ==
  [IF rt_task(s, p) THEN dequeue_rt_entity(s, c, p) ELSE s EXCEPT !.task[p].on_rq = FALSE]

\* Its queue is right without it.
LEMMA EntityLeft ==
  ASSUME NEW s, Sound(s), NEW c \in CPUs, NEW p \in Tasks, s.task[p].cpu = c, s.task[p].on_rq,
         NEW t, t = EntityOff(s, c, p)
  PROVE  Touches(s, t, {c}) /\ ~ t.task[p].on_rq /\ SameTasks(s, t, p)
<1> DEFINE u == IF rt_task(s, p) THEN dequeue_rt_entity(s, c, p) ELSE s
<1>1. t = [u EXCEPT !.task[p].on_rq = FALSE]
  BY DEF EntityOff
<1>2. QueueStep(s, u, c)
  <2>1. CASE rt_task(s, p)
    <3>1. IsInjective(s.rq[c].active) /\ IsInjective(s.rq[c].pushable)
          /\ s.rd.cpupri[c] = highest_prio(s, c) /\ s \in States /\ ThreadsRight(s)
      BY DEF Sound, QueueRight, ActiveRight, PushableRight, SeenRight
    <3>2. QueueStep(s, dequeue_rt_entity(s, c, p), c)
      BY <2>1, <3>1, DequeueEffect
    <3> QED BY <2>1, <3>2
  <2>2. CASE ~ rt_task(s, p)
    BY <2>2 DEF Sound, QueueStep, Elsewhere
  <2> QED BY <2>1, <2>2
<1>3. rt_task(s, p) => u = dequeue_rt_entity(s, c, p)
  OBVIOUS
<1>4. ~ rt_task(s, p) => u = s
  OBVIOUS
<1> HIDE DEF u
<1>5. u \in States /\ p \in Threads /\ u.task = s.task
  BY <1>2 DEF QueueStep, Threads
<1>6. Queued(u, t, p) /\ ~ t.task[p].on_rq
  BY <1>1, <1>5, ClearOnRq
<1>7. QueueRight(t, c)
  <2>1. CASE rt_task(s, p)
    BY <1>1, <1>3, <2>1, DequeuedRight
  <2>2. CASE ~ rt_task(s, p)
    <3>1. TaskStep(s, t, p)
      BY <1>4, <1>6, <2>2 DEF Queued
    <3>2. \A d \in CPUs : Aside(s, p, d) /\ Aside(t, p, d)
      BY <1>6, <2>2 DEF Aside
    <3> QED BY <1>5, <3>1, <3>2, TaskAside
  <2> QED BY <2>1, <2>2
<1>8. Touches(s, t, {c})
  <2>1. TaskStep(u, t, p) /\ t.task[p].prio = s.task[p].prio /\ t.task[p].cpu = c
        /\ c \in t.task[p].cpus_allowed
    BY <1>5, <1>6 DEF Queued, Sound, PlacesRight
  <2> QED BY <1>2, <1>7, <2>1, QueueAndTask
<1> QED BY <1>5, <1>6, <1>8 DEF Queued, TaskStep, SameTasks

\* The tasks are as before but for the flag of p and reschedules asked for.
NearlySame(s, t, p) ==
  /\ \A x \in Threads \ {p} : Alike(s, t, x)
  /\ t.task[p].prio = s.task[p].prio /\ t.task[p].cpu = s.task[p].cpu
  /\ t.task[p].cpus_allowed = s.task[p].cpus_allowed

\* deactivate_task of a queued task.
LEMMA Deactivated ==
  ASSUME NEW s, Sound(s), NEW c \in CPUs, NEW p \in Tasks, s.task[p].cpu = c, s.task[p].on_rq,
         NEW t, t = deactivate_task(s, c, p)
  PROVE  Touches(s, t, {c}) /\ ~ t.task[p].on_rq /\ NearlySame(s, t, p)
<1>1. p \in Threads
  BY DEF Threads
<1>2. PICK u : u = IF rt_task(s, p) THEN update_curr_rt(s, c) ELSE s
  OBVIOUS
<1>3. Under(s, u, {}) /\ \A x \in Threads : Alike(s, u, x)
  BY <1>2, CurrUpdated, NothingDone DEF Alike
<1>4. rt_task(u, p) = rt_task(s, p) /\ u.task[p].cpu = c /\ u.task[p].on_rq
  BY <1>1, <1>3 DEF Alike, rt_task
<1>5. t = EntityOff(u, c, p)
  BY <1>2, <1>4 DEF deactivate_task, dequeue_task_rt, EntityOff
<1>6. Touches(u, t, {c}) /\ ~ t.task[p].on_rq /\ SameTasks(u, t, p)
  <2>1. Sound(u)
    BY <1>3 DEF Under, Touches
  <2> QED BY <1>4, <1>5, <2>1, EntityLeft
<1>7. Touches(s, t, {c})
  <2>1. Touches(s, u, {c})
    BY <1>3, MoreLocks DEF Under
  <2> QED BY <1>6, <2>1, TouchesTwice
<1>8. NearlySame(s, t, p)
  BY <1>1, <1>3, <1>6 DEF NearlySame, SameTasks, Alike
<1> QED BY <1>6, <1>7, <1>8

\* activate_task of a task that was off.
LEMMA Activated ==
  ASSUME NEW s, Sound(s), NEW c \in CPUs, NEW p \in Tasks, s.task[p].cpu = c, ~ s.task[p].on_rq,
         NEW t, t = activate_task(s, c, p)
  PROVE  Under(s, t, {c}) /\ t.task[p].on_rq /\ SameTasks(s, t, p)
<1> DEFINE u == IF rt_task(s, p) THEN enqueue_task_rt(s, c, p) ELSE s
<1>1. t = [u EXCEPT !.task[p].on_rq = TRUE]
  BY DEF activate_task
<1>2. QueueStep(s, u, c)
  <2>1. CASE rt_task(s, p)
    <3>1. /\ IsInjective(s.rq[c].active) /\ IsInjective(s.rq[c].pushable)
          /\ SortedList(s, s.rq[c].active) /\ p \notin ToSet(s.rq[c].active)
          /\ s \in States /\ ThreadsRight(s)
      BY DEF Sound, QueueRight, ActiveRight, PushableRight
    <3>2. QueueStep(s, enqueue_task_rt(s, c, p), c)
      BY <2>1, <3>1, EnqueueEffect
    <3> QED BY <2>1, <3>2
  <2>2. CASE ~ rt_task(s, p)
    BY <2>2 DEF Sound, QueueStep, Elsewhere
  <2> QED BY <2>1, <2>2
<1>3. rt_task(s, p) => u = enqueue_task_rt(s, c, p)
  OBVIOUS
<1>4. ~ rt_task(s, p) => u = s
  OBVIOUS
<1> HIDE DEF u
<1>5. u \in States /\ p \in Threads /\ u.task = s.task
  BY <1>2 DEF QueueStep, Threads
<1>6. Queued(u, t, p) /\ t.task[p].on_rq
  BY <1>1, <1>5, SetOnRq
<1>7. QueueRight(t, c)
  <2>1. CASE rt_task(s, p)
    BY <1>1, <1>3, <2>1, EnqueuedRight
  <2>2. CASE ~ rt_task(s, p)
    <3>1. TaskStep(s, t, p)
      BY <1>4, <1>6, <2>2 DEF Queued
    <3>2. \A d \in CPUs : Aside(s, p, d) /\ Aside(t, p, d)
      BY <1>5, <1>6, <2>2 DEF Aside, Queued, rt_task
    <3> QED BY <1>5, <3>1, <3>2, TaskAside
  <2> QED BY <2>1, <2>2
<1>8. Touches(s, t, {c})
  <2>1. TaskStep(u, t, p) /\ t.task[p].prio = s.task[p].prio /\ t.task[p].cpu = c
        /\ c \in t.task[p].cpus_allowed
    BY <1>5, <1>6 DEF Queued, Sound, PlacesRight
  <2> QED BY <1>2, <1>7, <2>1, QueueAndTask
<1>9. \A x \in Threads \ {p} : t.task[x] = s.task[x]
  BY <1>5, <1>6 DEF Queued, TaskStep
<1>10. Runs(s, t)
  <2>1. \A d \in CPUs : Current(s, d) \in Threads /\ Current(t, d) = Current(s, d)
    BY <1>8, ListsTyped DEF Sound, Touches
  <2> QED BY <1>6, <1>9, <2>1 DEF Runs
<1> QED BY <1>5, <1>6, <1>8, <1>9, <1>10 DEF Queued, Under, SameTasks

-----------------------------------------------------------------------------
(* The other operators.                                                    *)

\* set_task_cpu of a task that is on no queue and does not run.
LEMMA TaskCpuSet ==
  ASSUME NEW s, Sound(s), NEW p \in Tasks, ~ s.task[p].on_rq, Current(s, s.task[p].cpu) # p,
         NEW to \in s.task[p].cpus_allowed, NEW t, t = set_task_cpu(s, p, to)
  PROVE  /\ Under(s, t, {s.task[p].cpu}) /\ TaskStep(s, t, p)
         /\ t.task[p].cpu = to /\ ~ t.task[p].on_rq /\ t.task[p].prio = s.task[p].prio
         /\ t.task[p].cpus_allowed = s.task[p].cpus_allowed /\ to \in CPUs
<1> DEFINE x == [s.task[p] EXCEPT !.cpu = to]
<1>1. s \in States /\ p \in Threads /\ s.task[p] \in TaskStruct
  BY DEF Sound, States, Threads
<1>2. /\ x \in TaskStruct /\ x.cpu = to /\ to \in CPUs /\ x.prio = s.task[p].prio
      /\ x.on_rq = s.task[p].on_rq /\ x.cpus_allowed = s.task[p].cpus_allowed
  BY <1>1 DEF TaskStruct
<1>3. t = [s EXCEPT !.task[p] = x]
  BY DEF set_task_cpu
<1> HIDE DEF x
<1>4. TaskStep(s, t, p) /\ t.task[p] = x
  BY <1>1, <1>2, <1>3 DEF States, TaskStep
<1>5. \A d \in CPUs : Current(s, d) # p
  BY DEF Sound, PlacesRight
<1>6. \A d \in CPUs : Aside(s, p, d) /\ Aside(t, p, d)
  BY <1>2, <1>4 DEF Aside
<1>7. t.task[p].prio <= MAX_RT_PRIO
  BY <1>2, <1>4 DEF Sound, ThreadsRight
<1>8. t.task[p].cpu \in t.task[p].cpus_allowed
  BY <1>2, <1>4
<1>9. Touches(s, t, {s.task[p].cpu})
  BY <1>4, <1>5, <1>6, <1>7, <1>8, TaskChanged
<1>10. Runs(s, t)
  <2>1. \A d \in CPUs : Current(s, d) \in Threads \ {p} /\ Current(t, d) = Current(s, d)
    BY <1>5, <1>9, ListsTyped DEF Sound, Touches
  <2> QED BY <1>4, <2>1 DEF Runs, TaskStep
<1> QED BY <1>2, <1>4, <1>9, <1>10 DEF Under

\* A queued task that does not run is moved to another CPU it may use.
LEMMA Moved ==
  ASSUME NEW s, Sound(s), NEW from \in CPUs, NEW to \in CPUs, from # to, NEW p,
         Movable(s, p, from), to \in s.task[p].cpus_allowed, NEW t, t = Move(s, p, from, to)
  PROVE  Under(s, t, {from, to})
<1> DEFINE u == deactivate_task(s, from, p)
           v == set_task_cpu(u, p, to)
<1>1. p \in Tasks /\ s.task[p].cpu = from /\ s.task[p].on_rq /\ Current(s, from) # p
  BY DEF Movable
<1>2. /\ Touches(s, u, {from}) /\ ~ u.task[p].on_rq
      /\ \A x \in Threads \ {p} : u.task[x].on_rq = s.task[x].on_rq
      /\ u.task[p].cpu = s.task[p].cpu /\ u.task[p].cpus_allowed = s.task[p].cpus_allowed
  <2>1. Touches(s, u, {from}) /\ ~ u.task[p].on_rq /\ NearlySame(s, u, p)
    BY <1>1, Deactivated
  <2> HIDE DEF u
  <2> QED BY <2>1 DEF NearlySame, Alike
<1>3. t = activate_task(v, to, p)
  BY DEF Move
<1> HIDE DEF u
<1>4. Sound(u) /\ Current(u, u.task[p].cpu) # p /\ to \in u.task[p].cpus_allowed
  BY <1>1, <1>2 DEF Touches
<1>5. /\ Under(u, v, {from}) /\ v.task[p].cpu = to /\ ~ v.task[p].on_rq
      /\ \A x \in Threads \ {p} : v.task[x] = u.task[x]
  <2>1. /\ Under(u, v, {u.task[p].cpu}) /\ TaskStep(u, v, p)
        /\ v.task[p].cpu = to /\ ~ v.task[p].on_rq
    BY <1>1, <1>2, <1>4, TaskCpuSet
  <2> HIDE DEF v
  <2> QED BY <1>1, <1>2, <2>1 DEF TaskStep
<1> HIDE DEF v
<1>6. Under(v, t, {to}) /\ \A x \in Threads \ {p} : t.task[x] = v.task[x]
  <2>1. Sound(v) /\ p \in Tasks /\ v.task[p].cpu = to /\ ~ v.task[p].on_rq
    BY <1>1, <1>5 DEF Under, Touches
  <2> QED BY <1>3, <2>1, Activated DEF SameTasks
<1>7. Touches(s, t, {from, to})
  <2>1. Touches(s, u, {from, to}) /\ Touches(u, v, {from, to}) /\ Touches(v, t, {from, to})
    BY <1>2, <1>5, <1>6, MoreLocks DEF Under
  <2>2. Touches(s, v, {from, to})
    BY <2>1, TouchesTwice
  <2> QED BY <2>1, <2>2, TouchesTwice
<1>8. Runs(s, t)
  <2> SUFFICES ASSUME NEW d \in CPUs, s.task[Current(s, d)].on_rq
               PROVE  t.task[Current(t, d)].on_rq
    BY DEF Runs
  <2>1. Current(s, d) \in Threads /\ s.task[Current(s, d)].cpu = d /\ Current(t, d) = Current(s, d)
    BY <1>7, ListsTyped DEF Sound, PlacesRight, Touches
  <2>2. Current(s, d) # p
    BY <1>1, <2>1
  <2> QED BY <1>2, <1>5, <1>6, <2>1, <2>2
<1> QED BY <1>7, <1>8 DEF Under

\* dequeue_pushable_task: nobody is promised that a task is pushed.
LEMMA NotPushable ==
  ASSUME NEW s, Sound(s), NEW c \in CPUs, NEW p, NEW t, t = dequeue_pushable_task(s, c, p)
  PROVE  Under(s, t, {c}) /\ t.task = s.task
<1>1. s \in States /\ QueueRight(s, c) /\ IsInjective(s.rq[c].pushable)
  BY DEF Sound, QueueRight, PushableRight
<1>2. /\ QueueStep(s, t, c) /\ t.rd = s.rd
      /\ t.rq[c].active = s.rq[c].active /\ t.rq[c].migratory = s.rq[c].migratory
      /\ t.rq[c].overloaded = s.rq[c].overloaded
      /\ IsInjective(t.rq[c].pushable)
      /\ ToSet(t.rq[c].pushable) = ToSet(s.rq[c].pushable) \ {p}
  BY <1>1, DequeuePushable
<1>3. t.task = s.task /\ Current(t, c) = Current(s, c)
  BY <1>2 DEF QueueStep
<1>4. /\ \A x : rt_task(t, x) = rt_task(s, x) /\ Migratable(t, x) = Migratable(s, x)
      /\ highest_prio(t, c) = highest_prio(s, c)
  BY <1>2, <1>3 DEF rt_task, Migratable, highest_prio
<1>5. ActiveRight(t, c)
  BY <1>1, <1>2, <1>3, <1>4 DEF QueueRight, ActiveRight, SortedList
<1>6. PushableRight(t, c)
  BY <1>1, <1>2, <1>3, <1>4 DEF QueueRight, PushableRight, Movable
<1>7. SeenRight(t, c)
  <2>1. MovableOf(t, c) = MovableOf(s, c)
    BY <1>2, <1>4 DEF MovableOf
  <2> QED BY <1>1, <1>2, <1>4, <2>1 DEF QueueRight, SeenRight
<1>8. QueueRight(t, c)
  BY <1>5, <1>6, <1>7 DEF QueueRight
<1> QED BY <1>2, <1>3, <1>8, QueueOnly

\* requeue_task_rt with head: before its equals the task is no worse placed.
LEMMA Requeued ==
  ASSUME NEW s, Sound(s), NEW c \in CPUs, NEW p, p \in ToSet(s.rq[c].active),
         NEW t, t = [s EXCEPT !.rq[c].active = AddHead(s, RemoveFirst(@, p), p)]
  PROVE  Under(s, t, {}) /\ t.task = s.task
<1> DEFINE q == s.rq[c].active
           r == RemoveFirst(q, p)
           b == AddHead(s, r, p)
<1>1. s \in States /\ QueueRight(s, c) /\ q \in Seq(Tasks) /\ p \in Tasks
  BY ListsTyped DEF Sound, ToSet
<1>2. IsInjective(q) /\ SortedList(s, q)
  BY <1>1 DEF QueueRight, ActiveRight
<1>3. r \in Seq(Tasks) /\ IsInjective(r) /\ ToSet(r) = ToSet(q) \ {p} /\ SortedList(s, r)
      /\ Len(r) = Len(q) - 1
  BY <1>1, <1>2, RemovedSorted
<1> HIDE DEF r
<1>4. b \in Seq(Tasks) /\ Len(b) = Len(r) + 1 /\ IsInjective(b) /\ ToSet(b) = ToSet(r) \cup {p}
      /\ SortedList(s, b) /\ b # <<>>
  <2>1. p \notin ToSet(r)
    BY <1>3
  <2> QED BY <1>1, <1>3, <2>1, AddedSorted
<1>5. t = [s EXCEPT !.rq[c].active = b]
  BY DEF r
<1> HIDE DEF b
<1>6. ASSUME NEW u, u = [s EXCEPT !.rq[c].active = b]
      PROVE  /\ QueueStep(s, u, c) /\ u.rd = s.rd /\ u.rq[c].active = b
             /\ u.rq[c].pushable = s.rq[c].pushable
             /\ u.rq[c].migratory = s.rq[c].migratory /\ u.rq[c].overloaded = s.rq[c].overloaded
  BY <1>1, <1>4, <1>6, SetActive
<1>7. /\ QueueStep(s, t, c) /\ t.rd = s.rd /\ t.rq[c].active = b
      /\ t.rq[c].pushable = s.rq[c].pushable
      /\ t.rq[c].migratory = s.rq[c].migratory /\ t.rq[c].overloaded = s.rq[c].overloaded
  BY <1>5, <1>6, Zenon
<1>8. ToSet(b) = ToSet(q) /\ Len(b) = Len(q) /\ q # <<>>
  <2>1. q # <<>>
    BY DEF ToSet
  <2>2. Len(q) \in Nat
    BY <1>1
  <2>3. ToSet(b) = ToSet(q)
    BY <1>3, <1>4
  <2> QED BY <1>3, <1>4, <2>1, <2>2, <2>3
<1>9. t.task = s.task /\ Current(t, c) = Current(s, c)
  BY <1>7 DEF QueueStep
<1>10. \A x : rt_task(t, x) = rt_task(s, x) /\ Migratable(t, x) = Migratable(s, x)
  BY <1>9 DEF rt_task, Migratable
<1>11. highest_prio(t, c) = highest_prio(s, c)
  <2>1. /\ Head(b) \in ToSet(q) /\ Head(q) \in ToSet(q)
        /\ s.task[Head(b)].prio <= s.task[Head(q)].prio
        /\ s.task[Head(q)].prio <= s.task[Head(b)].prio
    BY <1>1, <1>2, <1>4, <1>8, HeadBest
  <2>2. \A x \in ToSet(q) : s.task[x].prio \in Int
    BY <1>1, PriosAssumption DEF States, TaskStruct, Threads, ToSet
  <2> QED BY <1>4, <1>7, <1>8, <1>9, <2>1, <2>2 DEF highest_prio
<1>12. ActiveRight(t, c)
  <2>1. IsInjective(b) /\ SortedList(t, b)
    BY <1>4, <1>9 DEF SortedList
  <2> QED BY <1>1, <1>7, <1>8, <1>9, <1>10, <2>1 DEF QueueRight, ActiveRight
<1>13. PushableRight(t, c)
  BY <1>1, <1>7, <1>9, <1>10 DEF QueueRight, PushableRight, Movable
<1>14. SeenRight(t, c)
  <2>1. MovableOf(t, c) = MovableOf(s, c)
    BY <1>7, <1>8, <1>10 DEF MovableOf
  <2> QED BY <1>1, <1>7, <1>8, <1>11, <2>1 DEF QueueRight, SeenRight
<1>15. QueueRight(t, c)
  BY <1>12, <1>13, <1>14 DEF QueueRight
<1> QED BY <1>7, <1>9, <1>15, QueueOnly

\* check_preempt_curr asks for a reschedule, or requeues.
LEMMA Preempted ==
  ASSUME NEW s, Sound(s), NEW c \in CPUs, NEW p, NEW cpu,
         NEW t \in check_preempt_curr(s, c, p, cpu)
  PROVE  Under(s, t, {}) /\ \A x \in Threads : Alike(s, t, x)
<1>1. s \in States /\ Current(s, c) \in Threads
  BY ListsTyped DEF Sound
<1>2. CASE t = s
  BY <1>2, NothingDone DEF Alike
<1>3. CASE t = resched_task(s, Current(s, c))
  BY <1>1, <1>3, Resched DEF TaskStep, Alike
<1>4. CASE t = check_preempt_equal_prio(s, c, p)
  <2> DEFINE u == [s EXCEPT !.rq[c].active =
                     IF p \in ToSet(@) THEN AddHead(s, RemoveFirst(s.rq[c].active, p), p) ELSE @]
  <2>1. t = s \/ t = resched_task(u, Current(s, c))
    BY <1>4 DEF check_preempt_equal_prio
  <2>2. CASE t = resched_task(u, Current(s, c))
    <3>1. Under(s, u, {}) /\ u.task = s.task
      <4>1. CASE p \in ToSet(s.rq[c].active)
        <5>1. u = [s EXCEPT !.rq[c].active = AddHead(s, RemoveFirst(@, p), p)]
          BY <4>1
        <5> HIDE DEF u
        <5> QED BY <4>1, <5>1, Requeued
      <4>2. CASE p \notin ToSet(s.rq[c].active)
        <5>1. u = s
          BY <1>1, <4>2 DEF States, RunQueue
        <5> QED BY <5>1, NothingDone
      <4> QED BY <4>1, <4>2
    <3> HIDE DEF u
    <3>2. Sound(u)
      BY <3>1 DEF Under, Touches
    <3>3. Under(u, t, {}) /\ \A x \in Threads : Alike(u, t, x)
      BY <1>1, <2>2, <3>2, Resched DEF TaskStep, Alike
    <3>4. Under(s, t, {})
      BY <3>1, <3>3, UnderTwice
    <3> QED BY <3>1, <3>3, <3>4 DEF Alike
  <2> QED BY <1>2, <2>1, <2>2
<1> QED BY <1>2, <1>3, <1>4 DEF check_preempt_curr

\* schedule: put_prev_task, set_next_entity and the switch.
PutPrev(s, c) ==
  IF rt_task(s, Current(s, c)) /\ s.task[Current(s, c)].on_rq /\ Migratable(s, Current(s, c))
  THEN enqueue_pushable_task(s, c, Current(s, c)) ELSE s
PickNext(s, put, c, next) == IF rt_task(s, next) THEN dequeue_pushable_task(put, c, next) ELSE put
SetCurr(s, c, next) == [s EXCEPT !.rq[c].curr = next]

\* The CPU runs next.
LEMMA CurrSet ==
  ASSUME NEW s \in States, NEW c \in CPUs, NEW next \in Threads, NEW t, t = SetCurr(s, c, next)
  PROVE  /\ t \in States /\ t.task = s.task /\ t.rd = s.rd
         /\ \A d \in CPUs \ {c} : t.rq[d] = s.rq[d]
         /\ t.rq[c].active = s.rq[c].active /\ t.rq[c].pushable = s.rq[c].pushable
         /\ t.rq[c].migratory = s.rq[c].migratory
         /\ t.rq[c].overloaded = s.rq[c].overloaded /\ Current(t, c) = next
BY DEF SetCurr, States, RunQueue, Current

\* The switch of CPU c to next: the task it ran may be pushed from now on, next
\* may not.
LEMMA Switched ==
  ASSUME NEW s, Sound(s), NEW c \in CPUs,
         NEW next \in Threads, s.task[next].cpu = c,
         NEW put, put = PutPrev(s, c), NEW picked, picked = PickNext(s, put, c, next),
         NEW t, t = SetCurr(picked, c, next)
  PROVE  /\ Sound(t) /\ t.task = s.task /\ Current(t, c) = next
         /\ \A d \in CPUs \ {c} : t.rq[d] = s.rq[d]
<1> DEFINE u == s.rq[c].pushable
           prev == Current(s, c)
<1>1. s \in States /\ ThreadsRight(s) /\ PlacesRight(s) /\ QueueRight(s, c)
      /\ u \in Seq(Tasks) /\ prev \in Threads
  BY ListsTyped DEF Sound
<1>2. IsInjective(u)
      /\ \A x \in ToSet(u) : Movable(s, x, c) /\ rt_task(s, x) /\ Migratable(s, x)
  BY <1>1 DEF QueueRight, PushableRight
<1>3. rt_task(s, prev) => prev \in Tasks
  BY <1>1, PriosAssumption DEF rt_task, rt_prio, ThreadsRight, Threads
<1>4. /\ QueueStep(s, put, c) /\ put.rd = s.rd /\ put.rq[c].active = s.rq[c].active
      /\ put.rq[c].migratory = s.rq[c].migratory /\ put.rq[c].overloaded = s.rq[c].overloaded
      /\ IsInjective(put.rq[c].pushable)
      /\ \A x \in ToSet(put.rq[c].pushable) :
           x \in Tasks /\ s.task[x].cpu = c /\ s.task[x].on_rq /\ rt_task(s, x) /\ Migratable(s, x)
  <2>1. CASE rt_task(s, prev) /\ s.task[prev].on_rq /\ Migratable(s, prev)
    <3>1. put = enqueue_pushable_task(s, c, prev) /\ prev \in Tasks /\ s.task[prev].cpu = c
      BY <1>1, <1>3, <2>1 DEF PlacesRight, PutPrev
    <3>2. /\ QueueStep(s, put, c) /\ put.rd = s.rd /\ put.rq[c].active = s.rq[c].active
          /\ put.rq[c].migratory = s.rq[c].migratory /\ put.rq[c].overloaded = s.rq[c].overloaded
          /\ IsInjective(put.rq[c].pushable)
          /\ ToSet(put.rq[c].pushable) = ToSet(u) \cup {prev}
      BY <1>1, <1>2, <3>1, EnqueuePushable
    <3>3. \A x \in ToSet(put.rq[c].pushable) :
            x \in Tasks /\ s.task[x].cpu = c /\ s.task[x].on_rq /\ rt_task(s, x) /\ Migratable(s, x)
      BY <1>2, <2>1, <3>1, <3>2 DEF Movable
    <3> QED BY <3>2, <3>3
  <2>2. CASE ~ (rt_task(s, prev) /\ s.task[prev].on_rq /\ Migratable(s, prev))
    <3>1. put = s
      BY <2>2 DEF PutPrev
    <3>2. QueueStep(s, s, c)
      BY <1>1 DEF QueueStep, Elsewhere
    <3> QED BY <1>2, <3>1, <3>2 DEF Movable
  <2> QED BY <2>1, <2>2
<1>5. put \in States /\ put.task = s.task
  BY <1>4 DEF QueueStep
<1>6. /\ QueueStep(s, picked, c) /\ picked.rd = s.rd /\ picked.rq[c].active = s.rq[c].active
      /\ picked.rq[c].migratory = s.rq[c].migratory /\ picked.rq[c].overloaded = s.rq[c].overloaded
      /\ IsInjective(picked.rq[c].pushable)
      /\ \A x \in ToSet(picked.rq[c].pushable) : /\ x \in Tasks /\ s.task[x].cpu = c /\ s.task[x].on_rq
                                                 /\ rt_task(s, x) /\ Migratable(s, x) /\ x # next
  <2>1. CASE rt_task(s, next)
    <3>0. picked = dequeue_pushable_task(put, c, next)
      BY <2>1 DEF PickNext
    <3>1. /\ QueueStep(put, picked, c) /\ picked.rd = put.rd
          /\ picked.rq[c].active = put.rq[c].active
          /\ picked.rq[c].migratory = put.rq[c].migratory
          /\ picked.rq[c].overloaded = put.rq[c].overloaded
          /\ IsInjective(picked.rq[c].pushable)
          /\ ToSet(picked.rq[c].pushable) = ToSet(put.rq[c].pushable) \ {next}
      BY <1>4, <1>5, <3>0, DequeuePushable
    <3>2. QueueStep(s, picked, c)
      BY <1>4, <3>1, TwoQueueSteps
    <3> QED BY <1>4, <3>1, <3>2
  <2>2. CASE ~ rt_task(s, next)
    <3>1. picked = put
      BY <2>2 DEF PickNext
    <3> QED BY <1>4, <2>2, <3>1
  <2> QED BY <2>1, <2>2
<1>7. picked \in States /\ picked.task = s.task
  BY <1>6 DEF QueueStep
<1>8. /\ t \in States /\ t.task = picked.task /\ t.rd = picked.rd
      /\ \A d \in CPUs \ {c} : t.rq[d] = picked.rq[d]
      /\ t.rq[c].active = picked.rq[c].active /\ t.rq[c].pushable = picked.rq[c].pushable
      /\ t.rq[c].migratory = picked.rq[c].migratory
      /\ t.rq[c].overloaded = picked.rq[c].overloaded /\ Current(t, c) = next
  BY <1>7, CurrSet
<1>9. t.task = s.task /\ \A x : rt_task(t, x) = rt_task(s, x) /\ Migratable(t, x) = Migratable(s, x)
  BY <1>7, <1>8 DEF rt_task, Migratable
<1>10. \A d \in CPUs \ {c} : QueueRight(t, d) /\ t.rq[d] = s.rq[d]
  <2> SUFFICES ASSUME NEW d \in CPUs \ {c} PROVE QueueRight(t, d) /\ t.rq[d] = s.rq[d]
    OBVIOUS
  <2>1. t.rq[d] = s.rq[d] /\ t.rd.cpupri[d] = s.rd.cpupri[d]
        /\ (d \in t.rd.rto_mask <=> d \in s.rd.rto_mask)
    BY <1>6, <1>8 DEF QueueStep, Elsewhere
  <2>2. \A x \in Tasks \ {None} : Alike(s, t, x)
    BY <1>9 DEF Alike
  <2>3. t \in States /\ None \notin Tasks
    BY <1>8, ThreadsAssumption
  <2>4. QueueRight(t, d)
    BY <2>1, <2>2, <2>3, OtherQueue
  <2> QED BY <2>1, <2>4
<1>11. QueueRight(t, c)
  <2>1. ActiveRight(t, c)
    BY <1>1, <1>6, <1>8, <1>9 DEF QueueRight, ActiveRight, SortedList
  <2>2. PushableRight(t, c)
    BY <1>6, <1>8, <1>9 DEF PushableRight, Movable
  <2>3. SeenRight(t, c)
    <3>1. MovableOf(t, c) = MovableOf(s, c) /\ highest_prio(t, c) = highest_prio(s, c)
      BY <1>6, <1>8, <1>9 DEF MovableOf, highest_prio
    <3> QED BY <1>1, <1>6, <1>8, <3>1 DEF QueueRight, SeenRight
  <2> QED BY <2>1, <2>2, <2>3 DEF QueueRight
<1>12. ThreadsRight(t) /\ PlacesRight(t)
  BY <1>1, <1>8, <1>9, <1>10 DEF ThreadsRight, PlacesRight, Current
<1> QED BY <1>8, <1>9, <1>10, <1>11, <1>12 DEF Sound

SetPrio(s, p, prio) == [s EXCEPT !.task[p].prio = prio]
\* A change of the priority of a task that is on no queue.
LEMMA PrioSet ==
  ASSUME NEW s, Sound(s), NEW p \in Tasks, ~ s.task[p].on_rq, NEW prio \in 0 .. MAX_RT_PRIO,
         NEW t, t = SetPrio(s, p, prio)
  PROVE  /\ Under(s, t, {s.task[p].cpu}) /\ TaskStep(s, t, p)
         /\ t.task[p].cpu = s.task[p].cpu /\ ~ t.task[p].on_rq
<1> DEFINE x == [s.task[p] EXCEPT !.prio = prio]
<1>1. s \in States /\ p \in Threads /\ s.task[p] \in TaskStruct
  BY DEF Sound, States, Threads
<1>2. /\ x \in TaskStruct /\ x.cpu = s.task[p].cpu /\ x.prio = prio
      /\ x.on_rq = s.task[p].on_rq /\ x.cpus_allowed = s.task[p].cpus_allowed
  BY <1>1, PriosAssumption DEF TaskStruct
<1>3. t = [s EXCEPT !.task[p] = x]
  BY DEF SetPrio
<1> HIDE DEF x
<1>4. TaskStep(s, t, p) /\ t.task[p] = x
  <2>1. ASSUME NEW v, v = [s EXCEPT !.task[p] = x]
        PROVE  TaskStep(s, v, p) /\ v.task[p] = x
    BY <1>1, <1>2, <2>1 DEF States, TaskStep
  <2> QED BY <1>3, <2>1
<1>5. \A d \in CPUs : Current(s, d) = p => t.task[p].cpu = d
  BY <1>2, <1>4 DEF Sound, PlacesRight
<1>6. \A d \in CPUs : Aside(s, p, d) /\ Aside(t, p, d)
  BY <1>2, <1>4 DEF Aside
<1>7. t.task[p].prio <= MAX_RT_PRIO
  BY <1>2, <1>4, PriosAssumption
<1>8. t.task[p].cpu \in t.task[p].cpus_allowed
  BY <1>2, <1>4 DEF Sound, PlacesRight
<1>9. Touches(s, t, {s.task[p].cpu})
  BY <1>4, <1>5, <1>6, <1>7, <1>8, TaskChanged
<1>10. Runs(s, t)
  <2>1. \A d \in CPUs : Current(s, d) \in Threads /\ Current(t, d) = Current(s, d)
    BY <1>9, ListsTyped DEF Sound, Touches
  <2>2. \A y \in Threads : t.task[y].on_rq = s.task[y].on_rq
    BY <1>2, <1>4 DEF TaskStep
  <2> QED BY <2>1, <2>2 DEF Runs
<1> QED BY <1>2, <1>4, <1>9, <1>10 DEF Under

\* __sched_setscheduler: off the queue, the new priority, and on again.
TakenOff(s, r, p) ==
  CASE s.task[p].on_rq -> deactivate_task(s, r, p)
    [] ~ s.task[p].on_rq /\ Current(s, r) = p -> update_curr_rt(s, r)
    [] OTHER -> s
PutBack(s, t, r, p) == IF s.task[p].on_rq THEN activate_task(t, r, p) ELSE t

\* A change of priority, under the lock of the task's run queue.
LEMMA PrioChanged ==
  ASSUME NEW s, Sound(s), NEW p \in Tasks, NEW prio \in 0 .. MAX_RT_PRIO, NEW r \in CPUs, s.task[p].cpu = r,
         NEW off, off = TakenOff(s, r, p), NEW set, set = SetPrio(off, p, prio),
         NEW unlisted, unlisted = set \/ unlisted = dequeue_pushable_task(set, r, p),
         NEW t, t = PutBack(s, unlisted, r, p)
  PROVE  Under(s, t, {r}) /\ t.task[p].cpu = r
<1>1. s \in States /\ r \in CPUs /\ p \in Threads
  BY DEF Sound, States, TaskStruct, Threads
<1>2. /\ Touches(s, off, {r}) /\ ~ off.task[p].on_rq
      /\ \A x \in Threads \ {p} : off.task[x].on_rq = s.task[x].on_rq
      /\ off.task[p].cpu = r
  <2>1. CASE s.task[p].on_rq
    <3>1. off = deactivate_task(s, r, p)
      BY <2>1 DEF TakenOff
    <3>2. Touches(s, off, {r}) /\ ~ off.task[p].on_rq /\ NearlySame(s, off, p)
      BY <1>1, <2>1, <3>1, Deactivated
    <3> QED BY <3>2 DEF NearlySame, Alike
  <2>2. CASE ~ s.task[p].on_rq
    <3>1. off = s \/ off = update_curr_rt(s, r)
      BY <2>2 DEF TakenOff
    <3>2. Under(s, off, {}) /\ \A x \in Threads : Alike(s, off, x)
      BY <1>1, <3>1, CurrUpdated, NothingDone DEF Alike
    <3>3. Touches(s, off, {r})
      BY <3>2, MoreLocks DEF Under
    <3> QED BY <1>1, <2>2, <3>2, <3>3 DEF Alike
  <2> QED BY <2>1, <2>2
<1>3. Sound(off)
  BY <1>2 DEF Touches
<1>4. /\ Touches(off, set, {r}) /\ ~ set.task[p].on_rq /\ set.task[p].cpu = r
      /\ \A x \in Threads \ {p} : set.task[x] = off.task[x]
  <2>2. /\ Under(off, set, {off.task[p].cpu}) /\ TaskStep(off, set, p)
        /\ set.task[p].cpu = off.task[p].cpu /\ ~ set.task[p].on_rq
    BY <1>2, <1>3, PrioSet
  <2> QED BY <1>2, <2>2 DEF Under, TaskStep
<1>5. Sound(set)
  BY <1>4 DEF Touches
<1>6. Touches(set, unlisted, {r}) /\ unlisted.task = set.task
  <2>1. CASE unlisted = set
    BY <1>5, <2>1, NothingDone DEF Under
  <2>2. CASE unlisted = dequeue_pushable_task(set, r, p)
    BY <1>1, <1>5, <2>2, NotPushable DEF Under
  <2> QED BY <2>1, <2>2
<1>7. Touches(s, unlisted, {r})
  <2>1. Touches(s, set, {r})
    BY <1>2, <1>4, TouchesTwice
  <2> QED BY <1>6, <2>1, TouchesTwice
<1>8. Sound(unlisted) /\ unlisted.task[p].cpu = r /\ ~ unlisted.task[p].on_rq
  BY <1>4, <1>6, <1>7 DEF Touches
<1>9. /\ Touches(unlisted, t, {r}) /\ t.task[p].cpu = r
      /\ s.task[p].on_rq => t.task[p].on_rq
      /\ \A x \in Threads \ {p} : t.task[x] = unlisted.task[x]
  <2>1. CASE s.task[p].on_rq
    <3>1. t = activate_task(unlisted, r, p)
      BY <2>1 DEF PutBack
    <3>2. Under(unlisted, t, {r}) /\ t.task[p].on_rq /\ SameTasks(unlisted, t, p)
      BY <1>8, <3>1, Activated
    <3> QED BY <1>8, <3>2 DEF Under, SameTasks
  <2>2. CASE ~ s.task[p].on_rq
    <3>1. t = unlisted
      BY <2>2 DEF PutBack
    <3> QED BY <1>8, <2>2, <3>1, NothingDone DEF Under
  <2> QED BY <2>1, <2>2
<1>10. Touches(s, t, {r})
  BY <1>7, <1>9, TouchesTwice
<1>11. Runs(s, t)
  <2> SUFFICES ASSUME NEW d \in CPUs, s.task[Current(s, d)].on_rq
               PROVE  t.task[Current(t, d)].on_rq
    BY DEF Runs
  <2>1. Current(s, d) \in Threads /\ Current(t, d) = Current(s, d)
    BY <1>1, <1>10, ListsTyped DEF Touches
  <2>2. \A x \in Threads \ {p} : t.task[x].on_rq = s.task[x].on_rq
    <3> TAKE x \in Threads \ {p}
    <3>1. off.task[x].on_rq = s.task[x].on_rq /\ set.task[x] = off.task[x] /\ t.task[x] = unlisted.task[x]
      BY <1>2, <1>4, <1>9
    <3> QED BY <1>6, <3>1
  <2>3. CASE Current(s, d) = p
    BY <1>9, <2>1, <2>3
  <2>4. CASE Current(s, d) # p
    BY <2>1, <2>2, <2>4
  <2> QED BY <2>3, <2>4
<1> QED BY <1>1, <1>9, <1>10, <1>11 DEF Under

\* A change of affinity.
SetAllowed(s, p, mask) == [s EXCEPT !.task[p].cpus_allowed = mask]
\* Only the affinity of the task changes.
LEMMA AllowedSet ==
  ASSUME NEW s \in States, NEW p \in Tasks, NEW mask \in SUBSET CPUs,
         NEW t, t = SetAllowed(s, p, mask)
  PROVE  /\ TaskStep(s, t, p) /\ t.task[p].cpus_allowed = mask
         /\ t.task[p].prio = s.task[p].prio /\ t.task[p].cpu = s.task[p].cpu
         /\ t.task[p].on_rq = s.task[p].on_rq
<1> DEFINE x == [s.task[p] EXCEPT !.cpus_allowed = mask]
<1>1. p \in Threads /\ s.task[p] \in TaskStruct
  BY DEF States, Threads
<1>2. /\ x \in TaskStruct /\ x.cpu = s.task[p].cpu /\ x.prio = s.task[p].prio
      /\ x.on_rq = s.task[p].on_rq /\ x.cpus_allowed = mask
  BY <1>1 DEF TaskStruct
<1>3. t = [s EXCEPT !.task[p] = x]
  BY DEF SetAllowed
<1> HIDE DEF x
<1>4. TaskStep(s, t, p) /\ t.task[p] = x
  BY <1>1, <1>2, <1>3 DEF States, TaskStep
<1> QED BY <1>2, <1>4

\* set_cpus_allowed_rt: a queued task becomes one that may move, or no longer.
Several(mask) == Cardinality(mask) > 1
NotListed(s, r, p) ==
  IF Migratable(s, p) /\ p # Current(s, r) THEN dequeue_pushable_task(s, r, p) ELSE s
Relisted(s, r, p, mask) ==
  IF Several(mask) /\ p # Current(s, r) THEN enqueue_pushable_task(NotListed(s, r, p), r, p)
  ELSE NotListed(s, r, p)
Recounted(s, u, r, p, mask) ==
  [u EXCEPT !.rq[r].migratory =
     @ + (IF Several(mask) THEN 1 ELSE 0) - (IF Migratable(s, p) THEN 1 ELSE 0)]

\* The task is on the pushable list when it may move and does not run.
LEMMA PushableRelisted ==
  ASSUME NEW s, Sound(s), NEW p \in Tasks, NEW r \in CPUs, NEW mask, NEW t, t = Relisted(s, r, p, mask)
  PROVE  /\ QueueStep(s, t, r) /\ t.rd = s.rd
         /\ t.rq[r].active = s.rq[r].active /\ t.rq[r].migratory = s.rq[r].migratory
         /\ IsInjective(t.rq[r].pushable)
         /\ ToSet(t.rq[r].pushable) \ {p} = ToSet(s.rq[r].pushable) \ {p}
         /\ p \in ToSet(t.rq[r].pushable) => Several(mask) /\ p # Current(s, r)
<1>1. /\ s \in States /\ IsInjective(s.rq[r].pushable)
      /\ p \in ToSet(s.rq[r].pushable) => Migratable(s, p) /\ p # Current(s, r)
  BY DEF Sound, QueueRight, PushableRight, Movable
<1> DEFINE u == NotListed(s, r, p)
<1>2. /\ QueueStep(s, u, r) /\ u.rd = s.rd
      /\ u.rq[r].active = s.rq[r].active /\ u.rq[r].migratory = s.rq[r].migratory
      /\ IsInjective(u.rq[r].pushable)
      /\ ToSet(u.rq[r].pushable) = ToSet(s.rq[r].pushable) \ {p}
  <2>1. CASE Migratable(s, p) /\ p # Current(s, r)
    <3>1. u = dequeue_pushable_task(s, r, p)
      BY <2>1 DEF NotListed
    <3> HIDE DEF u
    <3> QED BY <1>1, <3>1, DequeuePushable
  <2>2. CASE ~ (Migratable(s, p) /\ p # Current(s, r))
    <3>1. u = s
      BY <2>2 DEF NotListed
    <3>2. QueueStep(s, s, r)
      BY <1>1 DEF QueueStep, Elsewhere
    <3>3. p \notin ToSet(s.rq[r].pushable)
      BY <1>1, <2>2
    <3> HIDE DEF u
    <3> QED BY <1>1, <3>1, <3>2, <3>3
  <2> QED BY <2>1, <2>2
<1>3. t = IF Several(mask) /\ p # Current(s, r) THEN enqueue_pushable_task(u, r, p) ELSE u
  BY DEF Relisted
<1> HIDE DEF u
<1>4. CASE Several(mask) /\ p # Current(s, r)
  <2>1. t = enqueue_pushable_task(u, r, p) /\ u \in States
    BY <1>2, <1>3, <1>4 DEF QueueStep
  <2>2. /\ QueueStep(u, t, r) /\ t.rd = u.rd
        /\ t.rq[r].active = u.rq[r].active /\ t.rq[r].migratory = u.rq[r].migratory
        /\ IsInjective(t.rq[r].pushable)
        /\ ToSet(t.rq[r].pushable) = ToSet(u.rq[r].pushable) \cup {p}
    BY <1>2, <2>1, EnqueuePushable
  <2>3. QueueStep(s, t, r)
    BY <1>2, <2>2, TwoQueueSteps
  <2> QED BY <1>2, <1>4, <2>2, <2>3
<1>5. CASE ~ (Several(mask) /\ p # Current(s, r))
  <2>1. t = u
    BY <1>3, <1>5
  <2> QED BY <1>2, <2>1
<1> QED BY <1>4, <1>5

\* The counters of the queue with the new affinity.
LEMMA AffinityCounted ==
  ASSUME NEW s, Sound(s), NEW p \in Tasks, NEW r \in CPUs, s.task[p].cpu = r, s.task[p].on_rq,
         rt_task(s, p), NEW mask \in SUBSET CPUs,
         NEW listed, listed = Relisted(s, r, p, mask),
         NEW counted, counted = Recounted(s, listed, r, p, mask),
         NEW u, u = update_rt_migration(counted, r), NEW t, t = SetAllowed(u, p, mask)
  PROVE  QueueStep(s, u, r) /\ QueueRight(t, r)
<1> DEFINE q == s.rq[r].active
           M == MovableOf(s, r)
<1>1. s \in States /\ QueueRight(s, r) /\ q \in Seq(Tasks) /\ p \in ToSet(q)
      /\ s.rq[r].migratory = Cardinality(M)
  BY ListsTyped DEF Sound, QueueRight, ActiveRight, SeenRight
<1>2. /\ QueueStep(s, listed, r) /\ listed.rd = s.rd
      /\ listed.rq[r].active = q /\ listed.rq[r].migratory = s.rq[r].migratory
      /\ IsInjective(listed.rq[r].pushable)
      /\ ToSet(listed.rq[r].pushable) \ {p} = ToSet(s.rq[r].pushable) \ {p}
      /\ p \in ToSet(listed.rq[r].pushable) => Several(mask) /\ p # Current(s, r)
  BY PushableRelisted
<1>3. listed \in States
  BY <1>2 DEF QueueStep
<1> DEFINE n == s.rq[r].migratory + (IF Several(mask) THEN 1 ELSE 0)
                - (IF Migratable(s, p) THEN 1 ELSE 0)
<1>4. counted = [listed EXCEPT !.rq[r].migratory = n]
  BY <1>2, <1>3 DEF Recounted, States, RunQueue
<1>5. n \in Int
  BY <1>1, ListsTyped
<1> HIDE DEF n
<1>6. /\ QueueStep(listed, counted, r) /\ counted.rd = listed.rd /\ counted.rq[r].migratory = n
      /\ counted.rq[r].active = listed.rq[r].active
      /\ counted.rq[r].pushable = listed.rq[r].pushable
  <2>1. ASSUME NEW v, v = [listed EXCEPT !.rq[r].migratory = n]
        PROVE  /\ QueueStep(listed, v, r) /\ v.rd = listed.rd /\ v.rq[r].migratory = n
               /\ v.rq[r].active = listed.rq[r].active
               /\ v.rq[r].pushable = listed.rq[r].pushable
    BY <1>3, <1>5, <2>1, SetMigratory, SMTT(30)
  <2> QED BY <1>4, <2>1
<1>7. /\ QueueStep(counted, u, r) /\ u.rd.cpupri = counted.rd.cpupri
      /\ u.rq[r].active = counted.rq[r].active /\ u.rq[r].migratory = counted.rq[r].migratory
      /\ u.rq[r].pushable = counted.rq[r].pushable
      /\ u.rq[r].overloaded = (counted.rq[r].migratory > 0 /\ Len(counted.rq[r].active) > 1)
      /\ (r \in u.rd.rto_mask) = u.rq[r].overloaded
  <2>1. counted \in States
    BY <1>6 DEF QueueStep
  <2> QED BY <2>1, UpdateMigration
<1>8. QueueStep(s, u, r)
  BY <1>2, <1>6, <1>7, TwoQueueSteps
<1>9. u \in States /\ u.task = s.task /\ Current(u, r) = Current(s, r)
  BY <1>8 DEF QueueStep
<1>10. /\ TaskStep(u, t, p) /\ t.task[p].cpus_allowed = mask
       /\ t.task[p].prio = s.task[p].prio /\ t.task[p].cpu = s.task[p].cpu
       /\ t.task[p].on_rq = s.task[p].on_rq
  <2>1. /\ TaskStep(u, t, p) /\ t.task[p].cpus_allowed = mask
        /\ t.task[p].prio = u.task[p].prio /\ t.task[p].cpu = u.task[p].cpu
        /\ t.task[p].on_rq = u.task[p].on_rq
    BY <1>9, AllowedSet
  <2> QED BY <1>9, <2>1
<1>11. /\ t \in States /\ t.rq = u.rq /\ t.rd = u.rd /\ Current(t, r) = Current(s, r)
       /\ \A x \in Tasks \ {p} : t.task[x] = s.task[x]
  BY <1>9, <1>10 DEF TaskStep, Current, Threads
<1>12. \A x \in Tasks : /\ t.task[x].prio = s.task[x].prio /\ t.task[x].cpu = s.task[x].cpu
                        /\ t.task[x].on_rq = s.task[x].on_rq /\ rt_task(t, x) = rt_task(s, x)
                        /\ x # p => Migratable(t, x) = Migratable(s, x)
  BY <1>10, <1>11 DEF rt_task, Migratable
<1>13. Migratable(t, p) <=> Several(mask)
  BY <1>10 DEF Migratable, Several
<1>14. t.rq[r].active = q /\ t.rq[r].pushable = listed.rq[r].pushable /\ t.rq[r].migratory = n
       /\ t.rd.cpupri = s.rd.cpupri
  BY <1>2, <1>6, <1>7, <1>11
<1>15. \A x \in ToSet(q) : x \in Tasks
  BY <1>1 DEF ToSet
<1>16. ActiveRight(t, r)
  <2>1. IsInjective(q) /\ SortedList(s, q)
        /\ \A x \in Tasks : x \in ToSet(q) <=> s.task[x].cpu = r /\ s.task[x].on_rq /\ rt_task(s, x)
    BY <1>1 DEF QueueRight, ActiveRight
  <2>2. SortedList(t, q)
    BY <1>1, <1>12, <1>15, <2>1, SortedAlike
  <2> QED BY <1>12, <1>14, <2>1, <2>2 DEF ActiveRight
<1>17. PushableRight(t, r)
  <2> SUFFICES ASSUME NEW x \in ToSet(listed.rq[r].pushable)
               PROVE  Movable(t, x, r) /\ rt_task(t, x) /\ Migratable(t, x)
    BY <1>2, <1>14 DEF PushableRight
  <2>1. CASE x = p
    <3>1. Several(mask) /\ p # Current(s, r)
      BY <1>2, <2>1
    <3> QED BY <1>10, <1>11, <1>12, <1>13, <2>1, <3>1 DEF Movable
  <2>2. CASE x # p
    <3>1. Movable(s, x, r) /\ rt_task(s, x) /\ Migratable(s, x)
      BY <1>1, <1>2, <2>2 DEF QueueRight, PushableRight
    <3> QED BY <1>11, <1>12, <2>2, <3>1 DEF Movable
  <2> QED BY <2>1, <2>2
<1>18. SeenRight(t, r)
  <2>1. IsFiniteSet(M) /\ Cardinality(M) \in Nat
    <3>1. IsFiniteSet(ToSet(q)) /\ M \subseteq ToSet(q)
      BY <1>1, ListFinite DEF MovableOf
    <3> QED BY <3>1, FS_Subset, FS_CardinalityType
  <2>2. p \in M <=> Migratable(s, p)
    BY <1>1 DEF MovableOf
  <2>3. \A x : x # p => (x \in MovableOf(t, r) <=> x \in M)
    BY <1>12, <1>14, <1>15 DEF MovableOf
  <2>4. p \in MovableOf(t, r) <=> Several(mask)
    BY <1>1, <1>13, <1>14 DEF MovableOf
  <2> HIDE DEF M
  <2>5. n = Cardinality(MovableOf(t, r))
    <3>1. CASE Several(mask) /\ ~ Migratable(s, p)
      <4>1. MovableOf(t, r) = M \cup {p} /\ p \notin M
        BY <2>2, <2>3, <2>4, <3>1
      <4>2. Cardinality(M \cup {p}) = Cardinality(M) + 1
        BY <2>1, <4>1, FS_AddElement
      <4> QED BY <1>1, <2>1, <3>1, <4>1, <4>2 DEF n, M
    <3>2. CASE ~ Several(mask) /\ Migratable(s, p)
      <4>1. MovableOf(t, r) = M \ {p} /\ p \in M
        BY <2>2, <2>3, <2>4, <3>2
      <4>2. Cardinality(M \ {p}) = Cardinality(M) - 1
        BY <2>1, <4>1, FS_RemoveElement
      <4> QED BY <1>1, <2>1, <3>2, <4>1, <4>2 DEF n, M
    <3>3. CASE Several(mask) <=> Migratable(s, p)
      <4>1. MovableOf(t, r) = M
        BY <2>2, <2>3, <2>4, <3>3
      <4>2. n = s.rq[r].migratory
        BY <1>1, <2>1, <3>3 DEF n, M
      <4> QED BY <1>1, <4>1, <4>2 DEF M
    <3> QED BY <3>1, <3>2, <3>3
  <2>6. t.rd.cpupri[r] = highest_prio(t, r)
    <3>1. s.rd.cpupri[r] = highest_prio(s, r)
      BY <1>1 DEF QueueRight, SeenRight
    <3>2. q # <<>> => Head(q) \in Tasks
      BY <1>1
    <3> QED BY <1>12, <1>14, <3>1, <3>2 DEF highest_prio
  <2>7. /\ t.rq[r].overloaded = (t.rq[r].migratory > 0 /\ Len(t.rq[r].active) > 1)
        /\ (r \in t.rd.rto_mask) = t.rq[r].overloaded
    <3>1. /\ u.rq[r].overloaded = (u.rq[r].migratory > 0 /\ Len(u.rq[r].active) > 1)
          /\ (r \in u.rd.rto_mask) = u.rq[r].overloaded
      BY <1>7
    <3> QED BY <1>11, <3>1, Zenon
  <2> QED BY <1>11, <1>14, <2>5, <2>6, <2>7, CountersRight
<1> QED BY <1>8, <1>16, <1>17, <1>18 DEF QueueRight

\* A change of affinity that leaves the task as free to move as it was.
LEMMA AffinityUncounted ==
  ASSUME NEW s, Sound(s), NEW p \in Tasks, NEW r \in CPUs, s.task[p].cpu = r,
         NEW mask \in SUBSET CPUs, Cardinality(mask) = Cardinality(s.task[p].cpus_allowed),
         NEW t, t = SetAllowed(s, p, mask)
  PROVE  QueueStep(s, s, r) /\ QueueRight(t, r)
<1>1. s \in States /\ QueueRight(s, r) /\ s.rq[r].active \in Seq(Tasks)
  BY ListsTyped DEF Sound
<1>2. /\ TaskStep(s, t, p) /\ t.task[p].cpus_allowed = mask
      /\ t.task[p].prio = s.task[p].prio /\ t.task[p].cpu = s.task[p].cpu
      /\ t.task[p].on_rq = s.task[p].on_rq
  BY <1>1, AllowedSet
<1>3. t.rq = s.rq /\ t.rd = s.rd /\ Current(t, r) = Current(s, r)
  BY <1>2 DEF TaskStep, Current
<1>4. \A x \in Tasks : /\ t.task[x].prio = s.task[x].prio /\ t.task[x].cpu = s.task[x].cpu
                       /\ t.task[x].on_rq = s.task[x].on_rq /\ rt_task(t, x) = rt_task(s, x)
                       /\ Migratable(t, x) = Migratable(s, x)
  BY <1>2 DEF TaskStep, Threads, rt_task, Migratable
<1>5. \A x \in ToSet(s.rq[r].active) : x \in Tasks
  BY <1>1 DEF ToSet
<1>6. ActiveRight(t, r)
  <2>1. SortedList(t, s.rq[r].active)
    BY <1>1, <1>4, <1>5, SortedAlike DEF QueueRight, ActiveRight
  <2> QED BY <1>1, <1>3, <1>4, <2>1 DEF QueueRight, ActiveRight
<1>7. PushableRight(t, r)
  BY <1>1, <1>3, <1>4 DEF QueueRight, PushableRight, Movable
<1>8. SeenRight(t, r)
  <2>1. MovableOf(t, r) = MovableOf(s, r)
    BY <1>3, <1>4, <1>5 DEF MovableOf
  <2>2. highest_prio(t, r) = highest_prio(s, r)
    <3>1. s.rq[r].active # <<>> => Head(s.rq[r].active) \in Tasks
      BY <1>1
    <3> QED BY <1>3, <1>4, <3>1 DEF highest_prio
  <2> QED BY <1>1, <1>3, <2>1, <2>2 DEF QueueRight, SeenRight
<1>9. QueueStep(s, s, r)
  BY <1>1 DEF QueueStep, Elsewhere
<1> QED BY <1>6, <1>7, <1>8, <1>9 DEF QueueRight

\* set_cpus_allowed_ptr when the task may stay where it is.
Counting(s, p, mask) ==
  rt_task(s, p) /\ s.task[p].on_rq /\ Cardinality(mask) # Cardinality(s.task[p].cpus_allowed)
Recount(s, r, p, mask) ==
  IF Counting(s, p, mask)
  THEN update_rt_migration(Recounted(s, Relisted(s, r, p, mask), r, p, mask), r) ELSE s

\* The queues and what others know of them are right with the new affinity.
LEMMA AffinityKept ==
  ASSUME NEW s, Sound(s), NEW p \in Tasks, NEW r \in CPUs, s.task[p].cpu = r,
         NEW mask \in SUBSET CPUs, r \in mask,
         NEW u, u = Recount(s, r, p, mask), NEW t, t = SetAllowed(u, p, mask)
  PROVE  Under(s, t, {r})
<1>1. s \in States
  BY DEF Sound
<1>2. CASE rt_task(s, p) /\ s.task[p].on_rq
  <2>1. QueueStep(s, u, r) /\ QueueRight(t, r)
    <3>1. CASE Cardinality(mask) # Cardinality(s.task[p].cpus_allowed)
      <4>1. u = update_rt_migration(Recounted(s, Relisted(s, r, p, mask), r, p, mask), r)
        BY <1>2, <3>1 DEF Recount, Counting
      <4> QED BY <1>2, <4>1, AffinityCounted
    <3>2. CASE Cardinality(mask) = Cardinality(s.task[p].cpus_allowed)
      <4>1. u = s
        BY <3>2 DEF Recount, Counting
      <4> QED BY <3>2, <4>1, AffinityUncounted
    <3> QED BY <3>1, <3>2
  <2>2. u \in States /\ u.task = s.task
    BY <2>1 DEF QueueStep
  <2>3. /\ TaskStep(u, t, p) /\ t.task[p].cpus_allowed = mask
        /\ t.task[p].prio = u.task[p].prio /\ t.task[p].cpu = u.task[p].cpu
        /\ t.task[p].on_rq = u.task[p].on_rq
    BY <2>2, AllowedSet
  <2>4. Touches(s, t, {r})
    BY <2>1, <2>2, <2>3, QueueAndTask
  <2>5. Runs(s, t)
    <3>1. \A d \in CPUs : Current(s, d) \in Threads /\ Current(t, d) = Current(s, d)
      BY <1>1, <2>4, ListsTyped DEF Touches
    <3>2. \A x \in Threads : t.task[x].on_rq = s.task[x].on_rq
      BY <2>2, <2>3 DEF TaskStep
    <3> QED BY <3>1, <3>2 DEF Runs
  <2> QED BY <2>4, <2>5 DEF Under
<1>3. CASE ~ (rt_task(s, p) /\ s.task[p].on_rq)
  <2>1. u = s
    BY <1>3 DEF Recount, Counting
  <2>2. /\ TaskStep(s, t, p) /\ t.task[p].cpus_allowed = mask
        /\ t.task[p].prio = s.task[p].prio /\ t.task[p].cpu = s.task[p].cpu
        /\ t.task[p].on_rq = s.task[p].on_rq
    BY <1>1, <2>1, AllowedSet
  <2>3. \A d \in CPUs : Aside(s, p, d) /\ Aside(t, p, d)
    BY <1>3, <2>2 DEF Aside, rt_task
  <2>4. t.task[p].prio <= MAX_RT_PRIO /\ t.task[p].cpu \in t.task[p].cpus_allowed
    BY <2>2 DEF Sound, ThreadsRight
  <2>5. \A d \in CPUs : Current(s, d) = p => t.task[p].cpu = d
    BY <2>2 DEF Sound, PlacesRight
  <2>6. Touches(s, t, {r})
    BY <2>2, <2>3, <2>4, <2>5, TaskChanged
  <2>7. Runs(s, t)
    <3>1. \A d \in CPUs : Current(s, d) \in Threads /\ Current(t, d) = Current(s, d)
      BY <1>1, <2>6, ListsTyped DEF Touches
    <3>2. \A x \in Threads : t.task[x].on_rq = s.task[x].on_rq
      BY <2>2 DEF TaskStep
    <3> QED BY <3>1, <3>2 DEF Runs
  <2> QED BY <2>6, <2>7 DEF Under
<1> QED BY <1>2, <1>3

\* The same for a task that sleeps: it is moved at once.
LEMMA AffinityMoved ==
  ASSUME NEW s, Sound(s), NEW p \in Tasks, NEW r \in CPUs, s.task[p].cpu = r,
         ~ s.task[p].on_rq, Current(s, r) # p, NEW mask \in SUBSET CPUs, NEW dest \in mask,
         NEW u, u = SetAllowed(s, p, mask), NEW t, t = set_task_cpu(u, p, dest)
  PROVE  Under(s, t, {r})
<1>1. s \in States
  BY DEF Sound
<1>2. /\ TaskStep(s, u, p) /\ u.task[p].cpus_allowed = mask
      /\ u.task[p].prio = s.task[p].prio /\ u.task[p].cpu = s.task[p].cpu
      /\ u.task[p].on_rq = s.task[p].on_rq
  BY <1>1, AllowedSet
<1> DEFINE x == [u.task[p] EXCEPT !.cpu = dest]
<1>3. u \in States /\ p \in Threads /\ u.task[p] \in TaskStruct
  BY <1>2 DEF TaskStep, States, Threads
<1>4. /\ x \in TaskStruct /\ x.cpu = dest /\ x.prio = u.task[p].prio
      /\ x.on_rq = u.task[p].on_rq /\ x.cpus_allowed = u.task[p].cpus_allowed
  BY <1>3 DEF TaskStruct
<1>5. t = [u EXCEPT !.task[p] = x]
  BY DEF set_task_cpu
<1> HIDE DEF x
<1>6. TaskStep(u, t, p) /\ t.task[p] = x
  BY <1>3, <1>4, <1>5 DEF States, TaskStep
<1>7. TaskStep(s, t, p)
  BY <1>2, <1>6 DEF TaskStep
<1>8. \A d \in CPUs : Current(s, d) # p
  BY DEF Sound, PlacesRight
<1>9. \A d \in CPUs : Aside(s, p, d) /\ Aside(t, p, d)
  BY <1>2, <1>4, <1>6 DEF Aside
<1>10. t.task[p].prio <= MAX_RT_PRIO /\ t.task[p].cpu \in t.task[p].cpus_allowed
  BY <1>2, <1>4, <1>6 DEF Sound, ThreadsRight
<1>11. Touches(s, t, {r})
  BY <1>7, <1>8, <1>9, <1>10, TaskChanged
<1>12. Runs(s, t)
  <2>1. \A d \in CPUs : Current(s, d) \in Threads \ {p} /\ Current(t, d) = Current(s, d)
    BY <1>1, <1>8, <1>11, ListsTyped DEF Touches
  <2> QED BY <1>7, <2>1 DEF Runs, TaskStep
<1> QED BY <1>11, <1>12 DEF Under

-----------------------------------------------------------------------------
(* The calls that the CPUs are in, and the locks they hold.                *)

PushOps == {"wake", "post", "to_rt"}
PullOps == {"schedule", "prio", "from_rt"}
Frame == [pc : Pcs, op : {"none"} \cup PushOps \cup PullOps,
          rq : CPUs \cup {None}, other : CPUs \cup {None}, p : Tasks \cup {None},
          want : Seq(CPUs), dropped : BOOLEAN, tries : Nat, p0 : Tasks \cup {None},
          running : BOOLEAN]
HeldBy(c) == {r \in CPUs : lock[r] = c}
\* The locks that CPU c has or can take.
Own(c) == {r \in CPUs : lock[r] \in {c, None}}

\* On the way to two locks a CPU holds none or the lower of them.
TwoLocks(f, held) ==
  \E lo, hi \in {f.rq, f.other} :
    /\ lo < hi
    /\ \/ f.want = <<lo, hi>> /\ held = {} /\ f.dropped
       \/ f.want = <<hi>> /\ held = {lo} /\ (f.dropped \/ lo = f.rq)
\* The locks in held are those of a CPU in frame f.
LocksRight(f, held) ==
  /\ f.pc \in {"none", "waking", "post"} => held = {}
  /\ f.pc \in {"push", "find", "pull"} => f.rq \in CPUs /\ held = {f.rq}
  /\ f.pc \in {"push_lock", "pull_lock"} =>
       f.rq \in CPUs /\ f.other \in CPUs \ {f.rq} /\ TwoLocks(f, held)
\* The call is one that its caller makes.
FrameRight(c, f) ==
  /\ f.pc \in {"none", "waking", "post"} => f.op = "none"
  /\ f.pc \in {"push", "find", "push_lock"} => f.op \in PushOps
  /\ f.pc \in {"pull", "pull_lock"} => f.op \in PullOps
  /\ f.op = "schedule" => f.rq = c
  /\ f.op \in {"to_rt", "prio", "from_rt"} => f.p0 \in Tasks
  /\ f.pc \in {"waking", "find", "push_lock"} => f.p \in Tasks
  /\ f.pc = "push" => ~ f.dropped
\* What CPU c in frame f knows of the task it is about, while it holds the lock,
\* and of the task it runs, unless it is in schedule.
KnowsRight(c, f, s) ==
  /\ f.op # "schedule" => s.task[Current(s, c)].on_rq
  /\ f.pc = "push" => (f.p # None => f.p \in ToSet(s.rq[f.rq].pushable))
  /\ f.pc = "find" => Movable(s, f.p, f.rq)
  /\ f.pc = "push_lock" => f.dropped \/ (Movable(s, f.p, f.rq) /\ f.other \in s.task[f.p].cpus_allowed)
CallRight(c, f, s) == FrameRight(c, f) /\ KnowsRight(c, f, s)

\* The inductive invariant.
IInv ==
  /\ lock \in [CPUs -> CPUs \cup {None}]
  /\ frame \in [CPUs -> Frame]
  /\ left \cup pulled \subseteq Tasks
  /\ Sound(State)
  /\ \A c \in CPUs : LocksRight(frame[c], HeldBy(c)) /\ CallRight(c, frame[c], State)

\* CPU c may come to the state t with the locks it has or can take.
Allows(c, t) ==
  /\ Sound(t)
  /\ \A r \in CPUs \ Own(c) : KeptQueue(State, t, r) /\ Current(t, r) = Current(State, r)
  /\ \A d \in CPUs \ {c} :
       State.task[Current(State, d)].on_rq => t.task[Current(t, d)].on_rq

\* What another CPU knows under its locks stays true.
LEMMA OthersKnow ==
  ASSUME IInv, NEW c \in CPUs, NEW t, Allows(c, t), NEW d \in CPUs \ {c}
  PROVE  KnowsRight(d, frame[d], t)
<1> DEFINE f == frame[d]
           s == State
<1>1. KnowsRight(d, f, s) /\ FrameRight(d, f) /\ LocksRight(f, HeldBy(d)) /\ d # c /\ d # None
  BY ThreadsAssumption DEF IInv, CallRight
<1> HIDE DEF s
<1>2. \A r \in HeldBy(d) : r \in CPUs /\ KeptQueue(s, t, r) /\ Current(t, r) = Current(s, r)
  BY <1>1 DEF HeldBy, Own, Allows, s
<1> HIDE DEF f
<1>3. f.op # "schedule" => t.task[Current(t, d)].on_rq
  BY <1>1 DEF Allows, KnowsRight, s
<1>4. f.pc = "push" => (f.p # None => f.p \in ToSet(t.rq[f.rq].pushable))
  <2> SUFFICES ASSUME f.pc = "push", f.p # None PROVE f.p \in ToSet(t.rq[f.rq].pushable)
    OBVIOUS
  <2>1. f.rq \in HeldBy(d) /\ f.p \in ToSet(s.rq[f.rq].pushable)
    BY <1>1 DEF LocksRight, KnowsRight
  <2> QED BY <1>2, <2>1 DEF KeptQueue
<1>5. ASSUME f.rq \in HeldBy(d), Movable(s, f.p, f.rq)
      PROVE  Movable(t, f.p, f.rq) /\ t.task[f.p].cpus_allowed = s.task[f.p].cpus_allowed
  BY <1>2, <1>5 DEF KeptQueue, Movable
<1>6. f.pc = "find" => Movable(t, f.p, f.rq)
  BY <1>1, <1>5 DEF LocksRight, KnowsRight
<1>7. f.pc = "push_lock" => f.dropped \/ (Movable(t, f.p, f.rq) /\ f.other \in t.task[f.p].cpus_allowed)
  <2> SUFFICES ASSUME f.pc = "push_lock", ~ f.dropped
               PROVE  Movable(t, f.p, f.rq) /\ f.other \in t.task[f.p].cpus_allowed
    OBVIOUS
  <2>1. f.rq \in HeldBy(d)
    BY <1>1 DEF LocksRight, TwoLocks
  <2>2. Movable(s, f.p, f.rq) /\ f.other \in s.task[f.p].cpus_allowed
    BY <1>1 DEF KnowsRight
  <2> QED BY <1>5, <2>1, <2>2
<1> QED BY <1>3, <1>4, <1>6, <1>7 DEF KnowsRight, f

\* The invariant holds after a step of CPU c that ends in frame f with the locks
\* held, in a state that it may come to.
LEMMA Stays ==
  ASSUME IInv, NEW c \in CPUs, NEW t, Allows(c, t), NEW f \in Frame, NEW held \in SUBSET Own(c),
         LocksRight(f, held), CallRight(c, f, t),
         task' = t.task, rq' = t.rq, rd' = t.rd, left' \cup pulled' \subseteq Tasks,
         frame' = [frame EXCEPT ![c] = f],
         lock' = [r \in CPUs |-> IF r \in held THEN c ELSE IF lock[r] = c THEN None ELSE lock[r]]
  PROVE  IInv'
<1>1. lock \in [CPUs -> CPUs \cup {None}] /\ frame \in [CPUs -> Frame]
      /\ \A d \in CPUs : LocksRight(frame[d], HeldBy(d)) /\ CallRight(d, frame[d], State)
  BY DEF IInv
<1>2. State' = t
  BY DEF State, Allows, Sound, States
<1>3. lock' \in [CPUs -> CPUs \cup {None}] /\ frame' \in [CPUs -> Frame]
  BY <1>1
<1>4. HeldBy(c)' = held
  BY <1>1, ThreadsAssumption DEF HeldBy, Own
<1>5. \A d \in CPUs \ {c} : HeldBy(d)' = HeldBy(d)
  BY <1>1, ThreadsAssumption DEF HeldBy, Own
<1>6. frame'[c] = f /\ \A d \in CPUs \ {c} : frame'[d] = frame[d]
  BY <1>1
<1>7. \A d \in CPUs : LocksRight(frame'[d], HeldBy(d)')
  BY <1>1, <1>4, <1>5, <1>6
<1>8. \A d \in CPUs : CallRight(d, frame'[d], t)
  BY <1>1, <1>6, OthersKnow DEF CallRight
<1>9. Sound(t)
  BY DEF Allows
<1> QED BY <1>2, <1>3, <1>7, <1>8, <1>9 DEF IInv

\* The auxiliary variables name tasks.
LEMMA AuxTyped ==
  ASSUME IInv, NEW s, NEW kept \in SUBSET Tasks, BecomeLeaving(s, kept)
  PROVE  left' \cup pulled' \subseteq Tasks
BY DEF IInv, BecomeLeaving

\* Continue.
LEMMA Continued ==
  ASSUME IInv, NEW c \in CPUs, NEW t, Allows(c, t), NEW f \in Frame, NEW held \in SUBSET Own(c),
         LocksRight(f, held), CallRight(c, f, t), Continue(c, t, f, held)
  PROVE  IInv'
<1>1. BecomeLeaving(t, {}) /\ frame' = [frame EXCEPT ![c] = f]
      /\ lock' = [r \in CPUs |-> IF r \in held THEN c ELSE IF lock[r] = c THEN None ELSE lock[r]]
  BY DEF Continue, Become
<1>2. task' = t.task /\ rq' = t.rq /\ rd' = t.rd
  BY <1>1 DEF BecomeLeaving
<1>3. left' \cup pulled' \subseteq Tasks
  BY <1>1, AuxTyped
<1> QED BY <1>1, <1>2, <1>3, Stays

\* A CPU between two calls.
LEMMA NoFrameRight ==
  NoFrame \in Frame /\ LocksRight(NoFrame, {}) /\ \A c : FrameRight(c, NoFrame)
BY DEF NoFrame, Frame, Pcs, LocksRight, FrameRight, PushOps, PullOps

\* Return.
LEMMA Returned ==
  ASSUME IInv, NEW c \in CPUs, NEW t, Allows(c, t), t.task[Current(t, c)].on_rq, Return(c, t)
  PROVE  IInv'
<1>1. BecomeLeaving(t, {}) /\ frame' = [frame EXCEPT ![c] = NoFrame]
      /\ lock' = [r \in CPUs |-> IF r \in {} THEN c ELSE IF lock[r] = c THEN None ELSE lock[r]]
  BY DEF Return, Become
<1>2. task' = t.task /\ rq' = t.rq /\ rd' = t.rd
  BY <1>1 DEF BecomeLeaving
<1>3. left' \cup pulled' \subseteq Tasks
  BY <1>1, AuxTyped
<1>4. CallRight(c, NoFrame, t)
  BY NoFrameRight DEF CallRight, KnowsRight, NoFrame
<1>5. {} \in SUBSET Own(c)
  OBVIOUS
<1> HIDE DEF NoFrame
<1> QED BY <1>1, <1>2, <1>3, <1>4, <1>5, NoFrameRight, Stays

\* What a CPU does under its locks, it may do.
LEMMA UnderAllows ==
  ASSUME NEW c \in CPUs, NEW L \in SUBSET Own(c), NEW t, Under(State, t, L)
  PROVE  /\ Allows(c, t)
         /\ State.task[Current(State, c)].on_rq => t.task[Current(t, c)].on_rq
BY DEF Under, Touches, Runs, Allows

-----------------------------------------------------------------------------
(* The steps of push_rt_task.                                              *)

\* CPU c comes to t, and what it runs stays on its queue.
Reaches(c, t) == Allows(c, t) /\ t.task[Current(t, c)].on_rq

\* One call more under the locks that CPU c has or can take.
LEMMA ReachesMore ==
  ASSUME NEW c \in CPUs, NEW s, Reaches(c, s), NEW L \in SUBSET Own(c), NEW t, Under(s, t, L)
  PROVE  Reaches(c, t)
<1>1. Sound(t) /\ \A d \in CPUs : Current(t, d) = Current(s, d)
  BY DEF Under, Touches
<1>2. \A r \in CPUs \ Own(c) : KeptQueue(s, t, r) /\ KeptQueue(State, s, r)
  BY DEF Under, Touches, Reaches, Allows
<1>3. \A r \in CPUs \ Own(c) : KeptQueue(State, t, r)
  BY <1>2 DEF KeptQueue
<1>4. \A d \in CPUs : s.task[Current(s, d)].on_rq => t.task[Current(t, d)].on_rq
  BY DEF Under, Runs
<1>5. \A r \in CPUs \ Own(c) : Current(t, r) = Current(State, r)
  BY <1>1 DEF Reaches, Allows
<1> QED BY <1>1, <1>3, <1>4, <1>5 DEF Reaches, Allows

\* A reschedule of what a CPU runs is asked for.
LEMMA ReachesResched ==
  ASSUME NEW c \in CPUs, NEW s, Reaches(c, s), NEW p \in Threads, NEW t, t = resched_task(s, p)
  PROVE  Reaches(c, t)
<1>1. Sound(s)
  BY DEF Reaches, Allows
<1>2. Under(s, t, {})
  BY <1>1, Resched
<1> QED BY <1>2, ReachesMore

\* What a state that is reached gives.
LEMMA ReachedSound ==
  ASSUME NEW c, NEW s, Reaches(c, s)
  PROVE  Sound(s) /\ s \in States /\ \A d \in CPUs : Current(s, d) \in Threads
BY ListsTyped DEF Reaches, Allows, Sound

\* Return to the caller of a push.
LEMMA PushReturned ==
  ASSUME IInv, NEW c \in CPUs, NEW s, Reaches(c, s), NEW f, f.rq \in CPUs, NEW moved,
         PushReturns(c, f, s, moved)
  PROVE  IInv'
<1>1. PICK t : (t = s \/ t = resched_task(s, Current(s, f.rq))) /\ Return(c, t)
  BY DEF PushReturns
<1>2. Reaches(c, t)
  BY <1>1, ReachesResched, ReachedSound
<1> QED BY <1>1, <1>2, Returned DEF Reaches

\* CPU c pushes from the run queue of f, which it has locked.
PushFrame(c, f) ==
  f \in Frame /\ f.rq \in Own(c) /\ f.op \in PushOps /\ (f.op = "to_rt" => f.p0 \in Tasks)

\* The next turn of the loop of push_rt_tasks.
LEMMA PushedAgain ==
  ASSUME IInv, NEW c \in CPUs, NEW s, Reaches(c, s), NEW f, PushFrame(c, f), PushAgain(c, f, s)
  PROVE  IInv'
<1>1. f.rq \in CPUs /\ f.rq \in Own(c)
  BY DEF PushFrame, Own
<1>2. CASE f.op = "to_rt"
  BY <1>1, <1>2, PushReturned DEF PushAgain
<1>3. CASE f.op # "to_rt"
  <2> DEFINE g == [f EXCEPT !.pc = "push", !.p = None, !.other = None, !.want = <<>>,
                            !.dropped = FALSE, !.tries = 0]
  <2>1. Continue(c, s, g, {f.rq})
    BY <1>3 DEF PushAgain
  <2>6. f \in Frame
    BY DEF PushFrame
  <2>7. g \in Frame
    <3>1. "push" \in Pcs /\ <<>> \in Seq(CPUs)
      BY DEF Pcs
    <3> QED BY <2>6, <3>1 DEF Frame
  <2>8. /\ g.pc = "push" /\ g.p = None /\ ~ g.dropped /\ g.rq = f.rq /\ g.op = f.op
        /\ g.p0 = f.p0
    BY <2>6 DEF Frame
  <2>2. g \in Frame /\ g.pc = "push" /\ g.p = None /\ ~ g.dropped /\ g.rq = f.rq /\ g.op = f.op
        /\ g.p0 = f.p0
    BY <2>7, <2>8
  <2> HIDE DEF g
  <2>3. LocksRight(g, {f.rq})
    BY <1>1, <2>2 DEF LocksRight
  <2>4. FrameRight(c, g)
    BY <2>2 DEF FrameRight, PushFrame, PushOps
  <2>5. KnowsRight(c, g, s)
    BY <2>2 DEF KnowsRight, Reaches
  <2> QED BY <1>1, <2>1, <2>2, <2>3, <2>4, <2>5, Continued DEF CallRight, Reaches
<1> QED BY <1>2, <1>3

\* A push that found no run queue gives the task up, or looks at the next.
LEMMA FailedPush ==
  ASSUME IInv, NEW c \in CPUs, NEW s, Reaches(c, s), NEW f, PushFrame(c, f), PushFailed(c, f, s)
  PROVE  IInv'
<1> DEFINE r == f.rq
           listed == s.rq[r].pushable
           same == s.task[f.p].cpu = r /\ listed # <<>> /\ Head(listed) = f.p
           g == [NoFrame EXCEPT !.pc = "push", !.op = f.op, !.rq = r, !.p = Head(listed), !.p0 = f.p0]
<1>1. r \in CPUs /\ r \in Own(c) /\ f \in Frame
  BY DEF PushFrame, Own
<1>2. \/ PushAgain(c, f, dequeue_pushable_task(s, r, f.p))
      \/ PushAgain(c, f, s)
      \/ listed # <<>> /\ Continue(c, s, g, {r})
  BY DEF PushFailed
<1>3. CASE PushAgain(c, f, dequeue_pushable_task(s, r, f.p))
  <2>1. PICK t : t = dequeue_pushable_task(s, r, f.p)
    OBVIOUS
  <2>2. Under(s, t, {r})
    BY <1>1, <2>1, NotPushable, ReachedSound
  <2>3. Reaches(c, t)
    BY <1>1, <2>2, ReachesMore
  <2> QED BY <1>3, <2>1, <2>3, PushedAgain
<1>4. CASE PushAgain(c, f, s)
  BY <1>4, PushedAgain
<1>5. CASE listed # <<>> /\ Continue(c, s, g, {r})
  <2>1. listed \in Seq(Tasks)
    BY <1>1, ReachedSound, ListsTyped
  <2>2. Head(listed) \in Tasks /\ Head(listed) \in ToSet(listed)
    BY <1>5, <2>1 DEF ToSet
  <2>3. /\ g \in Frame /\ g.pc = "push" /\ g.p = Head(listed) /\ ~ g.dropped /\ g.rq = r
        /\ g.op = f.op /\ g.p0 = f.p0
    <3> DEFINE first == Head(listed)
    <3>1. first \in Tasks
      BY <2>2
    <3>2. "push" \in Pcs /\ f.op \in PushOps /\ f.p0 \in Tasks \cup {None}
      BY <1>1 DEF Pcs, PushFrame, Frame
    <3>3. g = [NoFrame EXCEPT !.pc = "push", !.op = f.op, !.rq = r, !.p = first, !.p0 = f.p0]
      OBVIOUS
    <3>4. NoFrame \in Frame /\ ~ NoFrame.dropped
      BY NoFrameRight DEF NoFrame
    <3> HIDE DEF g, r, listed, first
    <3>5. g \in Frame
      BY <1>1, <3>1, <3>2, <3>3, <3>4 DEF Frame
    <3>6. g.pc = "push" /\ g.p = first /\ ~ g.dropped /\ g.rq = r /\ g.op = f.op /\ g.p0 = f.p0
      BY <3>3, <3>4 DEF Frame
    <3> QED BY <3>5, <3>6 DEF first, listed, r
  <2> HIDE DEF g
  <2>4. LocksRight(g, {r})
    BY <1>1, <2>3 DEF LocksRight
  <2>5. FrameRight(c, g)
    BY <2>3 DEF FrameRight, PushFrame, PushOps
  <2>6. KnowsRight(c, g, s)
    BY <2>2, <2>3 DEF KnowsRight, Reaches
  <2> QED BY <1>1, <1>5, <2>3, <2>4, <2>5, <2>6, Continued DEF CallRight, Reaches
<1> QED BY <1>2, <1>3, <1>4, <1>5

\* What double_lock_balance makes of frame f.
Balances(c, f, other, g) ==
  /\ g \in Frame /\ g.rq = f.rq /\ g.other = other /\ g.op = f.op /\ g.p = f.p
  /\ g.p0 = f.p0 /\ g.pc = f.pc
  /\ g.want = <<>> => ~ g.dropped /\ other \in Own(c)
  /\ g.want # <<>> => TwoLocks(g, IF g.dropped THEN {} ELSE {f.rq})

\* double_lock_balance leaves the locks still to take in order.
LEMMA Balanced ==
  ASSUME IInv, NEW c \in CPUs, NEW f \in Frame, f.rq \in CPUs, lock[f.rq] = c,
         NEW other \in CPUs \ {f.rq}, NEW g, g = double_lock_balance(f, other)
  PROVE  Balances(c, f, other, g)
<1> DEFINE r == f.rq
           ordered == IF r < other THEN <<r, other>> ELSE <<other, r>>
<1>1. r \in Nat /\ other \in Nat /\ r # other
  BY CPUsAssumption
<1>2. ASSUME NEW want \in Seq(CPUs), NEW d \in {TRUE, FALSE},
             g = [f EXCEPT !.other = other, !.want = want, !.dropped = d]
      PROVE  /\ g \in Frame /\ g.rq = f.rq /\ g.other = other /\ g.op = f.op /\ g.p = f.p
             /\ g.p0 = f.p0 /\ g.pc = f.pc /\ g.want = want /\ g.dropped = d
  BY <1>2 DEF Frame
<1>3. CASE g = [f EXCEPT !.other = other, !.want = <<>>, !.dropped = FALSE] /\ Free(other)
  <2>1. <<>> \in Seq(CPUs)
    OBVIOUS
  <2>2. /\ g \in Frame /\ g.rq = f.rq /\ g.other = other /\ g.op = f.op /\ g.p = f.p
        /\ g.p0 = f.p0 /\ g.pc = f.pc /\ g.want = <<>> /\ g.dropped = FALSE
    BY <1>2, <1>3, <2>1
  <2>3. other \in Own(c)
    BY <1>3 DEF Own, Free
  <2> QED BY <2>2, <2>3 DEF Balances
<1>4. CASE g = [f EXCEPT !.other = other, !.want = ordered, !.dropped = TRUE]
  <2>1. ordered \in Seq(CPUs) /\ ordered # <<>>
    OBVIOUS
  <2>2. /\ g \in Frame /\ g.rq = f.rq /\ g.other = other /\ g.op = f.op /\ g.p = f.p
        /\ g.p0 = f.p0 /\ g.pc = f.pc /\ g.want = ordered /\ g.dropped = TRUE
    BY <1>2, <1>4, <2>1
  <2>3. \E lo, hi \in {r, other} : lo < hi /\ ordered = <<lo, hi>>
    BY <1>1
  <2>4. TwoLocks(g, {})
    BY <2>2, <2>3 DEF TwoLocks
  <2> QED BY <2>1, <2>2, <2>4 DEF Balances
<1>5. CASE g = [f EXCEPT !.other = other, !.want = <<other>>, !.dropped = FALSE] /\ r < other
  <2>1. <<other>> \in Seq(CPUs) /\ <<other>> # <<>>
    OBVIOUS
  <2>2. /\ g \in Frame /\ g.rq = f.rq /\ g.other = other /\ g.op = f.op /\ g.p = f.p
        /\ g.p0 = f.p0 /\ g.pc = f.pc /\ g.want = <<other>> /\ g.dropped = FALSE
    BY <1>2, <1>5, <2>1
  <2>3. TwoLocks(g, {r})
    BY <1>5, <2>2 DEF TwoLocks
  <2> QED BY <2>1, <2>2, <2>3 DEF Balances
<1>6. \/ g = [f EXCEPT !.other = other, !.want = <<>>, !.dropped = FALSE] /\ Free(other)
      \/ g = [f EXCEPT !.other = other, !.want = ordered, !.dropped = TRUE]
      \/ g = [f EXCEPT !.other = other, !.want = <<other>>, !.dropped = FALSE] /\ r < other
  <2>1. CASE PREEMPT
    BY <2>1 DEF double_lock_balance
  <2>2. CASE ~ PREEMPT /\ Free(other)
    BY <2>2 DEF double_lock_balance
  <2>3. CASE ~ PREEMPT /\ ~ Free(other) /\ other < r
    <3>1. ordered = <<other, r>>
      BY <1>1, <2>3
    <3> QED BY <2>3, <3>1 DEF double_lock_balance
  <2>4. CASE ~ PREEMPT /\ ~ Free(other) /\ ~ other < r
    <3>1. r < other
      BY <1>1, <2>4
    <3> QED BY <2>4, <3>1 DEF double_lock_balance
  <2> QED BY <2>1, <2>2, <2>3, <2>4
<1> QED BY <1>3, <1>4, <1>5, <1>6

\* find_lowest_rq answers a CPU the task may use, or none.
LEMMA LowestAllowed ==
  ASSUME NEW s, Sound(s), NEW p \in Tasks, NEW c
  PROVE  find_lowest_rq(s, p, c) \in s.task[p].cpus_allowed \cup {None}
<1> DEFINE lowest == cpupri_find(s, p)
           allowed == s.task[p].cpus_allowed
<1>1. allowed \subseteq Nat /\ lowest \subseteq allowed
  BY CPUsAssumption DEF Sound, States, TaskStruct, Threads, cpupri_find
<1>2. lowest # {} => pick_optimal_cpu(c, lowest) \in lowest
  <2>1. lowest \in SUBSET Nat
    BY <1>1
  <2> HIDE DEF lowest
  <2>2. lowest # {} => Min(lowest) \in lowest
    BY <2>1, MinOfNaturals
  <2> QED BY <2>2 DEF pick_optimal_cpu
<1> HIDE DEF lowest, allowed
<1>3. find_lowest_rq(s, p, c) \in lowest \cup {None}
  BY <1>2 DEF find_lowest_rq, lowest
<1> QED BY <1>1, <1>3 DEF allowed

\* A push with both locks: the task is where it was, or it is not moved.
LEMMA LockedPush ==
  ASSUME IInv, NEW c \in CPUs, NEW s, Reaches(c, s), NEW f, PushFrame(c, f), f.p \in Tasks,
         f.other \in Own(c), f.other # f.rq,
         f.dropped \/ (Movable(s, f.p, f.rq) /\ f.other \in s.task[f.p].cpus_allowed),
         PushLocked(c, f, s)
  PROVE  IInv'
<1>1. f \in Frame /\ f.rq \in Own(c) /\ f.rq \in CPUs /\ f.other \in CPUs
  BY DEF PushFrame, Own
<1>2. CASE f.dropped /\ TaskShifted(s, f)
  BY <1>2, FailedPush DEF PushLocked
<1>3. CASE ~ (f.dropped /\ TaskShifted(s, f))
  <2>1. Movable(s, f.p, f.rq) /\ f.other \in s.task[f.p].cpus_allowed
    BY <1>3 DEF TaskShifted, Movable
  <2>2. CASE highest_prio(s, f.other) > s.task[f.p].prio
    <3>1. PushAgain(c, f, resched_task(Move(s, f.p, f.rq, f.other), Current(s, f.other)))
      BY <1>3, <2>2 DEF PushLocked
    <3>2. PICK t : t = Move(s, f.p, f.rq, f.other)
      OBVIOUS
    <3>3. Under(s, t, {f.rq, f.other})
      BY <1>1, <2>1, <3>2, Moved, ReachedSound
    <3>4. Reaches(c, t)
      BY <1>1, <3>3, ReachesMore
    <3>5. PICK u : u = resched_task(t, Current(s, f.other))
      OBVIOUS
    <3>6. Reaches(c, u)
      BY <1>1, <3>4, <3>5, ReachesResched, ReachedSound
    <3> QED BY <3>1, <3>2, <3>5, <3>6, PushedAgain
  <2>3. CASE ~ highest_prio(s, f.other) > s.task[f.p].prio /\ f.tries + 1 = RT_MAX_TRIES
    BY <1>3, <2>3, FailedPush DEF PushLocked
  <2>4. CASE ~ highest_prio(s, f.other) > s.task[f.p].prio /\ f.tries + 1 # RT_MAX_TRIES
    <3> DEFINE g == [f EXCEPT !.pc = "find", !.tries = @ + 1]
    <3>1. Continue(c, s, g, {f.rq})
      BY <1>3, <2>4 DEF PushLocked
    <3>2. g \in Frame
      <4>1. g = [f EXCEPT !.pc = "find", !.tries = f.tries + 1]
        BY <1>1 DEF Frame
      <4>2. f.tries + 1 \in Nat /\ "find" \in Pcs
        BY <1>1 DEF Frame, Pcs
      <4> HIDE DEF g
      <4> QED BY <1>1, <4>1, <4>2 DEF Frame
    <3>3. g.pc = "find" /\ g.rq = f.rq /\ g.op = f.op /\ g.p = f.p /\ g.p0 = f.p0
      BY <1>1 DEF Frame
    <3> HIDE DEF g
    <3>4. LocksRight(g, {f.rq})
      BY <1>1, <3>3 DEF LocksRight
    <3>5. FrameRight(c, g)
      BY <3>3 DEF FrameRight, PushFrame, PushOps
    <3>6. KnowsRight(c, g, s)
      BY <2>1, <3>3 DEF KnowsRight, Reaches
    <3> QED BY <1>1, <3>1, <3>2, <3>4, <3>5, <3>6, Continued DEF CallRight, Reaches
  <2> QED BY <2>2, <2>3, <2>4
<1> QED BY <1>2, <1>3

\* find_lock_lowest_rq looks for the other run queue, without its lock.
LEMMA FoundLowest ==
  ASSUME IInv, NEW c \in CPUs, Reaches(c, State), NEW f, PushFrame(c, f), lock[f.rq] = c,
         f.pc \in {"push", "find"}, Movable(State, f.p, f.rq), find_lock_lowest_rq(c, f, State)
  PROVE  IInv'
<1> DEFINE s == State
           cpu == find_lowest_rq(s, f.p, c)
           g == double_lock_balance(f, cpu)
           w == [g EXCEPT !.pc = "push_lock"]
<1>1. f \in Frame /\ f.rq \in CPUs /\ f.p \in Tasks
  BY DEF PushFrame, Own, Movable
<1>2. cpu \in s.task[f.p].cpus_allowed \cup {None} /\ s.task[f.p].cpus_allowed \subseteq CPUs
  <2>1. cpu \in s.task[f.p].cpus_allowed \cup {None}
    BY <1>1, LowestAllowed, ReachedSound
  <2>2. s \in States
    BY ReachedSound
  <2> QED BY <1>1, <2>1, <2>2 DEF States, TaskStruct, Threads
<1>3. \/ PushFailed(c, f, s)
      \/ cpu \in s.task[f.p].cpus_allowed \ {f.rq} /\ g.want = <<>> /\ PushLocked(c, g, s)
      \/ /\ cpu \in s.task[f.p].cpus_allowed \ {f.rq} /\ g.want # <<>>
         /\ Continue(c, s, w, IF g.dropped THEN {} ELSE {f.rq})
  BY <1>2 DEF find_lock_lowest_rq
<1> HIDE DEF cpu, g, s
<1>4. CASE PushFailed(c, f, s)
  BY <1>4, FailedPush DEF s
<1>5. ASSUME cpu \in s.task[f.p].cpus_allowed \ {f.rq}
      PROVE  Balances(c, f, cpu, g)
  <2>1. cpu \in CPUs \ {f.rq}
    BY <1>2, <1>5
  <2>2. g = double_lock_balance(f, cpu)
    BY DEF g
  <2> QED BY <1>1, <2>1, <2>2, Balanced
<1>6. CASE cpu \in s.task[f.p].cpus_allowed \ {f.rq} /\ g.want = <<>> /\ PushLocked(c, g, s)
  <2>1. PushFrame(c, g) /\ g.p \in Tasks /\ g.other \in Own(c) /\ g.other # g.rq
    BY <1>1, <1>5, <1>6 DEF PushFrame, Balances
  <2>2. Movable(s, g.p, g.rq) /\ g.other \in s.task[g.p].cpus_allowed
    BY <1>5, <1>6 DEF s, Balances
  <2> QED BY <1>6, <2>1, <2>2, LockedPush DEF s
<1>7. CASE /\ cpu \in s.task[f.p].cpus_allowed \ {f.rq} /\ g.want # <<>>
           /\ Continue(c, s, w, IF g.dropped THEN {} ELSE {f.rq})
  <2> DEFINE held == IF g.dropped THEN {} ELSE {f.rq}
  <2>1. w \in Frame
    BY <1>5, <1>7 DEF Balances, Frame, Pcs
  <2>2. /\ w.pc = "push_lock" /\ w.rq = f.rq /\ w.other = cpu /\ w.op = f.op /\ w.p = f.p
        /\ w.p0 = f.p0 /\ w.want = g.want /\ w.dropped = g.dropped
    BY <1>5, <1>7 DEF Balances, Frame
  <2> HIDE DEF w
  <2>3. LocksRight(w, held)
    <3>1. TwoLocks(w, held)
      BY <1>5, <1>7, <2>2 DEF Balances, TwoLocks
    <3> QED BY <1>1, <1>2, <1>7, <2>2, <3>1 DEF LocksRight
  <2>4. FrameRight(c, w)
    BY <1>1, <2>2 DEF FrameRight, PushFrame, PushOps
  <2>5. KnowsRight(c, w, s)
    BY <1>7, <2>2 DEF KnowsRight, Reaches, s
  <2>6. held \in SUBSET Own(c)
    BY <1>1 DEF Own
  <2>7. Allows(c, s)
    BY DEF Reaches, s
  <2>8. Continue(c, s, w, held)
    BY <1>7
  <2> HIDE DEF held
  <2> QED BY <2>1, <2>3, <2>4, <2>5, <2>6, <2>7, <2>8, Continued DEF CallRight
<1> QED BY <1>3, <1>4, <1>6, <1>7

\* Between two calls of CPU c, and in a call but schedule, its state is reached.
LEMMA ReachedAtOnce ==
  ASSUME IInv, NEW c \in CPUs
  PROVE  /\ Sound(State) /\ Allows(c, State)
         /\ frame[c].op # "schedule" => Reaches(c, State)
<1>1. Sound(State) /\ KnowsRight(c, frame[c], State)
  BY DEF IInv, CallRight
<1>2. Under(State, State, {})
  BY <1>1, NothingDone
<1>3. Allows(c, State)
  BY <1>2, UnderAllows
<1> QED BY <1>1, <1>3 DEF Reaches, KnowsRight

\* A task on the pushable list may be moved.
LEMMA PushableMovable ==
  ASSUME NEW s, Sound(s), NEW r \in CPUs, NEW p \in ToSet(s.rq[r].pushable)
  PROVE  Movable(s, p, r) /\ rt_task(s, p) /\ Migratable(s, p)
BY DEF Sound, QueueRight, PushableRight

\* The first try of a push.
LEMMA Pushed ==
  ASSUME IInv, NEW c \in CPUs, push_rt_task(c)
  PROVE  IInv'
<1> DEFINE f == frame[c]
           s == State
           r == f.rq
           none == f.p = None /\ (~ s.rq[r].overloaded \/ s.rq[r].pushable = <<>>)
           p == IF f.p # None THEN f.p ELSE Head(s.rq[r].pushable)
           g == [f EXCEPT !.p = p]
<1>1. f \in Frame /\ LocksRight(f, HeldBy(c)) /\ CallRight(c, f, s) /\ f.pc = "push"
  BY DEF IInv, push_rt_task
<1>2. r \in CPUs /\ lock[r] = c /\ r \in Own(c) /\ f.op \in PushOps /\ (f.op = "to_rt" => f.p0 \in Tasks)
  BY <1>1 DEF LocksRight, CallRight, FrameRight, HeldBy, Own
<1>3. Reaches(c, s)
  BY <1>2, ReachedAtOnce DEF PushOps
<1>4. \/ PushReturns(c, f, s, FALSE)
      \/ PushReturns(c, f, resched_task(s, Current(s, r)), FALSE)
      \/ ~ none /\ find_lock_lowest_rq(c, g, s)
  BY DEF push_rt_task
<1>5. CASE PushReturns(c, f, s, FALSE)
  BY <1>2, <1>3, <1>5, PushReturned
<1>6. CASE PushReturns(c, f, resched_task(s, Current(s, r)), FALSE)
  <2>1. PICK t : t = resched_task(s, Current(s, r))
    OBVIOUS
  <2>2. Reaches(c, t)
    BY <1>2, <1>3, <2>1, ReachesResched, ReachedSound
  <2> QED BY <1>2, <1>6, <2>1, <2>2, PushReturned
<1>7. CASE ~ none /\ find_lock_lowest_rq(c, g, s)
  <2>1. p \in ToSet(s.rq[r].pushable)
    <3>1. CASE f.p # None
      BY <1>1, <3>1 DEF CallRight, KnowsRight
    <3>2. CASE f.p = None
      <4>1. s.rq[r].pushable # <<>> /\ s.rq[r].pushable \in Seq(Tasks)
        BY <1>2, <1>3, <1>7, <3>2, ReachedSound, ListsTyped
      <4> HIDE DEF s
      <4> QED BY <3>2, <4>1 DEF ToSet
    <3> QED BY <3>1, <3>2
  <2>2. Movable(s, p, r)
    BY <1>2, <1>3, <2>1, PushableMovable, ReachedSound
  <2> HIDE DEF p
  <2>3. p \in Tasks
    BY <2>2 DEF Movable
  <2>4. g \in Frame /\ g.p = p /\ g.rq = r /\ g.op = f.op /\ g.p0 = f.p0 /\ g.pc = f.pc
    BY <1>1, <2>3 DEF Frame
  <2> HIDE DEF g
  <2>5. PushFrame(c, g) /\ lock[g.rq] = c /\ g.pc \in {"push", "find"} /\ Movable(State, g.p, g.rq)
    BY <1>1, <1>2, <2>2, <2>4 DEF PushFrame
  <2> QED BY <1>3, <1>7, <2>5, FoundLowest
<1> QED BY <1>4, <1>5, <1>6, <1>7

\* A further try.
LEMMA PushedOn ==
  ASSUME IInv, NEW c \in CPUs, find_again(c)
  PROVE  IInv'
<1> DEFINE f == frame[c]
<1>1. /\ f \in Frame /\ LocksRight(f, HeldBy(c)) /\ CallRight(c, f, State) /\ f.pc = "find"
      /\ find_lock_lowest_rq(c, f, State)
  BY DEF IInv, find_again
<1>2. /\ f.rq \in CPUs /\ lock[f.rq] = c /\ f.rq \in Own(c) /\ f.op \in PushOps
      /\ (f.op = "to_rt" => f.p0 \in Tasks) /\ Movable(State, f.p, f.rq)
  BY <1>1 DEF LocksRight, CallRight, FrameRight, KnowsRight, HeldBy, Own
<1>3. Reaches(c, State)
  BY <1>2, ReachedAtOnce DEF PushOps
<1>4. PushFrame(c, f)
  BY <1>1, <1>2 DEF PushFrame
<1> HIDE DEF f
<1> QED BY <1>1, <1>2, <1>3, <1>4, FoundLowest

-----------------------------------------------------------------------------
(* The end of schedule.                                                    *)

\* Whom CPU c may switch to.
Nexts(s, c) ==
  LET fair == {p \in Tasks : s.task[p].on_rq /\ s.task[p].cpu = c /\ ~ rt_task(s, p)}
  IN CASE PicksRt(s, c) -> {Head(s.rq[c].active)}
       [] ~ PicksRt(s, c) /\ fair # {} -> fair
       [] OTHER -> {c}

\* The next task is ready on this CPU.
LEMMA NextReady ==
  ASSUME NEW s, Sound(s), NEW c \in CPUs, NEW next \in Nexts(s, c)
  PROVE  next \in Threads /\ s.task[next].cpu = c /\ s.task[next].on_rq
<1> DEFINE q == s.rq[c].active
           fair == {p \in Tasks : s.task[p].on_rq /\ s.task[p].cpu = c /\ ~ rt_task(s, p)}
<1>1. \/ q # <<>> /\ next = Head(q)
      \/ next \in fair
      \/ next = c
  BY DEF Nexts, PicksRt
<1>2. CASE q # <<>> /\ next = Head(q)
  <2>1. q \in Seq(Tasks) /\ ActiveRight(s, c)
    BY ListsTyped DEF Sound, QueueRight
  <2>2. next \in Tasks /\ next \in ToSet(q)
    BY <1>2, <2>1 DEF ToSet
  <2> QED BY <2>1, <2>2 DEF ActiveRight, Threads
<1>3. CASE next \in fair
  BY <1>3 DEF Threads
<1>4. CASE next = c
  BY <1>4 DEF Sound, ThreadsRight, Threads
<1> QED BY <1>1, <1>2, <1>3, <1>4

\* The switch and what follows it.
LEMMA SwitchMade ==
  ASSUME IInv, NEW c \in CPUs, c \in Own(c), HeldBy(c) \subseteq {c}, NEW s, Allows(c, s),
         SwitchFrom(c, s)
  PROVE  IInv'
<1> DEFINE put == PutPrev(s, c)
           picked(next) == PickNext(s, put, c, next)
           switched(next) == SetCurr(picked(next), c, next)
           post(next) == /\ next # Current(s, c) /\ rt_task(switched(next), next)
                         /\ switched(next).rq[c].pushable # <<>>
           after(next) == IF post(next) THEN [NoFrame EXCEPT !.pc = "post"] ELSE NoFrame
<1>0. PICK next \in Nexts(s, c) :
        /\ BecomeLeaving(switched(next),
                         IF next = Current(s, c) /\ PicksRt(s, c)
                         THEN ToSet(switched(next).rq[c].active) ELSE {})
        /\ frame' = [frame EXCEPT ![c] = after(next)]
        /\ lock' = [lock EXCEPT ![c] = None]
  BY DEF SwitchFrom, PutPrev, PickNext, SetCurr, Nexts
<1>15. PICK t : t = switched(next)
  OBVIOUS
<1>7. PICK f : f = after(next)
  OBVIOUS
<1>16. f = [NoFrame EXCEPT !.pc = "post"] \/ f = NoFrame
  <2> HIDE DEF post
  <2> QED BY <1>7
<1> HIDE DEF post, after, switched
<1>1. /\ BecomeLeaving(t, IF next = Current(s, c) /\ PicksRt(s, c)
                         THEN ToSet(t.rq[c].active) ELSE {})
      /\ frame' = [frame EXCEPT ![c] = f]
      /\ lock' = [lock EXCEPT ![c] = None]
  BY <1>0, <1>7, <1>15
<1>2. Sound(s)
  BY DEF Allows
<1>3. next \in Threads /\ s.task[next].cpu = c /\ s.task[next].on_rq
  BY <1>2, NextReady
<1>4. /\ Sound(t) /\ t.task = s.task /\ Current(t, c) = next
      /\ \A d \in CPUs \ {c} : t.rq[d] = s.rq[d]
  <2>1. PICK v : v = PutPrev(s, c)
    OBVIOUS
  <2>2. PICK w : w = PickNext(s, v, c, next)
    OBVIOUS
  <2>3. t = SetCurr(w, c, next)
    BY <1>15, <2>1, <2>2 DEF switched
  <2> QED BY <1>2, <1>3, <2>1, <2>2, <2>3, Switched
<1>5. Allows(c, t)
  <2>1. \A r \in CPUs \ Own(c) : t.rq[r] = s.rq[r] /\ KeptQueue(State, s, r) /\ Current(s, r) = Current(State, r)
    BY <1>4 DEF Allows
  <2>2. \A r \in CPUs \ Own(c) : KeptQueue(State, t, r) /\ Current(t, r) = Current(State, r)
    BY <1>4, <2>1 DEF KeptQueue, Current
  <2>3. \A d \in CPUs \ {c} : Current(t, d) = Current(s, d)
    BY <1>4 DEF Current
  <2> QED BY <1>4, <2>2, <2>3 DEF Allows
<1>6. t.task[Current(t, c)].on_rq
  BY <1>3, <1>4
<1>8. f \in Frame /\ f.pc \in {"none", "post"} /\ f.op = "none"
  <2>1. NoFrame \in Frame /\ NoFrame.op = "none" /\ NoFrame.pc = "none" /\ "post" \in Pcs
    BY NoFrameRight DEF NoFrame, Pcs
  <2> QED BY <1>16, <2>1 DEF Frame
<1>9. LocksRight(f, {})
  BY <1>8 DEF LocksRight
<1>10. CallRight(c, f, t)
  BY <1>6, <1>8 DEF CallRight, FrameRight, KnowsRight
<1>11. lock' = [r \in CPUs |-> IF r \in {} THEN c ELSE IF lock[r] = c THEN None ELSE lock[r]]
  <2>1. lock \in [CPUs -> CPUs \cup {None}] /\ \A r \in CPUs : lock[r] = c => r = c
    BY DEF IInv, HeldBy
  <2>2. \A r \in CPUs : lock[r] # c => r # c \/ lock[r] = None
    BY DEF Own
  <2> QED BY <1>1, <2>1, <2>2
<1>12. left' \cup pulled' \subseteq Tasks
  <2> DEFINE kept == IF next = Current(s, c) /\ PicksRt(s, c) THEN ToSet(t.rq[c].active) ELSE {}
  <2>1. t.rq[c].active \in Seq(Tasks)
    BY <1>4, ListsTyped DEF Sound
  <2>2. kept \in SUBSET Tasks
    BY <2>1 DEF ToSet
  <2> HIDE DEF kept
  <2> QED BY <1>1, <2>2, AuxTyped DEF kept
<1>13. task' = t.task /\ rq' = t.rq /\ rd' = t.rd
  BY <1>1 DEF BecomeLeaving
<1>14. frame' = [frame EXCEPT ![c] = f]
  BY <1>1
<1> QED BY <1>5, <1>8, <1>9, <1>10, <1>11, <1>12, <1>13, <1>14, Stays

\* What ran is charged, and the switch.
LEMMA Scheduled ==
  ASSUME IInv, NEW c \in CPUs, c \in Own(c), HeldBy(c) \subseteq {c}, NEW s, Allows(c, s),
         ScheduleEnd(c, s)
  PROVE  IInv'
<1>1. PICK t : t = update_curr_rt(s, c)
  OBVIOUS
<1>2. Under(s, t, {})
  BY <1>1, CurrUpdated DEF Allows
<1>3. Allows(c, t)
  <2>1. Sound(t) /\ \A d \in CPUs : Current(t, d) = Current(s, d) /\ KeptQueue(s, t, d)
    BY <1>2 DEF Under, Touches
  <2>2. \A r \in CPUs \ Own(c) : KeptQueue(State, t, r) /\ Current(t, r) = Current(State, r)
    BY <2>1 DEF Allows, KeptQueue
  <2>3. \A d \in CPUs : s.task[Current(s, d)].on_rq => t.task[Current(t, d)].on_rq
    BY <1>2 DEF Under, Runs
  <2> QED BY <2>1, <2>2, <2>3 DEF Allows
<1>4. SwitchFrom(c, t)
  BY <1>1 DEF ScheduleEnd
<1> QED BY <1>3, <1>4, SwitchMade

-----------------------------------------------------------------------------
(* The steps of pull_rt_task.                                              *)

\* CPU c pulls to the run queue of f, and comes to s.
PullFrame(c, f) ==
  /\ f \in Frame /\ f.rq \in Own(c) /\ f.op \in PullOps
  /\ f.op = "schedule" => f.rq = c
  /\ f.op \in {"prio", "from_rt"} => f.p0 \in Tasks
Pulling(c, f, s) == Allows(c, s) /\ (f.op # "schedule" => s.task[Current(s, c)].on_rq)

\* After one call more.
LEMMA PullingMore ==
  ASSUME NEW c \in CPUs, NEW f, NEW s, Pulling(c, f, s), NEW L \in SUBSET Own(c),
         NEW t, Under(s, t, L)
  PROVE  Pulling(c, f, t)
<1>1. Sound(t) /\ \A d \in CPUs : Current(t, d) = Current(s, d)
  BY DEF Under, Touches
<1>2. \A r \in CPUs \ Own(c) : KeptQueue(s, t, r) /\ KeptQueue(State, s, r)
  BY DEF Under, Touches, Pulling, Allows
<1>3. \A r \in CPUs \ Own(c) : KeptQueue(State, t, r)
  BY <1>2 DEF KeptQueue
<1>4. \A d \in CPUs : s.task[Current(s, d)].on_rq => t.task[Current(t, d)].on_rq
  BY DEF Under, Runs
<1>5. \A r \in CPUs \ Own(c) : Current(t, r) = Current(State, r)
  BY <1>1 DEF Pulling, Allows
<1> QED BY <1>1, <1>3, <1>4, <1>5 DEF Pulling, Allows

\* What the caller of a pull does when it is done.
LEMMA PullReturned ==
  ASSUME IInv, NEW c \in CPUs, NEW s, NEW f, PullFrame(c, f), HeldBy(c) = {f.rq},
         Pulling(c, f, s), PullReturns(c, f, s)
  PROVE  IInv'
<1>1. f.rq \in CPUs /\ f.rq \in Own(c) /\ Sound(s)
  BY DEF PullFrame, Own, Pulling, Allows
<1>2. CASE f.op = "schedule"
  <2>1. ScheduleEnd(c, s) /\ f.rq = c
    BY <1>2 DEF PullReturns, PullFrame
  <2> QED BY <1>1, <2>1, Scheduled DEF Pulling
<1>3. CASE f.op # "schedule"
  <2>1. Reaches(c, s)
    BY <1>3 DEF Pulling, Reaches
  <2>2. \E t : /\ Return(c, t)
               /\ \/ t = s
                  \/ t = resched_task(s, f.p0) /\ f.p0 \in Threads
                  \/ t = resched_task(s, Current(s, f.rq))
                  \/ t \in check_preempt_curr(s, f.rq, f.p0, c)
    <3>1. CASE f.op = "prio"
      BY <3>1 DEF PullReturns, PullFrame, Threads
    <3>2. CASE f.op = "from_rt" /\ f.running
      BY <3>2 DEF PullReturns
    <3>3. CASE f.op = "from_rt" /\ ~ f.running
      BY <3>3 DEF PullReturns
    <3>4. f.op \in {"prio", "from_rt"}
      BY <1>3 DEF PullFrame, PullOps
    <3> QED BY <3>1, <3>2, <3>3, <3>4
  <2>3. PICK t : /\ Return(c, t)
                 /\ \/ t = s
                    \/ t = resched_task(s, f.p0) /\ f.p0 \in Threads
                    \/ t = resched_task(s, Current(s, f.rq))
                    \/ t \in check_preempt_curr(s, f.rq, f.p0, c)
    BY <2>2
  <2>4. Reaches(c, t)
    <3>1. CASE t = s
      BY <2>1, <3>1
    <3>2. CASE t = resched_task(s, f.p0) /\ f.p0 \in Threads
      BY <2>1, <3>2, ReachesResched
    <3>3. CASE t = resched_task(s, Current(s, f.rq))
      BY <1>1, <2>1, <3>3, ReachesResched, ReachedSound
    <3>4. CASE t \in check_preempt_curr(s, f.rq, f.p0, c)
      <4>1. Under(s, t, {})
        BY <1>1, <3>4, Preempted
      <4> QED BY <2>1, <4>1, ReachesMore
    <3> QED BY <2>3, <3>1, <3>2, <3>3, <3>4
  <2> QED BY <2>3, <2>4, Returned DEF Reaches
<1> QED BY <1>2, <1>3

\* A pull with both locks.
LEMMA LockedPull ==
  ASSUME IInv, NEW c \in CPUs, NEW s, NEW f, PullFrame(c, f), f.other \in Own(c), f.other # f.rq,
         Pulling(c, f, s), PullLocked(c, f, s)
  PROVE  IInv'
<1> DEFINE r == f.rq
           src == f.other
           p == pick_next_highest_task_rt(s, src, r)
           pulls == /\ Len(s.rq[src].active) > 1
                    /\ p # None
                    /\ s.task[p].prio < highest_prio(s, r)
                    /\ s.task[p].prio >= CurrPrio(s, src)
           g == [f EXCEPT !.pc = "pull", !.want = <<>>, !.dropped = FALSE]
<1>1. r \in CPUs /\ r \in Own(c) /\ src \in CPUs /\ f \in Frame /\ Sound(s)
  BY DEF PullFrame, Own, Pulling, Allows
<1>2. \/ p # None /\ Continue(c, Move(s, p, src, r), g, {r})
      \/ Continue(c, s, g, {r})
  BY DEF PullLocked
<1> HIDE DEF p
<1>3. PICK t : /\ Continue(c, t, g, {r})
               /\ t = s \/ (p # None /\ t = Move(s, p, src, r))
  BY <1>2
<1>4. Pulling(c, f, t)
  <2>1. CASE t = s
    BY <2>1
  <2>2. CASE p # None /\ t = Move(s, p, src, r)
    <3>1. p \in ToSet(s.rq[src].active) /\ p \in Tasks /\ p # Current(s, src)
          /\ r \in s.task[p].cpus_allowed
      BY <1>1, <2>2, PickedTask DEF Sound, p
    <3>2. ActiveRight(s, src)
      BY <1>1 DEF Sound, QueueRight
    <3>3. Movable(s, p, src)
      BY <3>1, <3>2 DEF ActiveRight, Movable
    <3>4. Under(s, t, {src, r})
      BY <1>1, <2>2, <3>1, <3>3, Moved
    <3> QED BY <1>1, <3>4, PullingMore
  <2> QED BY <1>3, <2>1, <2>2
<1>5. g \in Frame
  <2>1. "pull" \in Pcs /\ <<>> \in Seq(CPUs)
    BY DEF Pcs
  <2> QED BY <1>1, <2>1 DEF Frame
<1>6. g.pc = "pull" /\ g.rq = r /\ g.op = f.op /\ g.p0 = f.p0
  BY <1>1 DEF Frame
<1> HIDE DEF g
<1>7. LocksRight(g, {r})
  BY <1>1, <1>6 DEF LocksRight
<1>8. FrameRight(c, g)
  BY <1>6 DEF FrameRight, PullFrame, PullOps
<1>9. KnowsRight(c, g, t)
  BY <1>4, <1>6 DEF KnowsRight, Pulling
<1> QED BY <1>1, <1>3, <1>4, <1>5, <1>7, <1>8, <1>9, Continued DEF CallRight, Pulling

\* One step of the walk over rto_mask.
LEMMA Pulled ==
  ASSUME IInv, NEW c \in CPUs, pull_rt_task(c)
  PROVE  IInv'
<1> DEFINE f == frame[c]
           s == State
           srcs == {src \in s.rd.rto_mask : /\ f.other # None => src > f.other
                                            /\ src # f.rq
                                            /\ s.rq[src].next < highest_prio(s, f.rq)}
           g == double_lock_balance(f, Min(srcs))
           w == [g EXCEPT !.pc = "pull_lock"]
           held == IF g.dropped THEN {} ELSE {f.rq}
<1>1. f \in Frame /\ LocksRight(f, HeldBy(c)) /\ CallRight(c, f, s) /\ f.pc = "pull"
  BY DEF IInv, pull_rt_task
<1>2. f.rq \in CPUs /\ lock[f.rq] = c /\ f.rq \in Own(c) /\ HeldBy(c) = {f.rq} /\ f.op \in PullOps
  BY <1>1 DEF LocksRight, CallRight, FrameRight, HeldBy, Own
<1>3. PullFrame(c, f)
  BY <1>1, <1>2 DEF PullFrame, CallRight, FrameRight
<1>4. Pulling(c, f, s)
  BY ReachedAtOnce DEF Pulling, Reaches
<1>5. srcs \subseteq CPUs \ {f.rq}
  BY ReachedAtOnce DEF Sound, States
<1>6. \/ PullReturns(c, f, s)
      \/ srcs # {} /\ g.want = <<>> /\ PullLocked(c, g, s)
      \/ srcs # {} /\ g.want # <<>> /\ Continue(c, s, w, held)
  BY DEF pull_rt_task
<1>7. srcs # {} => Min(srcs) \in CPUs \ {f.rq}
  <2>1. srcs \in SUBSET Nat
    BY <1>5, CPUsAssumption
  <2> HIDE DEF srcs
  <2> QED BY <1>5, <2>1, MinOfNaturals
<1> HIDE DEF srcs
<1>8. srcs # {} => Balances(c, f, Min(srcs), g)
  <2>1. g = double_lock_balance(f, Min(srcs))
    OBVIOUS
  <2> HIDE DEF f, g
  <2> QED BY <1>1, <1>2, <1>7, <2>1, Balanced
<1>9. CASE PullReturns(c, f, s)
  BY <1>2, <1>3, <1>4, <1>9, PullReturned
<1> HIDE DEF g
<1>10. CASE srcs # {} /\ g.want = <<>> /\ PullLocked(c, g, s)
  <2>1. PullFrame(c, g) /\ g.other \in Own(c) /\ g.other # g.rq
    BY <1>3, <1>7, <1>8, <1>10 DEF PullFrame, Balances
  <2>2. Pulling(c, g, s)
    BY <1>4, <1>8, <1>10 DEF Pulling, Balances
  <2> QED BY <1>10, <2>1, <2>2, LockedPull
<1>11. CASE srcs # {} /\ g.want # <<>> /\ Continue(c, s, w, held)
  <2>1. w \in Frame
    BY <1>8, <1>11 DEF Balances, Frame, Pcs
  <2>2. /\ w.pc = "pull_lock" /\ w.rq = f.rq /\ w.other = Min(srcs) /\ w.op = f.op
        /\ w.p0 = f.p0 /\ w.want = g.want /\ w.dropped = g.dropped
    BY <1>8, <1>11 DEF Balances, Frame
  <2> HIDE DEF w
  <2>3. LocksRight(w, held)
    <3>1. TwoLocks(w, held)
      BY <1>8, <1>11, <2>2 DEF Balances, TwoLocks
    <3> QED BY <1>2, <1>7, <1>11, <2>2, <3>1 DEF LocksRight
  <2>4. FrameRight(c, w)
    BY <1>3, <2>2 DEF FrameRight, PullFrame, PullOps
  <2>5. KnowsRight(c, w, s)
    BY <1>4, <2>2 DEF KnowsRight, Pulling
  <2>6. held \in SUBSET Own(c)
    BY <1>2
  <2> HIDE DEF held
  <2> QED BY <1>4, <1>11, <2>1, <2>3, <2>4, <2>5, <2>6, Continued DEF CallRight, Pulling
<1> QED BY <1>6, <1>9, <1>10, <1>11

-----------------------------------------------------------------------------
(* The locks that double_lock_balance still wants.                         *)

\* What CPU c still wants: two locks with none held, or one with the other held.
LEMMA StillWanted ==
  ASSUME NEW f \in Frame, NEW held, TwoLocks(f, held)
  PROVE  \E lo, hi \in {f.rq, f.other} :
           /\ lo < hi /\ Head(f.want) \in {lo, hi} /\ f.want # <<>>
           /\ \/ Head(f.want) = lo /\ Tail(f.want) = <<hi>> /\ held = {} /\ f.dropped
              \/ Head(f.want) = hi /\ Tail(f.want) = <<>> /\ held = {lo} /\ (f.dropped \/ lo = f.rq)
<1>1. PICK lo \in {f.rq, f.other}, hi \in {f.rq, f.other} :
        /\ lo < hi
        /\ \/ f.want = <<lo, hi>> /\ held = {} /\ f.dropped
           \/ f.want = <<hi>> /\ held = {lo} /\ (f.dropped \/ lo = f.rq)
  BY DEF TwoLocks
<1>2. CASE f.want = <<lo, hi>> /\ held = {} /\ f.dropped
  <2>1. Head(f.want) = lo /\ Tail(f.want) = <<hi>> /\ f.want # <<>>
    BY <1>2
  <2> QED BY <1>1, <1>2, <2>1
<1>3. CASE f.want = <<hi>> /\ held = {lo} /\ (f.dropped \/ lo = f.rq)
  <2>1. Head(f.want) = hi /\ Tail(f.want) = <<>> /\ f.want # <<>>
    BY <1>3
  <2> QED BY <1>1, <1>3, <2>1
<1> QED BY <1>1, <1>2, <1>3

\* The first of two locks, or the second.
LEMMA LockTaken ==
  ASSUME IInv, NEW c \in CPUs, take_lock(c)
  PROVE  IInv'
<1> DEFINE f == frame[c]
           g == [f EXCEPT !.want = Tail(@)]
           s == State
<1>1. /\ f \in Frame /\ LocksRight(f, HeldBy(c)) /\ CallRight(c, f, s)
      /\ f.pc \in {"push_lock", "pull_lock"} /\ lock[Head(f.want)] = None
  BY DEF IInv, take_lock, Free
<1>2. f.rq \in CPUs /\ f.other \in CPUs \ {f.rq} /\ TwoLocks(f, HeldBy(c))
  BY <1>1 DEF LocksRight
<1>3. PICK lo \in {f.rq, f.other}, hi \in {f.rq, f.other} :
        /\ lo < hi /\ Head(f.want) \in {lo, hi} /\ f.want # <<>>
        /\ \/ Head(f.want) = lo /\ Tail(f.want) = <<hi>> /\ HeldBy(c) = {} /\ f.dropped
           \/ /\ Head(f.want) = hi /\ Tail(f.want) = <<>> /\ HeldBy(c) = {lo}
              /\ (f.dropped \/ lo = f.rq)
  BY <1>1, <1>2, StillWanted
<1>4. lo \in CPUs /\ hi \in CPUs /\ lo # hi /\ {lo, hi} = {f.rq, f.other}
  BY <1>2, <1>3, CPUsAssumption
<1>5. Tail(f.want) \in Seq(CPUs)
  <2>1. f.want \in Seq(CPUs)
    BY <1>1 DEF Frame
  <2> QED BY <1>3, <2>1
<1>6. g \in Frame
  <2>1. g = [f EXCEPT !.want = Tail(f.want)]
    BY <1>1 DEF Frame
  <2> QED BY <1>1, <1>5, <2>1 DEF Frame
<1>7. /\ g.pc = f.pc /\ g.rq = f.rq /\ g.other = f.other /\ g.op = f.op /\ g.p = f.p
      /\ g.p0 = f.p0 /\ g.want = Tail(f.want) /\ g.dropped = f.dropped
  BY <1>1 DEF Frame
<1>8. \/ /\ g.want # <<>>
         /\ Continue(c, s, g, {Head(f.want)} \cup {r \in CPUs : lock[r] = c})
      \/ g.want = <<>> /\ f.pc = "push_lock" /\ PushLocked(c, g, s)
      \/ g.want = <<>> /\ f.pc = "pull_lock" /\ PullLocked(c, g, s)
  BY <1>1 DEF take_lock
<1> HIDE DEF g
<1>9. FrameRight(c, f) /\ KnowsRight(c, f, s)
  BY <1>1 DEF CallRight
<1>10. Sound(s) /\ Allows(c, s)
  BY ReachedAtOnce
<1> HIDE DEF f, s
<1>11. CASE /\ g.want # <<>>
            /\ Continue(c, s, g, {Head(f.want)} \cup {r \in CPUs : lock[r] = c})
  <2>1. Head(f.want) = lo /\ g.want = <<hi>> /\ HeldBy(c) = {} /\ g.dropped
    BY <1>3, <1>7, <1>11
  <2>2. {Head(f.want)} \cup {r \in CPUs : lock[r] = c} = {lo}
    BY <2>1 DEF HeldBy
  <2>3. Continue(c, s, g, {lo})
    BY <1>11, <2>2
  <2>4. TwoLocks(g, {lo})
    BY <1>3, <1>7, <2>1 DEF TwoLocks
  <2>5. LocksRight(g, {lo})
    BY <1>1, <1>2, <1>7, <2>4 DEF LocksRight
  <2>6. FrameRight(c, g)
    BY <1>7, <1>9 DEF FrameRight
  <2>7. KnowsRight(c, g, s)
    BY <1>1, <1>7, <1>9, <2>1 DEF KnowsRight
  <2>8. {lo} \in SUBSET Own(c)
    BY <1>1, <1>4, <2>1 DEF Own
  <2> QED BY <1>6, <1>10, <2>3, <2>5, <2>6, <2>7, <2>8, Continued DEF CallRight
<1>12. ASSUME g.want = <<>>
       PROVE  /\ f.rq \in Own(c) /\ f.other \in Own(c) /\ (f.dropped \/ HeldBy(c) = {f.rq})
  <2>1. Head(f.want) = hi /\ HeldBy(c) = {lo} /\ (f.dropped \/ lo = f.rq)
    <3>1. Tail(f.want) = <<>> /\ <<hi>> # <<>>
      BY <1>7, <1>12
    <3> QED BY <1>3, <3>1
  <2>2. lo \in Own(c) /\ hi \in Own(c)
    BY <1>1, <1>4, <2>1 DEF Own, HeldBy
  <2> QED BY <1>4, <2>1, <2>2
<1>13. CASE g.want = <<>> /\ f.pc = "push_lock" /\ PushLocked(c, g, s)
  <2>1. f.op \in PushOps /\ f.p \in Tasks /\ (f.op = "to_rt" => f.p0 \in Tasks)
    BY <1>9, <1>13 DEF FrameRight
  <2>2. PushFrame(c, g) /\ g.p \in Tasks /\ g.other \in Own(c) /\ g.other # g.rq
    BY <1>2, <1>6, <1>7, <1>12, <1>13, <2>1 DEF PushFrame
  <2>3. g.dropped \/ (Movable(s, g.p, g.rq) /\ g.other \in s.task[g.p].cpus_allowed)
    BY <1>7, <1>9, <1>13 DEF KnowsRight
  <2>4. Reaches(c, s)
    BY <1>9, <1>10, <2>1 DEF KnowsRight, Reaches, PushOps
  <2> QED BY <1>13, <2>2, <2>3, <2>4, LockedPush
<1>14. CASE g.want = <<>> /\ f.pc = "pull_lock" /\ PullLocked(c, g, s)
  <2>1. PullFrame(c, g) /\ g.other \in Own(c) /\ g.other # g.rq
    BY <1>2, <1>6, <1>7, <1>9, <1>12, <1>14 DEF PullFrame, FrameRight
  <2>2. Pulling(c, g, s)
    BY <1>7, <1>9, <1>10 DEF Pulling, KnowsRight
  <2> QED BY <1>14, <2>1, <2>2, LockedPull
<1> QED BY <1>8, <1>11, <1>13, <1>14

-----------------------------------------------------------------------------
(* The calls that begin.                                                   *)

\* A flag of a task.
ClearResched(s, p) == [s EXCEPT !.task[p].resched = FALSE]
SetSleeping(s, p, sleeping) == [s EXCEPT !.task[p].sleeping = sleeping]

\* schedule clears the flag of what ran.
LEMMA ReschedCleared ==
  ASSUME NEW s, Sound(s), NEW p \in Threads, NEW t, t = ClearResched(s, p)
  PROVE  Under(s, t, {}) /\ TaskStep(s, t, p) /\ Alike(s, t, p) /\ t.task[p].sleeping = s.task[p].sleeping
<1> DEFINE x == [s.task[p] EXCEPT !.resched = FALSE]
<1>1. s \in States /\ s.task[p] \in TaskStruct
  BY DEF Sound, States
<1>2. /\ x \in TaskStruct /\ x.prio = s.task[p].prio /\ x.cpu = s.task[p].cpu
      /\ x.on_rq = s.task[p].on_rq /\ x.cpus_allowed = s.task[p].cpus_allowed
      /\ x.sleeping = s.task[p].sleeping
  BY <1>1 DEF TaskStruct
<1> HIDE DEF x
<1>3. t = [s EXCEPT !.task[p] = x]
  BY DEF ClearResched, x
<1>4. TaskStep(s, t, p) /\ t.task[p] = x
  BY <1>1, <1>2, <1>3, SetTask
<1>5. TaskStep(s, t, p) /\ Alike(s, t, p) /\ t.task[p].sleeping = s.task[p].sleeping
  BY <1>2, <1>4 DEF Alike
<1>6. p \in CPUs => ~ t.task[p].sleeping
  BY <1>5 DEF Sound, ThreadsRight
<1> QED BY <1>5, <1>6, FlagsChanged

\* A task is woken, or goes to sleep.
LEMMA SleepingSet ==
  ASSUME NEW s, Sound(s), NEW p \in Tasks, NEW sleeping \in BOOLEAN,
         NEW t, t = SetSleeping(s, p, sleeping)
  PROVE  Under(s, t, {})
<1> DEFINE x == [s.task[p] EXCEPT !.sleeping = sleeping]
<1>1. s \in States /\ p \in Threads /\ s.task[p] \in TaskStruct
  BY DEF Sound, States, Threads
<1>2. /\ x \in TaskStruct /\ x.prio = s.task[p].prio /\ x.cpu = s.task[p].cpu
      /\ x.on_rq = s.task[p].on_rq /\ x.cpus_allowed = s.task[p].cpus_allowed
  BY <1>1 DEF TaskStruct
<1> HIDE DEF x
<1>3. t = [s EXCEPT !.task[p] = x]
  BY DEF SetSleeping, x
<1>4. TaskStep(s, t, p) /\ t.task[p] = x
  BY <1>1, <1>2, <1>3, SetTask
<1>5. TaskStep(s, t, p) /\ Alike(s, t, p)
  BY <1>2, <1>4 DEF Alike
<1>6. p \notin CPUs
  BY ThreadsAssumption
<1> QED BY <1>1, <1>5, <1>6, FlagsChanged

\* A push begins.
LEMMA PushBegun ==
  ASSUME IInv, NEW c \in CPUs, NEW s, Reaches(c, s), NEW r \in Own(c), NEW f \in Frame,
         f.pc = "push", f.op \in PushOps, f.op = "to_rt" => f.p0 \in Tasks, f.rq = r,
         f.p = None, ~ f.dropped, Continue(c, s, f, {r})
  PROVE  IInv'
<1>1. r \in CPUs /\ {r} \in SUBSET Own(c)
  BY DEF Own
<1>2. LocksRight(f, {r})
  BY <1>1 DEF LocksRight
<1>3. FrameRight(c, f)
  BY DEF FrameRight, PushOps
<1>4. KnowsRight(c, f, s)
  BY DEF KnowsRight, Reaches
<1> QED BY <1>1, <1>2, <1>3, <1>4, Continued DEF CallRight, Reaches

\* A pull begins.
LEMMA PullBegun ==
  ASSUME IInv, NEW c \in CPUs, NEW s, NEW r \in Own(c), NEW f, PullFrame(c, f), Pulling(c, f, s),
         f.pc = "pull", f.rq = r, Continue(c, s, f, {r})
  PROVE  IInv'
<1>1. r \in CPUs /\ {r} \in SUBSET Own(c) /\ f \in Frame
  BY DEF Own, PullFrame
<1>2. LocksRight(f, {r})
  BY <1>1 DEF LocksRight
<1>3. FrameRight(c, f)
  BY DEF FrameRight, PullFrame, PullOps
<1>4. KnowsRight(c, f, s)
  BY DEF KnowsRight, Pulling
<1> QED BY <1>1, <1>2, <1>3, <1>4, Continued DEF CallRight, Pulling

\* Of a CPU between two calls.
LEMMA IdleReaches ==
  ASSUME IInv, NEW c \in CPUs, frame[c].pc \in {"none", "waking", "post"}
  PROVE  Reaches(c, State) /\ HeldBy(c) = {}
<1>1. FrameRight(c, frame[c]) /\ LocksRight(frame[c], HeldBy(c))
  BY DEF IInv, CallRight
<1>2. frame[c].op # "schedule" /\ HeldBy(c) = {}
  BY <1>1 DEF FrameRight, LocksRight
<1> QED BY <1>2, ReachedAtOnce

\* schedule up to the switch or the pull.
LEMMA ScheduleBegun ==
  ASSUME IInv, NEW c \in CPUs, __schedule(c)
  PROVE  IInv'
<1> DEFINE prev == Current(State, c)
           w == [NoFrame EXCEPT !.pc = "pull", !.op = "schedule", !.rq = c]
<1>1. Reaches(c, State) /\ HeldBy(c) = {} /\ c \in Own(c)
  BY IdleReaches DEF __schedule, Idle, Free, Own
<1>2. Sound(State) /\ prev \in Threads /\ State.task[prev].on_rq /\ State.task[prev].cpu = c
  BY <1>1, ReachedSound DEF Reaches, Sound, PlacesRight
<1>3. PICK s : s = ClearResched(State, prev)
  OBVIOUS
<1>4. \E t : /\ t = s \/ (t = deactivate_task(s, c, prev) /\ task[prev].sleeping)
             /\ Continue(c, t, w, {c}) \/ ScheduleEnd(c, t)
  BY <1>3 DEF __schedule, ClearResched
<1>5. PICK t : /\ t = s \/ (t = deactivate_task(s, c, prev) /\ task[prev].sleeping)
               /\ Continue(c, t, w, {c}) \/ ScheduleEnd(c, t)
  BY <1>4
<1> HIDE DEF prev, w
<1>6. Under(State, s, {}) /\ TaskStep(State, s, prev) /\ Alike(State, s, prev)
  BY <1>2, <1>3, ReschedCleared
<1>7. Reaches(c, s) /\ Sound(s)
  BY <1>1, <1>6, ReachesMore, ReachedSound
<1>8. Allows(c, t)
  <2>1. CASE t = s
    BY <1>7, <2>1 DEF Reaches
  <2>2. CASE t = deactivate_task(s, c, prev) /\ task[prev].sleeping
    <3>1. prev \in Tasks
      BY <1>2, <2>2 DEF Sound, ThreadsRight, Threads, State
    <3>2. s.task[prev].cpu = c /\ s.task[prev].on_rq
      BY <1>2, <1>6 DEF Alike
    <3>3. Touches(s, t, {c}) /\ NearlySame(s, t, prev)
      BY <1>7, <2>2, <3>1, <3>2, Deactivated
    <3>4. Sound(t) /\ \A d \in CPUs : Current(t, d) = Current(s, d)
      BY <3>3 DEF Touches
    <3>5. \A r \in CPUs \ Own(c) : KeptQueue(State, t, r) /\ Current(t, r) = Current(State, r)
      <4>1. \A r \in CPUs \ Own(c) : /\ KeptQueue(State, s, r) /\ Current(s, r) = Current(State, r)
                                     /\ KeptQueue(s, t, r)
        BY <1>1, <1>7, <3>3 DEF Reaches, Allows, Touches
      <4> QED BY <3>4, <4>1 DEF KeptQueue
    <3>6. \A d \in CPUs \ {c} : Current(s, d) \in Threads \ {prev}
      BY <1>7, <3>2, ListsTyped DEF Sound, PlacesRight
    <3>7. \A d \in CPUs \ {c} : t.task[Current(t, d)].on_rq = s.task[Current(s, d)].on_rq
      BY <3>3, <3>4, <3>6 DEF NearlySame, Alike
    <3> QED BY <1>7, <3>4, <3>5, <3>7 DEF Reaches, Allows
  <2> QED BY <1>5, <2>1, <2>2
<1>9. CASE Continue(c, t, w, {c})
  <2>1. NoFrame \in Frame /\ "pull" \in Pcs
    BY NoFrameRight DEF Pcs
  <2>2. w \in Frame
    BY <2>1 DEF w, Frame, PullOps
  <2>3. w.pc = "pull" /\ w.op = "schedule" /\ w.rq = c
    BY <2>1 DEF w, Frame
  <2>4. PullFrame(c, w) /\ Pulling(c, w, t)
    BY <1>1, <1>8, <2>2, <2>3 DEF PullFrame, PullOps, Pulling
  <2> QED BY <1>1, <1>9, <2>3, <2>4, PullBegun
<1>10. CASE ScheduleEnd(c, t)
  BY <1>1, <1>8, <1>10, Scheduled
<1> QED BY <1>5, <1>9, <1>10

\* post_schedule begins to push.
LEMMA PostScheduled ==
  ASSUME IInv, NEW c \in CPUs, post_schedule_rt(c)
  PROVE  IInv'
<1> DEFINE f == [NoFrame EXCEPT !.pc = "push", !.op = "post", !.rq = c]
<1>1. /\ frame[c].pc = "post" /\ lock[c] = None /\ Continue(c, State, f, {c})
  BY DEF post_schedule_rt, Free
<1>2. Reaches(c, State) /\ c \in Own(c)
  BY <1>1, IdleReaches DEF Own
<1>3. NoFrame \in Frame /\ "push" \in Pcs /\ NoFrame.p = None /\ ~ NoFrame.dropped
  BY NoFrameRight DEF Pcs, NoFrame
<1>4. f \in Frame /\ f.pc = "push" /\ f.op = "post" /\ f.rq = c /\ f.p = None /\ ~ f.dropped
  BY <1>3 DEF Frame, PushOps
<1> HIDE DEF f
<1> QED BY <1>1, <1>2, <1>4, PushBegun DEF PushOps

\* The task that a CPU runs goes to sleep.
LEMMA SleepBegun ==
  ASSUME IInv, NEW c \in CPUs, set_current_state(c)
  PROVE  IInv'
<1> DEFINE p == Current(State, c)
           f == frame[c]
<1>1. Reaches(c, State) /\ HeldBy(c) = {} /\ p \in Tasks /\ f.pc = "none"
  BY IdleReaches DEF set_current_state, Idle
<1>2. PICK t : t = SetSleeping(State, p, TRUE)
  OBVIOUS
<1>3. t.task = task' /\ t.rq = rq' /\ t.rd = rd' /\ lock' = lock /\ frame' = frame /\ left' = left /\ pulled' = pulled
  BY <1>2 DEF set_current_state, SetSleeping, State
<1>4. Under(State, t, {})
  BY <1>1, <1>2, SleepingSet, ReachedSound
<1>5. Reaches(c, t)
  BY <1>1, <1>4, ReachesMore
<1>6. /\ f \in Frame /\ FrameRight(c, f) /\ LocksRight(f, {})
      /\ lock \in [CPUs -> CPUs \cup {None}] /\ frame \in [CPUs -> Frame]
      /\ left \cup pulled \subseteq Tasks
  BY <1>1 DEF IInv, CallRight
<1>7. lock' = [r \in CPUs |-> IF r \in {} THEN c ELSE IF lock[r] = c THEN None ELSE lock[r]]
  BY <1>1, <1>3, <1>6 DEF HeldBy
<1>8. frame' = [frame EXCEPT ![c] = f]
  BY <1>3, <1>6
<1>9. KnowsRight(c, f, t)
  BY <1>1, <1>5 DEF KnowsRight, Reaches
<1> HIDE DEF f
<1> QED BY <1>3, <1>5, <1>6, <1>7, <1>8, <1>9, Stays DEF CallRight, Reaches

-----------------------------------------------------------------------------
(* Wake-ups.                                                               *)

\* The woken task is on its queue, or is put there before it is announced.
LEMMA WokenUp ==
  ASSUME IInv, NEW c \in CPUs, NEW s, Reaches(c, s), NEW p \in Tasks, s.task[p].cpu \in Own(c),
         OutRunning(c, s, p)
  PROVE  IInv'
<1> DEFINE r == s.task[p].cpu
           w == [NoFrame EXCEPT !.pc = "push", !.op = "wake", !.rq = r]
<1>1. r \in CPUs /\ r \in Own(c) /\ Sound(s)
  BY ReachedSound DEF Own
<1>2. PICK t \in check_preempt_curr(s, r, p, c) :
        \/ Continue(c, SetSleeping(t, p, FALSE), w, {r})
        \/ Return(c, SetSleeping(t, p, FALSE))
  BY DEF OutRunning, SetSleeping
<1> HIDE DEF r
<1>3. Reaches(c, t)
  <2>1. Under(s, t, {})
    BY <1>1, <1>2, Preempted
  <2> QED BY <2>1, ReachesMore
<1>4. PICK woken : woken = SetSleeping(t, p, FALSE)
  OBVIOUS
<1>5. Reaches(c, woken)
  <2>1. FALSE \in BOOLEAN
    OBVIOUS
  <2>2. Under(t, woken, {})
    BY <1>3, <1>4, <2>1, SleepingSet, ReachedSound
  <2> QED BY <1>3, <2>2, ReachesMore
<1>6. CASE Continue(c, woken, w, {r})
  <2>1. NoFrame \in Frame /\ "push" \in Pcs /\ NoFrame.p = None /\ ~ NoFrame.dropped
    BY NoFrameRight DEF Pcs, NoFrame
  <2>2. w \in Frame /\ w.pc = "push" /\ w.op = "wake" /\ w.rq = r /\ w.p = None /\ ~ w.dropped
    BY <1>1, <2>1 DEF Frame, PushOps
  <2> HIDE DEF w
  <2> QED BY <1>1, <1>5, <1>6, <2>2, PushBegun DEF PushOps
<1>7. CASE Return(c, woken)
  BY <1>5, <1>7, Returned DEF Reaches
<1> QED BY <1>2, <1>4, <1>6, <1>7

\* The task is put on its queue.
LEMMA PutOnQueue ==
  ASSUME IInv, NEW c \in CPUs, NEW s, Reaches(c, s), NEW p \in Tasks, s.task[p].cpu \in Own(c),
         ~ s.task[p].on_rq, OutActivate(c, s, p)
  PROVE  IInv'
<1> DEFINE r == s.task[p].cpu
<1>1. r \in CPUs /\ Sound(s)
  BY ReachedSound DEF Own
<1>2. PICK t : t = activate_task(s, r, p)
  OBVIOUS
<1>3. Under(s, t, {r}) /\ SameTasks(s, t, p)
  BY <1>1, <1>2, Activated
<1>4. Reaches(c, t)
  BY <1>3, ReachesMore
<1>5. t.task[p].cpu \in Own(c)
  BY <1>3 DEF SameTasks
<1>6. OutRunning(c, t, p)
  BY <1>2 DEF OutActivate
<1> QED BY <1>4, <1>5, <1>6, WokenUp

\* select_task_rq answers CPUs that the task may use.
LEMMA SelectedAllowed ==
  ASSUME NEW s, Sound(s), NEW p \in Tasks, NEW c, NEW cpu \in select_task_rq(s, p, c)
  PROVE  cpu \in s.task[p].cpus_allowed
<1>1. s.task[p].cpu \in s.task[p].cpus_allowed
  BY DEF Sound, PlacesRight
<1>2. find_lowest_rq(s, p, c) \in s.task[p].cpus_allowed \cup {None}
  BY LowestAllowed
<1>3. \/ cpu \in s.task[p].cpus_allowed
      \/ cpu = find_lowest_rq(s, p, c) /\ find_lowest_rq(s, p, c) # None
      \/ cpu = s.task[p].cpu
  BY DEF select_task_rq
<1> QED BY <1>1, <1>2, <1>3

\* try_to_wake_up.
LEMMA Woken ==
  ASSUME IInv, NEW c \in CPUs, NEW p \in Tasks, try_to_wake_up(c, p)
  PROVE  IInv'
<1> DEFINE s == State
           r == task[p].cpu
           w == [NoFrame EXCEPT !.pc = "waking", !.p = p]
<1>1. Reaches(c, s) /\ HeldBy(c) = {}
  BY IdleReaches DEF try_to_wake_up, Idle
<1>2. r = s.task[p].cpu /\ r \in CPUs /\ lock[r] = None /\ Sound(s)
      /\ s.task[p].on_rq = task[p].on_rq
  BY <1>1, ReachedSound DEF State, States, TaskStruct, Threads, try_to_wake_up, Free
<1>3. r \in Own(c)
  BY <1>2 DEF Own
<1>4. \/ OutRunning(c, s, p)
      \/ ~ task[p].on_rq /\ OutActivate(c, s, p)
      \/ /\ ~ task[p].on_rq /\ Current(s, r) # p
         /\ \E cpu \in select_task_rq(s, p, c) : Continue(c, set_task_cpu(s, p, cpu), w, {})
  BY DEF try_to_wake_up
<1> HIDE DEF s, r
<1>5. CASE OutRunning(c, s, p)
  BY <1>1, <1>2, <1>3, <1>5, WokenUp
<1>6. CASE ~ task[p].on_rq /\ OutActivate(c, s, p)
  BY <1>1, <1>2, <1>3, <1>6, PutOnQueue
<1>7. CASE /\ ~ task[p].on_rq /\ Current(s, r) # p
           /\ \E cpu \in select_task_rq(s, p, c) : Continue(c, set_task_cpu(s, p, cpu), w, {})
  <2>1. PICK cpu \in select_task_rq(s, p, c) : Continue(c, set_task_cpu(s, p, cpu), w, {})
    BY <1>7
  <2>2. PICK t : t = set_task_cpu(s, p, cpu)
    OBVIOUS
  <2>3. cpu \in s.task[p].cpus_allowed
    BY <1>2, SelectedAllowed
  <2>4. Under(s, t, {r})
    <3>1. ~ s.task[p].on_rq /\ Current(s, s.task[p].cpu) # p
      BY <1>2, <1>7
    <3> QED BY <1>2, <2>2, <2>3, <3>1, TaskCpuSet
  <2>5. Reaches(c, t)
    BY <1>1, <1>3, <2>4, ReachesMore
  <2>6. NoFrame \in Frame /\ "waking" \in Pcs /\ NoFrame.op = "none"
    BY NoFrameRight DEF Pcs, NoFrame
  <2>7. w \in Frame /\ w.pc = "waking" /\ w.p = p /\ w.op = "none"
    BY <2>6 DEF Frame
  <2> HIDE DEF w
  <2>8. LocksRight(w, {}) /\ FrameRight(c, w)
    BY <2>7 DEF LocksRight, FrameRight
  <2>9. KnowsRight(c, w, t)
    BY <2>5, <2>7 DEF KnowsRight, Reaches
  <2>10. {} \in SUBSET Own(c)
    OBVIOUS
  <2> QED BY <2>1, <2>2, <2>5, <2>7, <2>8, <2>9, <2>10, Continued DEF CallRight, Reaches
<1> QED BY <1>4, <1>5, <1>6, <1>7

\* The wake-up on the other run queue.
LEMMA WokenThere ==
  ASSUME IInv, NEW c \in CPUs, wake_on_new_rq(c)
  PROVE  IInv'
<1> DEFINE p == frame[c].p
           s == State
           r == task[p].cpu
<1>1. Reaches(c, s) /\ HeldBy(c) = {} /\ p \in Tasks
  BY IdleReaches DEF wake_on_new_rq, IInv, CallRight, FrameRight
<1>2. r = s.task[p].cpu /\ r \in CPUs /\ lock[r] = None /\ Sound(s)
      /\ s.task[p].on_rq = task[p].on_rq
  BY <1>1, ReachedSound DEF State, States, TaskStruct, Threads, wake_on_new_rq, Free
<1>3. r \in Own(c)
  BY <1>2 DEF Own
<1>4. \/ Return(c, s)
      \/ OutRunning(c, s, p)
      \/ ~ task[p].on_rq /\ OutActivate(c, s, p)
  BY DEF wake_on_new_rq
<1> HIDE DEF s, r, p
<1>5. CASE Return(c, s)
  BY <1>1, <1>5, Returned DEF Reaches
<1>6. CASE OutRunning(c, s, p)
  BY <1>1, <1>2, <1>3, <1>6, WokenUp
<1>7. CASE ~ task[p].on_rq /\ OutActivate(c, s, p)
  BY <1>1, <1>2, <1>3, <1>7, PutOnQueue
<1> QED BY <1>4, <1>5, <1>6, <1>7

-----------------------------------------------------------------------------
(* Changes of a task.                                                      *)

\* check_class_changed, after the change.
LEMMA ClassChanged ==
  ASSUME IInv, NEW c \in CPUs, NEW s, Reaches(c, s), NEW p \in Tasks, s.task[p].cpu \in Own(c),
         NEW oldprio, NEW running \in BOOLEAN, check_class_changed(c, s, p, oldprio, running)
  PROVE  IInv'
<1> DEFINE r == s.task[p].cpu
           push == [NoFrame EXCEPT !.pc = "push", !.op = "to_rt", !.rq = r, !.p0 = p]
           pull == [NoFrame EXCEPT !.pc = "pull", !.rq = r, !.p0 = p, !.running = running]
           pulls(op) == [pull EXCEPT !.op = op]
<1>1. r \in CPUs /\ r \in Own(c) /\ Sound(s) /\ p \in Threads
  BY ReachedSound DEF Own, Threads
<1>2. \/ \E op \in {"from_rt", "prio"} : Continue(c, s, pulls(op), {r})
      \/ Continue(c, s, push, {r})
      \/ \E t : /\ Return(c, t)
                /\ \/ t = s
                   \/ t = resched_task(s, p)
                   \/ t = resched_task(s, Current(s, r))
                   \/ t \in check_preempt_curr(s, r, p, c)
  <2>1. CASE rt_prio(oldprio) /\ ~ rt_prio(s.task[p].prio)
    BY <2>1 DEF check_class_changed, switched_to_fair
  <2>2. CASE ~ rt_prio(oldprio) /\ rt_prio(s.task[p].prio)
    BY <2>2 DEF check_class_changed
  <2>3. CASE (rt_prio(oldprio) <=> rt_prio(s.task[p].prio))
    <3>1. CASE rt_prio(oldprio) /\ rt_prio(s.task[p].prio) /\ running /\ oldprio < s.task[p].prio
      BY <2>3, <3>1 DEF check_class_changed
    <3>2. CASE ~ (rt_prio(oldprio) /\ rt_prio(s.task[p].prio) /\ running /\ oldprio < s.task[p].prio)
      BY <2>3, <3>2 DEF check_class_changed
    <3> QED BY <3>1, <3>2
  <2> QED BY <2>1, <2>2, <2>3
<1> HIDE DEF r
<1>3. NoFrame \in Frame /\ "push" \in Pcs /\ "pull" \in Pcs /\ NoFrame.p = None /\ ~ NoFrame.dropped
  BY NoFrameRight DEF Pcs, NoFrame
<1>4. ASSUME NEW op \in {"from_rt", "prio"}, Continue(c, s, pulls(op), {r})
      PROVE  IInv'
  <2>1. pull \in Frame
    BY <1>1, <1>3 DEF Frame
  <2>2. pull.pc = "pull" /\ pull.rq = r /\ pull.p0 = p
    BY <1>3 DEF Frame
  <2> HIDE DEF pull
  <2> DEFINE f == pulls(op)
  <2>3. f \in Frame /\ f.pc = "pull" /\ f.rq = r /\ f.p0 = p /\ f.op = op
    BY <2>1, <2>2 DEF Frame, PullOps
  <2>4. Continue(c, s, f, {r})
    BY <1>4
  <2> HIDE DEF f
  <2>5. PullFrame(c, f) /\ Pulling(c, f, s)
    BY <1>1, <2>3 DEF PullFrame, PullOps, Pulling, Reaches
  <2> QED BY <1>1, <2>3, <2>4, <2>5, PullBegun
<1>5. CASE Continue(c, s, push, {r})
  <2>1. push \in Frame /\ push.pc = "push" /\ push.op = "to_rt" /\ push.rq = r /\ push.p0 = p
        /\ push.p = None /\ ~ push.dropped
    BY <1>1, <1>3 DEF Frame, PushOps
  <2> HIDE DEF push
  <2> QED BY <1>1, <1>5, <2>1, PushBegun DEF PushOps
<1>6. ASSUME NEW t, Return(c, t),
             \/ t = s
             \/ t = resched_task(s, p)
             \/ t = resched_task(s, Current(s, r))
             \/ t \in check_preempt_curr(s, r, p, c)
      PROVE  IInv'
  <2>1. Reaches(c, t)
    <3>1. CASE t = s
      BY <3>1
    <3>2. CASE t = resched_task(s, p)
      BY <1>1, <3>2, ReachesResched
    <3>3. CASE t = resched_task(s, Current(s, r))
      BY <1>1, <3>3, ReachesResched, ReachedSound
    <3>4. CASE t \in check_preempt_curr(s, r, p, c)
      <4>1. Under(s, t, {})
        BY <1>1, <3>4, Preempted
      <4> QED BY <4>1, ReachesMore
    <3> QED BY <1>6, <3>1, <3>2, <3>3, <3>4
  <2> QED BY <1>6, <2>1, Returned DEF Reaches
<1> QED BY <1>2, <1>4, <1>5, <1>6

\* setscheduler and rt_mutex_setprio.
LEMMA PrioGiven ==
  ASSUME IInv, NEW c \in CPUs, NEW p \in Tasks, NEW prio \in Prios, setscheduler(c, p, prio)
  PROVE  IInv'
<1> DEFINE s == State
           r == task[p].cpu
           running == Current(s, r) = p
           off == TakenOff(s, r, p)
           set == SetPrio(off, p, prio)
           unlisted == IF running /\ rt_prio(prio) THEN dequeue_pushable_task(set, r, p) ELSE set
           new == PutBack(s, unlisted, r, p)
<1>1. Reaches(c, s)
  BY IdleReaches DEF setscheduler, Idle
<1>2. r = s.task[p].cpu /\ r \in CPUs /\ lock[r] = None /\ Sound(s)
      /\ s.task[p].on_rq = task[p].on_rq
  BY <1>1, ReachedSound DEF State, States, TaskStruct, Threads, setscheduler, Free
<1>3. r \in Own(c) /\ prio \in 0 .. MAX_RT_PRIO
  BY <1>2, PriosAssumption DEF Own
<1>4. \/ task[p].on_rq /\ check_class_changed(c, activate_task(unlisted, r, p), p, task[p].prio, running)
      \/ ~ task[p].on_rq /\ Return(c, unlisted)
  BY DEF setscheduler, TakenOff, SetPrio, State
<1>5. PICK t : t = new
  OBVIOUS
<1>6. \/ check_class_changed(c, t, p, task[p].prio, running)
      \/ Return(c, t)
  <2> HIDE DEF s, r, unlisted, running
  <2> QED BY <1>2, <1>4, <1>5 DEF PutBack
<1>7. Under(s, t, {r}) /\ t.task[p].cpu = r
  <2>1. PICK a : a = off
    OBVIOUS
  <2>2. PICK b : b = SetPrio(a, p, prio)
    OBVIOUS
  <2>3. PICK d : d = unlisted
    OBVIOUS
  <2>4. d = b \/ d = dequeue_pushable_task(b, r, p)
    BY <2>1, <2>2, <2>3
  <2>5. t = PutBack(s, d, r, p) /\ a = TakenOff(s, r, p)
    BY <1>5, <2>1, <2>3
  <2>6. s.task[p].cpu = r
    BY <1>2
  <2> HIDE DEF s, r, off, unlisted, running
  <2>7. Sound(s) /\ r \in CPUs /\ prio \in 0 .. MAX_RT_PRIO
    BY <1>2, <1>3
  <2>8. ASSUME NEW x, Sound(x), NEW q \in CPUs, x.task[p].cpu = q
        PROVE  \A y, z, e, w : /\ y = TakenOff(x, q, p) /\ z = SetPrio(y, p, prio)
                               /\ e = z \/ e = dequeue_pushable_task(z, q, p)
                               /\ w = PutBack(x, e, q, p)
                               => Under(x, w, {q}) /\ w.task[p].cpu = q
    BY <2>7, <2>8, PrioChanged
  <2> QED BY <2>2, <2>4, <2>5, <2>6, <2>7, <2>8
<1> HIDE DEF s, r
<1>8. Reaches(c, t)
  BY <1>1, <1>3, <1>7, ReachesMore
<1>9. CASE check_class_changed(c, t, p, task[p].prio, running)
  <2>1. running \in BOOLEAN
    OBVIOUS
  <2> HIDE DEF running
  <2> QED BY <1>3, <1>7, <1>8, <1>9, <2>1, ClassChanged
<1>10. CASE Return(c, t)
  BY <1>8, <1>10, Returned DEF Reaches
<1> QED BY <1>6, <1>9, <1>10

\* A change by CPU c where it has no lock, in one step.
LEMMA ChangedAtOnce ==
  ASSUME IInv, NEW c \in CPUs, Interruptible(c), NEW t, Reaches(c, t),
         NEW kept \in SUBSET Tasks, BecomeLeaving(t, kept), lock' = lock, frame' = frame
  PROVE  IInv'
<1> DEFINE f == frame[c]
<1>1. HeldBy(c) = {} /\ f.pc \in {"none", "waking", "post"}
  BY IdleReaches DEF Interruptible
<1>2. task' = t.task /\ rq' = t.rq /\ rd' = t.rd
  BY DEF BecomeLeaving
<1>3. left' \cup pulled' \subseteq Tasks
  BY AuxTyped
<1>4. /\ f \in Frame /\ FrameRight(c, f) /\ LocksRight(f, {})
      /\ lock \in [CPUs -> CPUs \cup {None}] /\ frame \in [CPUs -> Frame]
  BY <1>1 DEF IInv, CallRight
<1>5. lock' = [r \in CPUs |-> IF r \in {} THEN c ELSE IF lock[r] = c THEN None ELSE lock[r]]
  BY <1>1, <1>4 DEF HeldBy
<1>6. frame' = [frame EXCEPT ![c] = f]
  BY <1>4
<1>7. KnowsRight(c, f, t)
  BY <1>1 DEF KnowsRight, Reaches
<1> HIDE DEF f
<1> QED BY <1>2, <1>3, <1>4, <1>5, <1>6, <1>7, Stays DEF CallRight, Reaches

\* set_cpus_allowed_ptr.
LEMMA AffinityGiven ==
  ASSUME IInv, NEW c \in CPUs, NEW p \in Tasks, NEW mask \in Masks, set_cpus_allowed(c, p, mask)
  PROVE  IInv'
<1> DEFINE s == State
           r == task[p].cpu
           new == SetAllowed(Recount(s, r, p, mask), p, mask)
<1>1. Interruptible(c) /\ Free(r) /\ lock' = lock /\ frame' = frame
  BY DEF set_cpus_allowed, Idle, Interruptible
<1>2. \/ r \in mask /\ Become(new)
      \/ /\ ~ task[p].on_rq /\ Current(s, r) # p
         /\ \E dest \in mask : Become(set_task_cpu(new, p, dest))
  <2> DEFINE counted == Recounted(s, Relisted(s, r, p, mask), r, p, mask)
             changes == Cardinality(mask) # Cardinality(task[p].cpus_allowed)
             t == [IF rt_task(s, p) /\ task[p].on_rq /\ changes THEN update_rt_migration(counted, r)
                   ELSE s EXCEPT !.task[p].cpus_allowed = mask]
  <2>1. \/ r \in mask /\ Become(t)
        \/ /\ ~ task[p].on_rq /\ Current(s, r) # p
           /\ \E dest \in mask : Become(set_task_cpu(t, p, dest))
    BY DEF set_cpus_allowed, Recounted, Relisted, Several, NotListed
  <2>2. State.task = task
    BY DEF State
  <2>3. t = new
    BY <2>2 DEF SetAllowed, Recount, Counting
  <2> HIDE DEF t, new
  <2> QED BY <2>1, <2>3
<1>3. Reaches(c, s)
  BY <1>1, IdleReaches DEF Interruptible
<1>4. r = s.task[p].cpu /\ r \in CPUs /\ lock[r] = None /\ Sound(s)
      /\ s.task[p].on_rq = task[p].on_rq
  BY <1>1, <1>3, ReachedSound DEF State, States, TaskStruct, Threads, Free
<1>5. r \in Own(c) /\ mask \in SUBSET CPUs
  BY <1>4, MasksAssumption DEF Own
<1> HIDE DEF s, r
<1>6. CASE r \in mask /\ Become(new)
  <2>1. PICK u : u = Recount(s, r, p, mask)
    OBVIOUS
  <2>2. PICK t : t = SetAllowed(u, p, mask)
    OBVIOUS
  <2>3. Under(s, t, {r})
    BY <1>4, <1>5, <1>6, <2>1, <2>2, AffinityKept
  <2>4. Reaches(c, t)
    BY <1>3, <1>5, <2>3, ReachesMore
  <2>5. Become(t)
    BY <1>6, <2>1, <2>2
  <2> QED BY <1>1, <2>4, <2>5, ChangedAtOnce DEF Become
<1>7. CASE /\ ~ task[p].on_rq /\ Current(s, r) # p
           /\ \E dest \in mask : Become(set_task_cpu(new, p, dest))
  <2>1. PICK dest \in mask : Become(set_task_cpu(new, p, dest))
    BY <1>7
  <2>2. Recount(s, r, p, mask) = s
    BY <1>4, <1>7 DEF Recount, Counting
  <2>3. PICK u : u = SetAllowed(s, p, mask)
    OBVIOUS
  <2>4. PICK t : t = set_task_cpu(u, p, dest)
    OBVIOUS
  <2>5. Under(s, t, {r})
    BY <1>4, <1>5, <1>7, <2>3, <2>4, AffinityMoved
  <2>6. Reaches(c, t)
    BY <1>3, <1>5, <2>5, ReachesMore
  <2>7. Become(t)
    BY <2>1, <2>2, <2>3, <2>4
  <2> QED BY <1>1, <2>6, <2>7, ChangedAtOnce DEF Become
<1> QED BY <1>2, <1>6, <1>7

-----------------------------------------------------------------------------
(* Throttling.                                                             *)

\* The runtime is used up: whoever has the lock finds what it knew.
LEMMA RanOut ==
  ASSUME IInv, NEW c \in CPUs, RunOut(c)
  PROVE  IInv'
<1> DEFINE f == frame[c]
<1>1. PICK t : t = [State EXCEPT !.rq[c].spent = TRUE]
  OBVIOUS
<1>2. /\ t.task = task' /\ t.rq = rq' /\ t.rd = rd'
      /\ lock' = lock /\ frame' = frame /\ left' = left /\ pulled' = pulled
  BY <1>1 DEF RunOut, State
<1>3. /\ Under(State, t, {}) /\ t.task = State.task
      /\ \A d \in CPUs : t.rq[d].pushable = State.rq[d].pushable
  <2>1. Sound(State)
    BY DEF IInv
  <2>2. PICK x : x = [State.rq[c] EXCEPT !.spent = TRUE]
    OBVIOUS
  <2>3. SameLists(State.rq[c], x)
    <3>1. State.rq[c] \in RunQueue
      BY <2>1 DEF Sound, States
    <3> QED BY <2>2, <3>1 DEF RunQueue, SameLists
  <2>4. /\ t = [task |-> t.task, rq |-> t.rq, rd |-> t.rd]
        /\ t.task = State.task /\ t.rd = State.rd /\ t.rq = [State.rq EXCEPT ![c] = x]
    BY <1>1, <2>2 DEF State
  <2> QED BY <2>1, <2>3, <2>4, Charged
<1>4. Allows(c, t)
  BY <1>3, UnderAllows
<1>5. /\ f \in Frame /\ FrameRight(c, f) /\ LocksRight(f, HeldBy(c)) /\ KnowsRight(c, f, State)
      /\ lock \in [CPUs -> CPUs \cup {None}] /\ frame \in [CPUs -> Frame]
      /\ left \cup pulled \subseteq Tasks /\ HeldBy(c) \in SUBSET Own(c)
  BY DEF IInv, CallRight, HeldBy, Own
<1>6. lock' = [r \in CPUs |-> IF r \in HeldBy(c) THEN c ELSE IF lock[r] = c THEN None ELSE lock[r]]
  BY <1>2, <1>5 DEF HeldBy
<1>7. frame' = [frame EXCEPT ![c] = f]
  BY <1>2, <1>5
<1> HIDE DEF f
<1>8. KnowsRight(c, f, t)
  <2>1. \A d \in CPUs : Current(t, d) = Current(State, d)
    BY <1>3 DEF Under, Touches
  <2>2. f.pc \in {"push", "find", "push_lock"} => f.rq \in CPUs
    BY <1>5 DEF LocksRight
  <2>3. f.rq \in CPUs => Movable(t, f.p, f.rq) = Movable(State, f.p, f.rq)
    BY <1>3, <2>1 DEF Movable
  <2> QED BY <1>3, <1>5, <2>1, <2>2, <2>3 DEF KnowsRight
<1> QED BY <1>2, <1>4, <1>5, <1>6, <1>7, <1>8, Stays DEF CallRight

\* scheduler_tick.
LEMMA Ticked ==
  ASSUME IInv, NEW c \in CPUs, task_tick_rt(c)
  PROVE  IInv'
<1>1. /\ Interruptible(c) /\ Become(update_curr_rt(State, c))
      /\ lock' = lock /\ frame' = frame
  BY DEF task_tick_rt
<1>2. Reaches(c, State)
  BY <1>1, IdleReaches DEF Interruptible
<1>3. PICK t : t = update_curr_rt(State, c)
  OBVIOUS
<1>4. Under(State, t, {})
  BY <1>2, <1>3, CurrUpdated, ReachedSound
<1>5. Reaches(c, t)
  BY <1>2, <1>4, ReachesMore
<1> QED BY <1>1, <1>3, <1>5, ChangedAtOnce DEF Become

\* The period timer.
LEMMA Refilled ==
  ASSUME IInv, NEW c \in CPUs, NEW r \in CPUs, do_sched_rt_period_timer(c, r)
  PROVE  IInv'
<1>1. PICK s : s = [State EXCEPT !.rq[r].spent = FALSE, !.rq[r].throttled = FALSE]
  OBVIOUS
<1>2. PICK t \in {s, resched_task(s, Current(State, r))}, kept \in {{}, ToSet(rq[r].active)} :
        BecomeLeaving(t, kept)
  BY <1>1 DEF do_sched_rt_period_timer, Become
<1>3. Interruptible(c) /\ lock' = lock /\ frame' = frame
  BY DEF do_sched_rt_period_timer
<1>4. Reaches(c, State) /\ Sound(State) /\ Current(State, r) \in Threads
  BY <1>3, IdleReaches, ReachedSound DEF Interruptible
<1>5. Under(State, s, {})
  <2>1. PICK x : x = [State.rq[r] EXCEPT !.spent = FALSE, !.throttled = FALSE]
    OBVIOUS
  <2>2. SameLists(State.rq[r], x)
    <3>1. State.rq[r] \in RunQueue
      BY <1>4 DEF Sound, States
    <3> QED BY <2>1, <3>1 DEF RunQueue, SameLists
  <2>3. /\ s = [task |-> s.task, rq |-> s.rq, rd |-> s.rd]
        /\ s.task = State.task /\ s.rd = State.rd /\ s.rq = [State.rq EXCEPT ![r] = x]
    BY <1>1, <2>1 DEF State
  <2> QED BY <1>4, <2>2, <2>3, Charged
<1>6. Reaches(c, s)
  BY <1>4, <1>5, ReachesMore
<1>7. Reaches(c, t)
  BY <1>2, <1>4, <1>6, ReachesResched
<1>8. kept \in SUBSET Tasks
  <2>1. rq[r].active \in Seq(Tasks)
    BY <1>4, ListsTyped DEF Sound, State
  <2>2. ToSet(rq[r].active) \subseteq Tasks
    BY <2>1 DEF ToSet
  <2> QED BY <1>2, <2>2
<1> QED BY <1>2, <1>3, <1>7, <1>8, ChangedAtOnce

-----------------------------------------------------------------------------
(* The theorems.                                                           *)

\* Every step keeps the invariant.
LEMMA IInvNext ==
  IInv /\ [Next]_vars => IInv'
<1> SUFFICES ASSUME IInv, [Next]_vars PROVE IInv'
  OBVIOUS
<1>1. CASE UNCHANGED vars
  <2>1. State' = State /\ \A c \in CPUs : HeldBy(c)' = HeldBy(c)
    BY <1>1 DEF vars, State, HeldBy
  <2>2. lock' = lock /\ frame' = frame /\ left' = left /\ pulled' = pulled
    BY <1>1 DEF vars
  <2> QED BY <2>1, <2>2 DEF IInv
<1>2. CASE Next
  <2>1. PICK c \in CPUs :
          \/ Step(c)
          \/ __schedule(c)
          \/ set_current_state(c)
          \/ RunOut(c) \/ task_tick_rt(c)
          \/ \E r \in CPUs : do_sched_rt_period_timer(c, r)
          \/ \E p \in Tasks : \/ try_to_wake_up(c, p)
                              \/ \E prio \in Prios : setscheduler(c, p, prio)
                              \/ \E mask \in Masks : set_cpus_allowed(c, p, mask)
    BY <1>2 DEF Next
  <2>2. CASE Step(c)
    BY <2>2, Pushed, PushedOn, Pulled, LockTaken, PostScheduled, WokenThere DEF Step
  <2>3. CASE __schedule(c)
    BY <2>3, ScheduleBegun
  <2>4. CASE set_current_state(c)
    BY <2>4, SleepBegun
  <2>5. ASSUME NEW p \in Tasks, try_to_wake_up(c, p) PROVE IInv'
    BY <2>5, Woken
  <2>6. ASSUME NEW p \in Tasks, NEW prio \in Prios, setscheduler(c, p, prio) PROVE IInv'
    BY <2>6, PrioGiven
  <2>7. ASSUME NEW p \in Tasks, NEW mask \in Masks, set_cpus_allowed(c, p, mask) PROVE IInv'
    BY <2>7, AffinityGiven
  <2>8. CASE RunOut(c) \/ task_tick_rt(c)
    BY <2>8, RanOut, Ticked
  <2>9. ASSUME NEW r \in CPUs, do_sched_rt_period_timer(c, r) PROVE IInv'
    BY <2>9, Refilled
  <2> QED BY <2>1, <2>2, <2>3, <2>4, <2>5, <2>6, <2>7, <2>8, <2>9
<1> QED BY <1>1, <1>2

\* At boot.
LEMMA IInvInit ==
  Init => IInv
<1> SUFFICES ASSUME Init PROVE IInv
  OBVIOUS
<1> DEFINE s == State
<1>1. Min(CPUs) \in CPUs
  BY CPUsAssumption, MinOfNaturals
<1>2. /\ task = [t \in Threads |->
                   IF t \in Tasks
                   THEN [prio |-> BootPrio[t], cpus_allowed |-> CPUs, cpu |-> Min(CPUs),
                         on_rq |-> FALSE, sleeping |-> TRUE, resched |-> FALSE]
                   ELSE [prio |-> MAX_RT_PRIO + 1, cpus_allowed |-> {t}, cpu |-> t,
                         on_rq |-> TRUE, sleeping |-> FALSE, resched |-> FALSE]]
      /\ rq = [c \in CPUs |-> [curr |-> c, active |-> <<>>, pushable |-> <<>>,
                               next |-> MAX_RT_PRIO, migratory |-> 0, overloaded |-> FALSE,
                               throttled |-> FALSE, spent |-> FALSE]]
      /\ rd = [rto_mask |-> {}, cpupri |-> [c \in CPUs |-> MAX_RT_PRIO]]
      /\ lock = [c \in CPUs |-> None] /\ frame = [c \in CPUs |-> NoFrame]
      /\ left = {} /\ pulled = {}
  BY DEF Init
<1>3. \A p \in Tasks : /\ p \in Threads /\ task[p].prio \in 0 .. MAX_RT_PRIO
                       /\ task[p].cpu = Min(CPUs) /\ task[p].cpus_allowed = CPUs /\ ~ task[p].on_rq
  BY <1>2, BootAssumption DEF Threads
<1>4. \A c \in CPUs : /\ c \in Threads /\ task[c].prio = MAX_RT_PRIO + 1 /\ task[c].cpu = c
                      /\ task[c].on_rq /\ ~ task[c].sleeping
  BY <1>2, ThreadsAssumption DEF Threads
<1>5. task \in [Threads -> TaskStruct]
  <2>1. \A p \in Tasks : task[p] \in TaskStruct
    BY <1>1, <1>2, <1>3, BootAssumption, PriosAssumption DEF TaskStruct, Threads
  <2>2. \A c \in CPUs : task[c] \in TaskStruct
    BY <1>2, <1>4, PriosAssumption, ThreadsAssumption DEF TaskStruct, Threads
  <2> QED BY <1>2, <2>1, <2>2 DEF Threads
<1>6. s \in States
  BY <1>2, <1>5, PriosAssumption DEF State, States, RunQueue, Threads
<1>7. \A c \in CPUs : /\ Current(s, c) = c /\ s.rq[c].active = <<>> /\ s.rq[c].pushable = <<>>
                      /\ s.rq[c].migratory = 0 /\ s.rq[c].overloaded = FALSE
                      /\ s.rd.cpupri[c] = MAX_RT_PRIO /\ c \notin s.rd.rto_mask
  BY <1>2 DEF State, Current
<1>8. s.task = task
  BY DEF State
<1> HIDE DEF s
<1>9. ThreadsRight(s) /\ PlacesRight(s)
  BY <1>1, <1>3, <1>4, <1>7, <1>8, PriosAssumption DEF ThreadsRight, PlacesRight
<1>10. ASSUME NEW c \in CPUs PROVE QueueRight(s, c)
  <2>1. ToSet(<<>>) = {}
    BY DEF ToSet
  <2>2. ActiveRight(s, c)
    BY <1>3, <1>7, <1>8, <2>1 DEF ActiveRight, SortedList, IsInjective
  <2>3. PushableRight(s, c)
    BY <1>7, <2>1 DEF PushableRight, IsInjective
  <2>4. MovableOf(s, c) = {} /\ highest_prio(s, c) = MAX_RT_PRIO
    BY <1>7, <2>1 DEF MovableOf, highest_prio
  <2>5. SeenRight(s, c)
    <3>1. s.rd.cpupri[c] = highest_prio(s, c)
      BY <1>7, <2>4
    <3>4. (c \in s.rd.rto_mask) = s.rq[c].overloaded
      <4>1. (c \in s.rd.rto_mask) = FALSE
        BY <1>7
      <4> QED BY <1>7, <4>1
    <3>2. s.rq[c].migratory = Cardinality(MovableOf(s, c))
      BY <1>7, <2>4, FS_EmptySet
    <3>3. s.rq[c].overloaded = (MovableOf(s, c) # {} /\ Len(s.rq[c].active) > 1)
      <4>1. (MovableOf(s, c) # {} /\ Len(s.rq[c].active) > 1) = FALSE
        BY <2>4
      <4> QED BY <1>7, <4>1
    <3> QED BY <3>1, <3>2, <3>3, <3>4 DEF SeenRight
  <2> QED BY <2>2, <2>3, <2>5 DEF QueueRight
<1>11. Sound(State)
  BY <1>6, <1>9, <1>10 DEF Sound, s
<1>12. \A c \in CPUs : HeldBy(c) = {} /\ frame[c] = NoFrame /\ KnowsRight(c, NoFrame, State)
  <2>1. \A c \in CPUs : HeldBy(c) = {}
    BY <1>2, ThreadsAssumption DEF HeldBy
  <2>2. \A c \in CPUs : State.task[Current(State, c)].on_rq
    BY <1>4, <1>7, <1>8 DEF s
  <2>3. NoFrame.pc = "none"
    BY DEF NoFrame
  <2> QED BY <1>2, <2>1, <2>2, <2>3 DEF KnowsRight
<1>13. lock \in [CPUs -> CPUs \cup {None}] /\ frame \in [CPUs -> Frame]
  BY <1>2, NoFrameRight
<1> QED BY <1>2, <1>11, <1>12, <1>13, NoFrameRight DEF IInv, CallRight

\* The invariant holds always.
LEMMA IInvAlways ==
  Spec => []IInv
BY IInvInit, IInvNext, PTL DEF Spec

\* However pushes, pulls, wake-ups and changes interleave, a real-time task is
\* on the array of its own CPU only, once, and on a CPU it may use; nobody runs
\* the task of another CPU (the rechecks of find_lock_lowest_rq,
\* sched_rt.c:1244, after it dropped the lock).
THEOREM QueuesAlwaysSound ==
  Spec => []QueuesSound
<1>1. IInv => QueuesSound
  <2> SUFFICES ASSUME IInv PROVE QueuesSound
    OBVIOUS
  <2>1. /\ State \in States /\ ThreadsRight(State) /\ PlacesRight(State)
        /\ \A c \in CPUs : ActiveRight(State, c)
    BY DEF IInv, Sound, QueueRight
  <2>2. State.task = task /\ State.rq = rq /\ State.rd = rd
    BY DEF State
  <2>3. /\ lock \in [CPUs -> CPUs \cup {None}] /\ left \cup pulled \subseteq Tasks
        /\ \A c \in CPUs : frame[c].pc \in Pcs
    BY DEF IInv, Frame
  <2>4. ASSUME NEW c \in CPUs
        PROVE  /\ rq[c].curr \in Threads
               /\ ToSet(rq[c].active) \cup ToSet(rq[c].pushable) \subseteq Tasks
               /\ rq[c].next \in 0 .. MAX_RT_PRIO
               /\ rq[c].migratory \in Int /\ rq[c].overloaded \in BOOLEAN
    BY <2>1, <2>2 DEF States, RunQueue, ToSet
  <2>5. /\ task \in [Threads -> TaskStruct] /\ DOMAIN rq = CPUs
        /\ rd.rto_mask \subseteq CPUs /\ rd.cpupri \in [CPUs -> 0 .. MAX_RT_PRIO]
    BY <2>1, <2>2 DEF States
  <2>6. TypeOK
    BY <2>3, <2>4, <2>5 DEF TypeOK
  <2>7. OnePlace
    <3>1. ASSUME NEW c \in CPUs
          PROVE  /\ IsInjective(rq[c].active)
                 /\ \A p \in ToSet(rq[c].active) : task[p].cpu = c /\ task[p].on_rq
                 /\ task[rq[c].curr].cpu = c
      BY <2>1, <2>2, <2>4 DEF ActiveRight, PlacesRight, Current
    <3>2. ASSUME NEW p \in Tasks, task[p].on_rq
          PROVE  /\ task[p].cpu \in task[p].cpus_allowed
                 /\ rt_task(State, p) => p \in ToSet(rq[task[p].cpu].active)
      <4>1. task[p].cpu \in task[p].cpus_allowed /\ task[p].cpu \in CPUs
        BY <2>1, <2>2, <2>5 DEF PlacesRight, TaskStruct, Threads
      <4> QED BY <2>1, <2>2, <3>2, <4>1 DEF ActiveRight
    <3> QED BY <3>1, <3>2 DEF OnePlace
  <2> QED BY <2>6, <2>7 DEF QueuesSound
<1> QED BY <1>1, IInvAlways, PTL

\* The BUG_ONs of pick_next_pushable_task (sched_rt.c:1289) never fire, and what
\* the other CPUs read without the lock is what the queue holds.
THEOREM OffersAlwaysSound ==
  Spec => []OffersSound
<1>1. IInv => OffersSound
  <2> SUFFICES ASSUME IInv PROVE OffersSound
    OBVIOUS
  <2>1. \A c \in CPUs : PushableRight(State, c) /\ SeenRight(State, c)
    BY DEF IInv, Sound, QueueRight
  <2>2. State.task = task /\ State.rq = rq /\ State.rd = rd
    BY DEF State
  <2>3. PushableSound
    BY <2>1, <2>2 DEF PushableSound, PushableRight, Movable, Current
  <2>4. SeenByOthers
    BY <2>1, <2>2 DEF SeenByOthers, SeenRight, MovableOf
  <2> QED BY <2>3, <2>4 DEF OffersSound
<1> QED BY <1>1, IInvAlways, PTL

\* The CPUs above a.
Above(a) == {r \in CPUs : r > a}
\* The set above a higher CPU is smaller.
LEMMA FewerAbove ==
  ASSUME NEW a \in CPUs, NEW b \in CPUs, a < b
  PROVE  Cardinality(Above(b)) < Cardinality(Above(a))
<1>1. a \in Nat /\ b \in Nat /\ CPUs \subseteq Nat
  BY CPUsAssumption
<1>2. Above(b) \subseteq Above(a) /\ b \in Above(a) /\ b \notin Above(b)
  <2>1. \A r \in CPUs : r \in Nat
    BY <1>1
  <2>2. \A r \in CPUs : r > b => r > a
    BY <1>1, <2>1
  <2>3. b > a /\ ~ b > b
    BY <1>1
  <2> QED BY <2>2, <2>3 DEF Above
<1>3. IsFiniteSet(Above(a)) /\ IsFiniteSet(Above(b))
  BY CPUsAssumption, FS_Subset DEF Above
<1>4. Cardinality(Above(b)) <= Cardinality(Above(a)) /\ Cardinality(Above(b)) # Cardinality(Above(a))
  BY <1>2, <1>3, FS_Subset
<1>5. Cardinality(Above(b)) \in Nat /\ Cardinality(Above(a)) \in Nat
  BY <1>3, FS_CardinalityType
<1> QED BY <1>4, <1>5

\* The CPUs that wait for a run queue lock never wait for each other in a circle
\* (double_lock_balance, sched.c:1723): who holds the lock that one waits for,
\* and waits itself, waits for a higher one.
THEOREM NeverDeadlocks ==
  Spec => []NoDeadlock
<1>1. IInv => NoDeadlock
  <2> SUFFICES ASSUME IInv, NEW S \in (SUBSET CPUs) \ {{}},
                      \A c \in S : WaitsFor(c) \cap S # {}
               PROVE  FALSE
    BY DEF NoDeadlock
  <2> DEFINE wanted(c) == Head(frame[c].want)
             above(c) == Above(wanted(c))
  <2>1. ASSUME NEW c \in S
        PROVE  /\ frame[c].pc \in {"push_lock", "pull_lock"} /\ lock[wanted(c)] \in S
               /\ wanted(c) \in CPUs
               /\ \A r \in HeldBy(c) : r < wanted(c)
    <3>1. frame[c].pc \in {"push_lock", "pull_lock"} /\ lock[wanted(c)] \in S
      BY DEF WaitsFor
    <3>2. frame[c] \in Frame /\ TwoLocks(frame[c], HeldBy(c)) /\ frame[c].rq \in CPUs
          /\ frame[c].other \in CPUs
      BY <3>1 DEF IInv, LocksRight
    <3>3. PICK lo \in {frame[c].rq, frame[c].other}, hi \in {frame[c].rq, frame[c].other} :
            /\ lo < hi /\ wanted(c) \in {lo, hi}
            /\ HeldBy(c) = {} \/ (wanted(c) = hi /\ HeldBy(c) = {lo})
      BY <3>2, StillWanted
    <3> QED BY <3>1, <3>2, <3>3
  <2>2. ASSUME NEW c \in S
        PROVE  \E d \in S : wanted(c) < wanted(d)
    <3>1. lock[wanted(c)] \in S /\ wanted(c) \in HeldBy(lock[wanted(c)])
      BY <2>1 DEF HeldBy
    <3> QED BY <2>1, <3>1
  <2>3. \A c \in S : IsFiniteSet(above(c)) /\ Cardinality(above(c)) \in Nat
    BY CPUsAssumption, FS_Subset, FS_CardinalityType DEF Above
  <2>4. ASSUME NEW c \in S, NEW d \in S, wanted(c) < wanted(d)
        PROVE  Cardinality(above(d)) < Cardinality(above(c))
    <3>1. wanted(c) \in CPUs /\ wanted(d) \in CPUs
      BY <2>1
    <3> HIDE DEF wanted
    <3> QED BY <2>4, <3>1, FewerAbove DEF above
  <2> DEFINE sizes == {Cardinality(above(c)) : c \in S}
  <2>5. sizes \in SUBSET Nat /\ sizes # {}
    BY <2>3
  <2>6. PICK n \in sizes : \A m \in sizes : n <= m
    <3> HIDE DEF sizes
    <3> QED BY <2>5, MinOfNaturals
  <2>7. PICK c \in S : n = Cardinality(above(c))
    BY DEF sizes
  <2>8. PICK d \in S : wanted(c) < wanted(d)
    BY <2>2
  <2>9. Cardinality(above(d)) < Cardinality(above(c)) /\ Cardinality(above(d)) \in sizes
    BY <2>4, <2>8
  <2>10. Cardinality(above(d)) \in Nat /\ Cardinality(above(c)) \in Nat
    BY <2>3
  <2> HIDE DEF above
  <2> QED BY <2>6, <2>7, <2>9, <2>10
<1> QED BY <1>1, IInvAlways, PTL

=============================================================================
