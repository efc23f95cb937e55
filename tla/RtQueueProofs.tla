---------------------------- MODULE RtQueueProofs ----------------------------
(***************************************************************************)
(* Lemmas about the operators of RtQueue.tla: what enqueuing and dequeuing *)
(* do to the lists, the bitmap, the counts, highest_prio and the buckets,  *)
(* for every number of tasks, priorities and buckets.                      *)
(***************************************************************************)
EXTENDS CpuSched, ListLemmas

\* sched_find_first_bit returns the least set bit, or the delimiter.
LEMMA FirstBitLeast ==
  ASSUME NEW bits \in SUBSET RtPrios
  PROVE  /\ FirstBit(bits) \in bits \cup {MAX_RT_PRIO}
         /\ \A r \in bits : FirstBit(bits) <= r
<1>1. bits \cup {MAX_RT_PRIO} \in SUBSET Nat /\ bits \cup {MAX_RT_PRIO} # {}
  BY PrioAssumption DEF RtPrios
<1> QED BY <1>1, MinOfNaturals DEF FirstBit

\* The run queue r after __enqueue_rt_entity of t on q.
Enqueued(tk, q, t, r) ==
  /\ r \in RunQueue
  /\ r.queue = [q.queue EXCEPT ![tk[t].prio] = Append(q.queue[tk[t].prio], t)]
  /\ r.bitmap = q.bitmap \cup {tk[t].prio}
  /\ r.linked = q.linked \cup {t}
  /\ r.rt_nr_running = q.rt_nr_running + 1
  /\ r.highest_prio = inc_rt_prio(q, tk[t].prio)
  /\ r.rt_nr_boosted = IF rt_se_boosted(tk, t) THEN q.rt_nr_boosted + 1 ELSE q.rt_nr_boosted
  /\ r.numInBucket = q.numInBucket
  /\ r.cfs = q.cfs /\ r.on_rq = q.on_rq /\ r.nr_running = q.nr_running
  /\ r.curr = q.curr /\ r.resched = q.resched

\* __enqueue_rt_entity changes the fields Enqueued names, as it says.
LEMMA EnqueueFields ==
  ASSUME NEW tk \in [Tasks -> Task], NEW q \in RunQueue, NEW t \in Tasks,
         tk[t].prio \in RtPrios
  PROVE  Enqueued(tk, q, t, __enqueue_rt_entity(tk, q, t))
<1> DEFINE p == tk[t].prio
           r == __enqueue_rt_entity(tk, q, t)
<1>1. Append(q.queue[p], t) \in Seq(Tasks)
  BY AppendProperties DEF RunQueue
<1> DEFINE longer == [q.queue EXCEPT ![p] = Append(q.queue[p], t)]
           high == inc_rt_prio(q, p)
           boosted == IF rt_se_boosted(tk, t) THEN q.rt_nr_boosted + 1 ELSE q.rt_nr_boosted
<1>2. high \in RtPrios \cup {MAX_RT_PRIO}
  BY DEF inc_rt_prio, Lesser, RunQueue
<1>3. r = [q EXCEPT !.queue = longer, !.bitmap = q.bitmap \cup {p},
                    !.linked = q.linked \cup {t},
                    !.rt_nr_running = q.rt_nr_running + 1, !.highest_prio = high,
                    !.rt_nr_boosted = boosted, !.timer = TRUE]
  BY DEF __enqueue_rt_entity, start_rt_bandwidth, RunQueue
<1>4. longer \in [RtPrios -> Seq(Tasks)]
  BY <1>1 DEF RunQueue
<1>5. boosted \in Int
  BY DEF RunQueue
<1> HIDE DEF longer, high, boosted, r, p
<1>6. r \in RunQueue
  <2>1. /\ q.rt_nr_running + 1 \in Int /\ q.linked \cup {t} \in SUBSET Tasks
        /\ q.bitmap \cup {p} \in SUBSET RtPrios
    BY DEF RunQueue, p
  <2> QED BY <1>2, <1>3, <1>4, <1>5, <2>1 DEF RunQueue
<1>7. /\ r.queue = longer /\ r.bitmap = q.bitmap \cup {p}
      /\ r.linked = q.linked \cup {t}
      /\ r.rt_nr_running = q.rt_nr_running + 1
      /\ r.highest_prio = high /\ r.rt_nr_boosted = boosted
      /\ r.numInBucket = q.numInBucket
      /\ r.cfs = q.cfs /\ r.on_rq = q.on_rq /\ r.nr_running = q.nr_running
      /\ r.curr = q.curr /\ r.resched = q.resched
  BY <1>3 DEF RunQueue
<1> QED BY <1>6, <1>7 DEF longer, high, boosted, Enqueued, r, p

\* The run queue r after __dequeue_rt_entity of t on q.
Dequeued(tk, q, t, r) ==
  /\ r \in RunQueue
  /\ r.queue = [k \in RtPrios |-> RemoveFirst(q.queue[k], t)]
  /\ r.bitmap = BitsLeft(q, tk[t].prio, RemoveFirst(q.queue[tk[t].prio], t))
  /\ r.linked = q.linked \ {t}
  /\ r.rt_nr_running = q.rt_nr_running - 1
  /\ r.highest_prio = dec_rt_prio(r.bitmap, r.rt_nr_running, tk[t].prio, q.highest_prio)
  /\ r.rt_nr_boosted = IF rt_se_boosted(tk, t) THEN q.rt_nr_boosted - 1 ELSE q.rt_nr_boosted
  /\ r.numInBucket = q.numInBucket
  /\ r.cfs = q.cfs /\ r.on_rq = q.on_rq /\ r.nr_running = q.nr_running
  /\ r.curr = q.curr /\ r.resched = q.resched

\* __dequeue_rt_entity changes the fields Dequeued names, as it says.
LEMMA DequeueFields ==
  ASSUME NEW tk \in [Tasks -> Task], NEW q \in RunQueue, NEW t \in Tasks,
         tk[t].prio \in RtPrios
  PROVE  Dequeued(tk, q, t, __dequeue_rt_entity(tk, q, t))
<1> DEFINE p == tk[t].prio
           r == __dequeue_rt_entity(tk, q, t)
<1> DEFINE left == [k \in RtPrios |-> RemoveFirst(q.queue[k], t)]
           bits == BitsLeft(q, p, left[p])
           high == dec_rt_prio(bits, q.rt_nr_running - 1, p, q.highest_prio)
<1>1. \A k \in RtPrios : RemoveFirst(q.queue[k], t) \in Seq(Tasks)
  <2> TAKE k \in RtPrios
  <2>1. q.queue[k] \in Seq(Tasks)
    BY DEF RunQueue
  <2>2. CASE \E i \in DOMAIN q.queue[k] : q.queue[k][i] = t
    BY <2>1, <2>2, RemoveFirstIn
  <2>3. CASE ~ \E i \in DOMAIN q.queue[k] : q.queue[k][i] = t
    BY <2>1, <2>3, RemoveFirstOut
  <2> QED BY <2>2, <2>3
<1>2. bits \in SUBSET RtPrios
  BY DEF BitsLeft, RunQueue
<1>3. high \in RtPrios \cup {MAX_RT_PRIO}
  BY <1>2, FirstBitLeast DEF dec_rt_prio, RunQueue
<1>4. left[p] = RemoveFirst(q.queue[p], t)
  OBVIOUS
<1> HIDE DEF left, high
<1>5. r = [q EXCEPT !.queue = left, !.bitmap = bits, !.linked = q.linked \ {t},
                    !.rt_nr_running = q.rt_nr_running - 1, !.highest_prio = high,
                    !.rt_nr_boosted = IF rt_se_boosted(tk, t) THEN q.rt_nr_boosted - 1
                                      ELSE q.rt_nr_boosted]
  BY DEF __dequeue_rt_entity, left, high
<1>6. left \in [RtPrios -> Seq(Tasks)]
  BY <1>1 DEF left
<1> HIDE DEF bits, r, p
<1>7. r \in RunQueue
  <2>1. (IF rt_se_boosted(tk, t) THEN q.rt_nr_boosted - 1 ELSE q.rt_nr_boosted) \in Int
    BY DEF RunQueue
  <2>2. q.rt_nr_running - 1 \in Int /\ q.linked \ {t} \in SUBSET Tasks
    BY DEF RunQueue
  <2> QED BY <1>2, <1>3, <1>5, <1>6, <2>1, <2>2 DEF RunQueue
<1>8. /\ r.queue = left /\ r.bitmap = bits /\ r.linked = q.linked \ {t}
      /\ r.rt_nr_running = q.rt_nr_running - 1 /\ r.highest_prio = high
      /\ r.rt_nr_boosted = IF rt_se_boosted(tk, t) THEN q.rt_nr_boosted - 1
                           ELSE q.rt_nr_boosted
      /\ r.numInBucket = q.numInBucket
      /\ r.cfs = q.cfs /\ r.on_rq = q.on_rq /\ r.nr_running = q.nr_running
      /\ r.curr = q.curr /\ r.resched = q.resched
  BY <1>5 DEF RunQueue
<1> QED BY <1>4, <1>7, <1>8 DEF left, high, bits, r, p, Dequeued

-----------------------------------------------------------------------------

\* Enqueuing a task that is not linked keeps the lists and the bitmap right.
LEMMA EnqueueLists ==
  ASSUME NEW tk \in [Tasks -> Task], NEW q \in RunQueue, ListsMatch(tk, q),
         NEW t \in Tasks \ q.linked, tk[t].prio \in RtPrios,
         NEW r, r = __enqueue_rt_entity(tk, q, t)
  PROVE  ListsMatch(tk, r)
<1> DEFINE p == tk[t].prio
           s == q.queue[p]
<1>1. /\ r.queue = [q.queue EXCEPT ![p] = Append(s, t)]
      /\ r.bitmap = q.bitmap \cup {p}
      /\ r.linked = q.linked \cup {t}
  <2>1. Enqueued(tk, q, t, r)
    BY EnqueueFields
  <2> QED BY <2>1 DEF Enqueued
<1>2. q.queue \in [RtPrios -> Seq(Tasks)] /\ s \in Seq(Tasks)
  BY DEF RunQueue
<1>3. /\ Append(s, t) # <<>> /\ IsInjective(Append(s, t))
      /\ ToSet(Append(s, t)) = ToSet(s) \cup {t}
  BY <1>2, AppendFresh DEF ListsMatch
<1>4. \A u \in r.linked : rt_prio(tk[u].prio)
  BY <1>1, PrioAssumption DEF ListsMatch, rt_prio, RtPrios
<1>5. ASSUME NEW k \in RtPrios
      PROVE  /\ k \in r.bitmap <=> r.queue[k] # <<>>
             /\ IsInjective(r.queue[k])
             /\ ToSet(r.queue[k]) = {u \in r.linked : tk[u].prio = k}
  <2>1. CASE k = p
    <3>1. r.queue[k] = Append(s, t)
      BY <1>1, <1>2, <2>1
    <3>2. ToSet(s) = {u \in q.linked : tk[u].prio = k}
      BY <2>1 DEF ListsMatch
    <3>3. {u \in r.linked : tk[u].prio = k} = {u \in q.linked : tk[u].prio = k} \cup {t}
      BY <1>1, <2>1
    <3>4. k \in r.bitmap
      BY <1>1, <2>1
    <3> QED BY <3>1, <3>2, <3>3, <3>4, <1>3
  <2>2. CASE k # p
    <3>1. r.queue[k] = q.queue[k] /\ (k \in r.bitmap <=> k \in q.bitmap)
      BY <1>1, <1>2, <2>2
    <3>2. {u \in r.linked : tk[u].prio = k} = {u \in q.linked : tk[u].prio = k}
      BY <1>1, <2>2
    <3> QED BY <3>1, <3>2 DEF ListsMatch
  <2> QED BY <2>1, <2>2
<1> QED BY <1>4, <1>5 DEF ListsMatch

\* Dequeuing a linked task keeps them right: its bit goes with the last task.
LEMMA DequeueLists ==
  ASSUME NEW tk \in [Tasks -> Task], NEW q \in RunQueue, ListsMatch(tk, q),
         NEW t \in q.linked,
         NEW r, r = __dequeue_rt_entity(tk, q, t)
  PROVE  ListsMatch(tk, r)
<1> DEFINE p == tk[t].prio
           s == q.queue[p]
<1>1. t \in Tasks /\ p \in RtPrios
  BY PrioAssumption DEF RunQueue, ListsMatch, rt_prio, RtPrios, Task, TaskPrios
<1>2. /\ r.queue = [k \in RtPrios |-> RemoveFirst(q.queue[k], t)]
      /\ r.bitmap = BitsLeft(q, p, RemoveFirst(s, t))
      /\ r.linked = q.linked \ {t}
  BY <1>1, DequeueFields DEF Dequeued
<1>3. \A k \in RtPrios : q.queue[k] \in Seq(Tasks) /\ IsInjective(q.queue[k])
  BY DEF RunQueue, ListsMatch
<1>4. \A u \in r.linked : rt_prio(tk[u].prio)
  BY <1>2 DEF ListsMatch
<1>5. ASSUME NEW k \in RtPrios
      PROVE  /\ k \in r.bitmap <=> r.queue[k] # <<>>
             /\ IsInjective(r.queue[k])
             /\ ToSet(r.queue[k]) = {u \in r.linked : tk[u].prio = k}
  <2>1. ToSet(q.queue[k]) = {u \in q.linked : tk[u].prio = k}
    BY DEF ListsMatch
  <2>2. r.queue[k] = RemoveFirst(q.queue[k], t)
    BY <1>2
  <2>3. CASE k = p
    <3>1. t \in ToSet(q.queue[k])
      BY <2>1, <2>3
    <3>2. /\ IsInjective(r.queue[k])
          /\ ToSet(r.queue[k]) = ToSet(q.queue[k]) \ {t}
      BY <3>1, <2>2, <1>3, RemoveOnce
    <3>3. {u \in r.linked : tk[u].prio = k} = {u \in q.linked : tk[u].prio = k} \ {t}
      BY <1>2
    <3>4. s # <<>>
      BY <3>1, <2>3 DEF ToSet
    <3>5. k \in q.bitmap
      BY <3>4, <2>3 DEF ListsMatch
    <3>6. k \in r.bitmap <=> r.queue[k] # <<>>
      BY <3>5, <1>2, <2>2, <2>3 DEF BitsLeft
    <3> QED BY <3>2, <3>3, <3>6, <2>1
  <2>4. CASE k # p
    <3>1. t \notin ToSet(q.queue[k])
      BY <2>1, <2>4
    <3>2. r.queue[k] = q.queue[k]
      BY <3>1, <2>2, <1>3, RemoveFirstOut DEF ToSet
    <3>3. {u \in r.linked : tk[u].prio = k} = {u \in q.linked : tk[u].prio = k}
      BY <1>2, <2>4
    <3>4. k \in r.bitmap <=> k \in q.bitmap
      BY <1>2, <2>4 DEF BitsLeft
    <3> QED BY <3>2, <3>3, <3>4 DEF ListsMatch
  <2> QED BY <2>3, <2>4
<1> QED BY <1>4, <1>5 DEF ListsMatch
-----------------------------------------------------------------------------
(* The counts, highest_prio and the buckets.                               *)

\* Sets of tasks are finite, so adding or removing a task changes their
\* cardinality by one.
LEMMA CountTask ==
  ASSUME NEW S \in SUBSET Tasks, NEW t
  PROVE  /\ Cardinality(S) \in Nat
         /\ Cardinality(S) = 0 <=> S = {}
         /\ t \notin S => Cardinality(S \cup {t}) = Cardinality(S) + 1
         /\ t \in S => Cardinality(S \ {t}) = Cardinality(S) - 1
<1>1. IsFiniteSet(S)
  BY TasksAssumption, FS_Subset
<1> QED BY <1>1, FS_CardinalityType, FS_EmptySet, FS_AddElement, FS_RemoveElement

\* Enqueuing a task that is not linked keeps rt_nr_running, rt_nr_boosted and
\* highest_prio right.
LEMMA EnqueueCounts ==
  ASSUME NEW tk \in [Tasks -> Task], NEW q \in RunQueue,
         RtCountsMatch(tk, q), HighestOf(tk, q),
         NEW t \in Tasks \ q.linked, tk[t].prio \in RtPrios,
         NEW r, r = __enqueue_rt_entity(tk, q, t)
  PROVE  RtCountsMatch(tk, r) /\ HighestOf(tk, r)
<1> DEFINE p == tk[t].prio
<1>1. /\ r.linked = q.linked \cup {t}
      /\ r.rt_nr_running = q.rt_nr_running + 1
      /\ r.highest_prio = inc_rt_prio(q, p)
      /\ r.rt_nr_boosted = IF rt_se_boosted(tk, t) THEN q.rt_nr_boosted + 1 ELSE q.rt_nr_boosted
  BY EnqueueFields DEF Enqueued
<1>2. q.linked \in SUBSET Tasks /\ BoostedOf(tk, q) \in SUBSET Tasks
  BY DEF RunQueue, BoostedOf
<1>3. r.rt_nr_running = Cardinality(r.linked)
  BY <1>1, <1>2, CountTask DEF RtCountsMatch
<1>4. r.rt_nr_boosted = Cardinality(BoostedOf(tk, r))
  <2>1. CASE rt_se_boosted(tk, t)
    <3>1. BoostedOf(tk, r) = BoostedOf(tk, q) \cup {t} /\ t \notin BoostedOf(tk, q)
      BY <1>1, <2>1 DEF BoostedOf
    <3> QED BY <3>1, <1>1, <1>2, <2>1, CountTask DEF RtCountsMatch
  <2>2. CASE ~ rt_se_boosted(tk, t)
    <3>1. BoostedOf(tk, r) = BoostedOf(tk, q)
      BY <1>1, <2>2 DEF BoostedOf
    <3> QED BY <3>1, <1>1, <2>2 DEF RtCountsMatch
  <2> QED BY <2>1, <2>2
<1>5. HighestOf(tk, r)
  <2>1. \A u \in q.linked : tk[u].prio \in Nat
    BY DEF RunQueue, Task, TaskPrios
  <2>2. q.highest_prio \in Nat /\ p \in Nat /\ p < MAX_RT_PRIO
    BY PrioAssumption DEF RunQueue, RtPrios
  <2>3. CASE q.linked = {}
    <3>1. r.highest_prio = p
      BY <1>1, <2>2, <2>3 DEF inc_rt_prio, Lesser, HighestOf
    <3>2. r.linked = {t}
      BY <1>1, <2>3
    <3>3. \A u \in r.linked : tk[u].prio = p
      BY <3>2
    <3> QED BY <3>1, <3>2, <3>3, <2>2 DEF HighestOf
  <2>4. CASE q.linked # {}
    <3>1. PICK u \in q.linked : tk[u].prio = q.highest_prio
      BY <2>4 DEF HighestOf
    <3>2. /\ r.highest_prio <= p /\ r.highest_prio <= q.highest_prio
          /\ r.highest_prio \in {p, q.highest_prio}
      BY <1>1, <2>2 DEF inc_rt_prio, Lesser
    <3>3. \A v \in r.linked : r.highest_prio <= tk[v].prio
      BY <3>2, <1>1, <2>1, <2>2 DEF HighestOf
    <3>4. \E v \in r.linked : tk[v].prio = r.highest_prio
      BY <3>1, <3>2, <1>1
    <3> QED BY <3>3, <3>4 DEF HighestOf
  <2> QED BY <2>3, <2>4
<1> QED BY <1>3, <1>4, <1>5 DEF RtCountsMatch

\* The first set bit leads to a queue of linked tasks, and none is better.
LEMMA FirstQueue ==
  ASSUME NEW tk \in [Tasks -> Task], NEW q \in RunQueue, ListsMatch(tk, q),
         q.linked # {}
  PROVE  /\ \A u \in q.linked : FirstBit(q.bitmap) <= tk[u].prio
         /\ Head(q.queue[FirstBit(q.bitmap)]) \in q.linked
         /\ tk[Head(q.queue[FirstBit(q.bitmap)])].prio = FirstBit(q.bitmap)
         /\ \E u \in q.linked : tk[u].prio = FirstBit(q.bitmap)
<1> DEFINE k == FirstBit(q.bitmap)
<1>1. q.bitmap \in SUBSET RtPrios /\ q.linked \in SUBSET Tasks
  BY DEF RunQueue
<1>2. k \in q.bitmap \cup {MAX_RT_PRIO} /\ \A b \in q.bitmap : k <= b
  BY <1>1, FirstBitLeast
<1>3. ASSUME NEW u \in q.linked PROVE tk[u].prio \in q.bitmap
  <2>1. tk[u].prio \in RtPrios
    BY <1>1, PrioAssumption DEF ListsMatch, rt_prio, RtPrios, Task, TaskPrios
  <2>2. u \in ToSet(q.queue[tk[u].prio])
    BY <2>1 DEF ListsMatch
  <2>3. q.queue[tk[u].prio] # <<>>
    BY <2>2 DEF ToSet
  <2> QED BY <2>1, <2>3 DEF ListsMatch
<1>4. k \in q.bitmap
  <2>1. PICK b \in q.bitmap : k <= b
    BY <1>2, <1>3
  <2>2. b < MAX_RT_PRIO /\ b \in Nat /\ MAX_RT_PRIO \in Nat
    BY <1>1, PrioAssumption DEF RtPrios
  <2> QED BY <1>2, <2>1, <2>2
<1>5. /\ k \in RtPrios /\ q.queue[k] \in Seq(Tasks) /\ q.queue[k] # <<>>
      /\ ToSet(q.queue[k]) = {u \in q.linked : tk[u].prio = k}
  BY <1>1, <1>4 DEF ListsMatch, RunQueue
<1> HIDE DEF k
<1>6. Head(q.queue[k]) = q.queue[k][1] /\ 1 \in DOMAIN q.queue[k]
  BY <1>5
<1>7. Head(q.queue[k]) \in ToSet(q.queue[k])
  BY <1>6 DEF ToSet
<1> QED BY <1>2, <1>3, <1>5, <1>7 DEF k

\* Dequeuing a linked task keeps them right: highest_prio is recomputed from the
\* bitmap exactly when the last task of its priority leaves.
LEMMA DequeueCounts ==
  ASSUME NEW tk \in [Tasks -> Task], NEW q \in RunQueue,
         ListsMatch(tk, q), RtCountsMatch(tk, q), HighestOf(tk, q),
         NEW t \in q.linked,
         NEW r, r = __dequeue_rt_entity(tk, q, t)
  PROVE  RtCountsMatch(tk, r) /\ HighestOf(tk, r)
<1> DEFINE p == tk[t].prio
<1>1. t \in Tasks /\ p \in RtPrios
  BY PrioAssumption DEF RunQueue, ListsMatch, rt_prio, RtPrios, Task, TaskPrios
<1>2. /\ r \in RunQueue
      /\ r.linked = q.linked \ {t}
      /\ r.rt_nr_running = q.rt_nr_running - 1
      /\ r.highest_prio = dec_rt_prio(r.bitmap, r.rt_nr_running, p, q.highest_prio)
      /\ r.rt_nr_boosted = IF rt_se_boosted(tk, t) THEN q.rt_nr_boosted - 1 ELSE q.rt_nr_boosted
  BY <1>1, DequeueFields DEF Dequeued
<1>3. /\ q.linked \in SUBSET Tasks /\ BoostedOf(tk, q) \in SUBSET Tasks
      /\ r.linked \in SUBSET Tasks /\ BoostedOf(tk, r) \in SUBSET Tasks
  BY <1>2 DEF RunQueue, BoostedOf
<1>4. r.rt_nr_running = Cardinality(r.linked)
  BY <1>2, <1>3, CountTask DEF RtCountsMatch
<1>5. r.rt_nr_boosted = Cardinality(BoostedOf(tk, r))
  <2>1. CASE rt_se_boosted(tk, t)
    <3>1. BoostedOf(tk, r) = BoostedOf(tk, q) \ {t} /\ t \in BoostedOf(tk, q)
      BY <1>2, <2>1 DEF BoostedOf
    <3> QED BY <3>1, <1>2, <1>3, <2>1, CountTask DEF RtCountsMatch
  <2>2. CASE ~ rt_se_boosted(tk, t)
    <3>1. BoostedOf(tk, r) = BoostedOf(tk, q)
      BY <1>2, <2>2 DEF BoostedOf
    <3> QED BY <3>1, <1>2, <2>2 DEF RtCountsMatch
  <2> QED BY <2>1, <2>2
<1>6. HighestOf(tk, r)
  <2>1. CASE r.linked = {}
    <3>1. r.rt_nr_running = 0
      BY <1>3, <1>4, <2>1, CountTask
    <3> QED BY <3>1, <1>2, <2>1 DEF HighestOf, dec_rt_prio
  <2>2. CASE r.linked # {} /\ p # q.highest_prio
    <3>1. r.highest_prio = q.highest_prio
      BY <1>2, <1>3, <1>4, <2>2, CountTask DEF dec_rt_prio
    <3>2. \E u \in r.linked : tk[u].prio = r.highest_prio
      BY <3>1, <1>2, <2>2 DEF HighestOf
    <3> QED BY <3>1, <3>2, <1>2 DEF HighestOf
  <2>3. CASE r.linked # {} /\ p = q.highest_prio
    <3>1. r.highest_prio = FirstBit(r.bitmap)
      BY <1>2, <1>3, <1>4, <2>3, CountTask DEF dec_rt_prio
    <3>2. ListsMatch(tk, r)
      BY DequeueLists
    <3>3. /\ \A u \in r.linked : FirstBit(r.bitmap) <= tk[u].prio
          /\ \E u \in r.linked : tk[u].prio = FirstBit(r.bitmap)
      BY <1>2, <2>3, <3>2, FirstQueue
    <3> QED BY <3>1, <3>3, <2>3 DEF HighestOf
  <2> QED BY <2>1, <2>2, <2>3
<1> QED BY <1>4, <1>5, <1>6 DEF RtCountsMatch

\* CountBucket changes one count of numInBucket and nothing else.
LEMMA CountBucketFields ==
  ASSUME NEW q \in RunQueue, NEW b, NEW n \in Int, NEW r, r = CountBucket(q, b, n)
  PROVE  /\ r \in RunQueue
         /\ \A c \in Buckets : r.numInBucket[c] =
              IF c = b THEN q.numInBucket[c] + n ELSE q.numInBucket[c]
         /\ r.queue = q.queue /\ r.bitmap = q.bitmap /\ r.linked = q.linked
         /\ r.rt_nr_running = q.rt_nr_running /\ r.rt_nr_boosted = q.rt_nr_boosted
         /\ r.highest_prio = q.highest_prio
         /\ r.cfs = q.cfs /\ r.on_rq = q.on_rq /\ r.nr_running = q.nr_running
         /\ r.curr = q.curr /\ r.resched = q.resched
<1> DEFINE counts == [q.numInBucket EXCEPT ![b] = q.numInBucket[b] + n]
<1>1. CASE b \notin Buckets
  BY <1>1 DEF CountBucket
<1>2. CASE b \in Buckets
  <2>1. counts \in [Buckets -> Int]
    BY <1>2 DEF RunQueue
  <2>2. \A c \in Buckets : counts[c] =
              IF c = b THEN q.numInBucket[c] + n ELSE q.numInBucket[c]
    BY <1>2 DEF RunQueue
  <2>3. r = [q EXCEPT !.numInBucket = counts]
    BY <1>2 DEF CountBucket
  <2> HIDE DEF counts
  <2>4. r \in RunQueue /\ r.numInBucket = counts
    BY <2>1, <2>3 DEF RunQueue
  <2> QED BY <2>2, <2>3, <2>4 DEF RunQueue
<1> QED BY <1>1, <1>2

\* What the real-time part of the run queue keeps.
RtInv(tk, q) ==
  ListsMatch(tk, q) /\ RtCountsMatch(tk, q) /\ HighestOf(tk, q) /\ BucketCountsOf(tk, q)

\* RtInv reads these fields of the run queue only.
SameRt(q, r) ==
  /\ r.queue = q.queue /\ r.bitmap = q.bitmap /\ r.linked = q.linked
  /\ r.rt_nr_running = q.rt_nr_running /\ r.rt_nr_boosted = q.rt_nr_boosted
  /\ r.highest_prio = q.highest_prio /\ r.numInBucket = q.numInBucket

\* A change of the other fields keeps RtInv.
LEMMA SameRtInv ==
  ASSUME NEW tk, NEW q, NEW r, RtInv(tk, q), SameRt(q, r)
  PROVE  RtInv(tk, r)
<1>1. ListsMatch(tk, r)
  BY DEF RtInv, SameRt, ListsMatch
<1>2. RtCountsMatch(tk, r) /\ HighestOf(tk, r)
  BY DEF RtInv, SameRt, RtCountsMatch, HighestOf, BoostedOf
<1>3. BucketCountsOf(tk, r)
  BY DEF RtInv, SameRt, BucketCountsOf, InBucket
<1> QED BY <1>1, <1>2, <1>3 DEF RtInv

\* enqueue_rt_entity and enqueue_rt_entity_brr of a task that is not linked.
LEMMA EnqueueRt ==
  ASSUME NEW tk \in [Tasks -> Task], NEW q \in RunQueue, RtInv(tk, q),
         NEW t \in Tasks \ q.linked, tk[t].prio \in RtPrios, tk[t].class # "fair",
         NEW r, r = IF tk[t].class = "rt" THEN enqueue_rt_entity(tk, q, t)
                                          ELSE enqueue_rt_entity_brr(tk, q, t)
  PROVE  /\ r \in RunQueue /\ RtInv(tk, r) /\ r.linked = q.linked \cup {t}
         /\ r.cfs = q.cfs /\ r.on_rq = q.on_rq /\ r.nr_running = q.nr_running
         /\ r.curr = q.curr
<1> DEFINE m == IF tk[t].class = "rt" THEN q ELSE CountBucket(q, tk[t].bid, 1)
<1>1. r = __enqueue_rt_entity(tk, m, t)
  BY DEF enqueue_rt_entity, dequeue_rt_entity, enqueue_rt_entity_brr, dequeue_rt_entity_brr
<1>2. /\ m \in RunQueue
      /\ m.queue = q.queue /\ m.bitmap = q.bitmap /\ m.linked = q.linked
      /\ m.rt_nr_running = q.rt_nr_running /\ m.rt_nr_boosted = q.rt_nr_boosted
      /\ m.highest_prio = q.highest_prio
      /\ m.cfs = q.cfs /\ m.on_rq = q.on_rq /\ m.nr_running = q.nr_running
      /\ m.curr = q.curr
  BY CountBucketFields
<1>3. \A c \in Buckets : m.numInBucket[c] =
        IF tk[t].class # "rt" /\ c = tk[t].bid THEN q.numInBucket[c] + 1 ELSE q.numInBucket[c]
  BY CountBucketFields
<1> HIDE DEF m
<1>4. ListsMatch(tk, m) /\ RtCountsMatch(tk, m) /\ HighestOf(tk, m)
  BY <1>2 DEF RtInv, ListsMatch, RtCountsMatch, HighestOf, BoostedOf
<1>5. /\ r \in RunQueue /\ r.linked = q.linked \cup {t}
      /\ r.numInBucket = m.numInBucket
      /\ r.cfs = q.cfs /\ r.on_rq = q.on_rq /\ r.nr_running = q.nr_running
      /\ r.curr = q.curr
  <2>1. Enqueued(tk, m, t, r)
    BY <1>1, <1>2, EnqueueFields
  <2> QED BY <1>2, <2>1 DEF Enqueued
<1>6. ListsMatch(tk, r) /\ RtCountsMatch(tk, r) /\ HighestOf(tk, r)
  BY <1>1, <1>2, <1>4, EnqueueLists, EnqueueCounts
<1>7. ASSUME NEW b \in Buckets
      PROVE  r.numInBucket[b] - Garbage[b] = Cardinality(InBucket(tk, r, b))
  <2>1. InBucket(tk, q, b) \in SUBSET Tasks
    BY DEF InBucket, RunQueue
  <2>2. /\ q.numInBucket[b] \in Int /\ Garbage[b] \in Int
        /\ q.numInBucket[b] - Garbage[b] = Cardinality(InBucket(tk, q, b))
    BY BucketAssumption DEF RunQueue, RtInv, BucketCountsOf, Buckets
  <2>3. tk[t].class \in {"rt", "brr"}
    BY DEF Task, Classes
  <2>4. CASE tk[t].class = "brr" /\ tk[t].bid = b
    <3>1. InBucket(tk, r, b) = InBucket(tk, q, b) \cup {t} /\ t \notin InBucket(tk, q, b)
      BY <1>5, <2>4 DEF InBucket
    <3>2. Cardinality(InBucket(tk, r, b)) = Cardinality(InBucket(tk, q, b)) + 1
      BY <3>1, <2>1, CountTask
    <3>3. r.numInBucket[b] = q.numInBucket[b] + 1
      BY <1>3, <1>5, <2>4
    <3> QED BY <3>2, <3>3, <2>2
  <2>5. CASE ~ (tk[t].class = "brr" /\ tk[t].bid = b)
    <3>1. InBucket(tk, r, b) = InBucket(tk, q, b)
      BY <1>5, <2>5 DEF InBucket
    <3>2. r.numInBucket[b] = q.numInBucket[b]
      BY <1>3, <1>5, <2>3, <2>5
    <3> QED BY <3>1, <3>2, <2>2
  <2> QED BY <2>4, <2>5
<1> QED BY <1>5, <1>6, <1>7 DEF RtInv, BucketCountsOf

\* dequeue_rt_entity and dequeue_rt_entity_brr of a linked task.
LEMMA DequeueRt ==
  ASSUME NEW tk \in [Tasks -> Task], NEW q \in RunQueue, RtInv(tk, q),
         NEW t \in q.linked, tk[t].class # "fair",
         NEW r, r = IF tk[t].class = "rt" THEN dequeue_rt_entity(tk, q, t)
                                          ELSE dequeue_rt_entity_brr(tk, q, t)
  PROVE  /\ r \in RunQueue /\ RtInv(tk, r) /\ r.linked = q.linked \ {t}
         /\ r.cfs = q.cfs /\ r.on_rq = q.on_rq /\ r.nr_running = q.nr_running
         /\ r.curr = q.curr
<1> DEFINE m == IF tk[t].class = "rt" THEN q ELSE CountBucket(q, tk[t].bid, -1)
<1>1. r = __dequeue_rt_entity(tk, m, t)
  BY DEF dequeue_rt_entity, dequeue_rt_entity_brr
<1>2. /\ m \in RunQueue
      /\ m.queue = q.queue /\ m.bitmap = q.bitmap /\ m.linked = q.linked
      /\ m.rt_nr_running = q.rt_nr_running /\ m.rt_nr_boosted = q.rt_nr_boosted
      /\ m.highest_prio = q.highest_prio
      /\ m.cfs = q.cfs /\ m.on_rq = q.on_rq /\ m.nr_running = q.nr_running
      /\ m.curr = q.curr
  BY CountBucketFields
<1>3. \A c \in Buckets : m.numInBucket[c] =
        IF tk[t].class # "rt" /\ c = tk[t].bid THEN q.numInBucket[c] - 1 ELSE q.numInBucket[c]
  <2>1. CASE tk[t].class = "rt"
    BY <2>1
  <2>2. CASE tk[t].class # "rt"
    <3>1. m = CountBucket(q, tk[t].bid, -1)
      BY <2>2
    <3> HIDE DEF m
    <3>2. \A c \in Buckets : m.numInBucket[c] =
            IF c = tk[t].bid THEN q.numInBucket[c] + (-1) ELSE q.numInBucket[c]
      BY <3>1, CountBucketFields
    <3>3. \A c \in Buckets : q.numInBucket[c] \in Int
      BY DEF RunQueue
    <3> QED BY <2>2, <3>2, <3>3
  <2> QED BY <2>1, <2>2
<1> HIDE DEF m
<1>4. ListsMatch(tk, m) /\ RtCountsMatch(tk, m) /\ HighestOf(tk, m)
  BY <1>2 DEF RtInv, ListsMatch, RtCountsMatch, HighestOf, BoostedOf
<1>5. t \in Tasks /\ tk[t].prio \in RtPrios
  BY PrioAssumption DEF RunQueue, RtInv, ListsMatch, rt_prio, RtPrios, Task, TaskPrios
<1>6. /\ r \in RunQueue /\ r.linked = q.linked \ {t}
      /\ r.numInBucket = m.numInBucket
      /\ r.cfs = q.cfs /\ r.on_rq = q.on_rq /\ r.nr_running = q.nr_running
      /\ r.curr = q.curr
  <2>1. Dequeued(tk, m, t, r)
    BY <1>1, <1>2, <1>5, DequeueFields
  <2> QED BY <1>2, <2>1 DEF Dequeued
<1>7. ListsMatch(tk, r) /\ RtCountsMatch(tk, r) /\ HighestOf(tk, r)
  BY <1>1, <1>2, <1>4, DequeueLists, DequeueCounts
<1>8. ASSUME NEW b \in Buckets
      PROVE  r.numInBucket[b] - Garbage[b] = Cardinality(InBucket(tk, r, b))
  <2>1. InBucket(tk, q, b) \in SUBSET Tasks
    BY DEF InBucket, RunQueue
  <2>2. /\ q.numInBucket[b] \in Int /\ Garbage[b] \in Int
        /\ q.numInBucket[b] - Garbage[b] = Cardinality(InBucket(tk, q, b))
    BY BucketAssumption DEF RunQueue, RtInv, BucketCountsOf, Buckets
  <2>3. tk[t].class \in {"rt", "brr"}
    BY <1>5 DEF Task, Classes
  <2>4. CASE tk[t].class = "brr" /\ tk[t].bid = b
    <3>1. InBucket(tk, r, b) = InBucket(tk, q, b) \ {t} /\ t \in InBucket(tk, q, b)
      BY <1>6, <2>4 DEF InBucket
    <3>2. Cardinality(InBucket(tk, r, b)) = Cardinality(InBucket(tk, q, b)) - 1
      BY <3>1, <2>1, CountTask
    <3>3. r.numInBucket[b] = q.numInBucket[b] - 1
      BY <1>3, <1>6, <2>4
    <3> QED BY <3>2, <3>3, <2>2
  <2>5. CASE ~ (tk[t].class = "brr" /\ tk[t].bid = b)
    <3>1. InBucket(tk, r, b) = InBucket(tk, q, b)
      BY <1>6, <2>5 DEF InBucket
    <3>2. r.numInBucket[b] = q.numInBucket[b]
      BY <1>3, <1>6, <2>3, <2>5
    <3> QED BY <3>1, <3>2, <2>2
  <2> QED BY <2>4, <2>5
<1> QED BY <1>6, <1>7, <1>8 DEF RtInv, BucketCountsOf
=============================================================================
