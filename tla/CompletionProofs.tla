-------------------------- MODULE CompletionProofs --------------------------
(***************************************************************************)
(* No completion is lost, and the code is a counter of permits, for every  *)
(* set of threads and every width of the counter (Completion.tla).         *)
(***************************************************************************)
EXTENDS Completion, ListLemmas

\* What one call of complete_all adds.
Half == UINT_MAX \div 2

\* The counter has not wrapped: it holds at most what has been posted.
CallsCounted ==
    /\ calls \in [complete : 0 .. MaxComplete, complete_all : 0 .. MaxCompleteAll]
    /\ done <= calls.complete + calls.complete_all * Half

IInv == NoLostCompletion /\ CallsCounted

-----------------------------------------------------------------------------
\* Half is a natural number.
LEMMA HalfIsNatural == Half \in Nat
BY BoundsAssumption DEF Half

\* A product of naturals grows with its first factor.
LEMMA ProductGrows ==
  ASSUME NEW x \in Nat, NEW y \in Nat, NEW h \in Nat, x <= y
  PROVE  x * h \in Nat /\ x * h <= y * h /\ (x + 1) * h = x * h + h
OBVIOUS

\* There is room in the counter for one more call of complete.
LEMMA RoomForOne ==
  ASSUME IInv, calls.complete < MaxComplete
  PROVE  Unsigned(done + 1) = done + 1 /\ done + 1 \in 0 .. UINT_MAX
<1> DEFINE n == calls.complete_all * Half
<1>1. n \in Nat /\ n <= MaxCompleteAll * Half /\ done <= calls.complete + n
  BY BoundsAssumption, HalfIsNatural, ProductGrows DEF IInv, CallsCounted
<1>2. MaxCompleteAll * Half \in Nat /\ MaxComplete + MaxCompleteAll * Half <= UINT_MAX
  BY BoundsAssumption, HalfIsNatural, ProductGrows DEF Half
<1>3. done \in Nat /\ calls.complete \in Nat
  BY DEF IInv, NoLostCompletion, TypeOK, CallsCounted
<1> HIDE DEF n
<1> QED BY <1>1, <1>2, <1>3, BoundsAssumption DEF Unsigned

\* There is room in the counter for one more call of complete_all.
LEMMA RoomForAll ==
  ASSUME IInv, calls.complete_all < MaxCompleteAll
  PROVE  Unsigned(done + Half) = done + Half /\ done + Half \in 0 .. UINT_MAX
<1> DEFINE n == calls.complete_all * Half
           m == (calls.complete_all + 1) * Half
<1>1. calls.complete_all \in Nat /\ calls.complete_all + 1 \in Nat /\ calls.complete_all + 1 <= MaxCompleteAll
  BY BoundsAssumption DEF IInv, CallsCounted
<1>2. n \in Nat /\ m = n + Half /\ m <= MaxCompleteAll * Half /\ done <= calls.complete + n
  BY <1>1, BoundsAssumption, HalfIsNatural, ProductGrows DEF IInv, CallsCounted
<1>3. MaxCompleteAll * Half \in Nat /\ MaxComplete + MaxCompleteAll * Half <= UINT_MAX
  BY BoundsAssumption, HalfIsNatural, ProductGrows DEF Half
<1>4. done \in Nat /\ calls.complete \in Nat /\ calls.complete <= MaxComplete
  BY BoundsAssumption DEF IInv, NoLostCompletion, TypeOK, CallsCounted
<1> HIDE DEF n, m
<1> QED BY <1>2, <1>3, <1>4, HalfIsNatural, BoundsAssumption DEF Unsigned

\* The waiters are finitely many, and so are those on their way.
WaitersAreFinite == IsFiniteSet(Queued) /\ IsFiniteSet(Awake) /\ Cardinality(Awake) \in Nat
\* Finitely many waiters follow from the assumption on them.
LEMMA WaitersFinite == TypeOK => WaitersAreFinite
<1> SUFFICES ASSUME TypeOK PROVE WaitersAreFinite
  OBVIOUS
<1>1. queue \in [1 .. Len(queue) -> Queued] /\ Len(queue) \in Nat
  BY DEF TypeOK, Queued, Range
<1>2. queue \in Surjection(1 .. Len(queue), Queued)
  BY <1>1 DEF Surjection, Queued, Range
<1>3. IsFiniteSet(1 .. Len(queue))
  BY <1>1, FS_Interval
<1>4. IsFiniteSet(Queued)
  BY <1>2, <1>3, FS_Surjection
<1>5. Awake \in SUBSET Queued
  BY DEF Awake
<1> QED BY <1>4, <1>5, FS_Subset, FS_CardinalityType DEF WaitersAreFinite

\* A wakeup changes the state of waiters only, to awake.
LEMMA WakeupType ==
  ASSUME TypeOK, NEW n \in {0, 1}, __wake_up_common(n)
  PROVE  /\ state' \in [Waiters -> {"out", "set", "asleep", "awake"}]
         /\ \A w \in Waiters : state'[w] = state[w] \/ (w \in Queued /\ state'[w] = "awake")
<1> DEFINE hit == {queue[i] : i \in Woken(n)}
<1>1. state' = [w \in Waiters |-> IF w \in hit THEN "awake" ELSE state[w]]
  BY DEF __wake_up_common
<1>2. hit \subseteq Queued
  BY DEF Woken, Queued, Range
<1> HIDE DEF hit
<1> QED BY <1>1, <1>2 DEF TypeOK

\* complete makes a sleeper run, or finds every waiter on its way: it does not
\* stop at a thread that a timeout, a signal or an earlier complete had woken.
LEMMA WakesOne ==
  ASSUME TypeOK, __wake_up_common(1)
  PROVE  \/ \E w \in Queued : state[w] = "asleep" /\ state'[w] = "awake"
         \/ \A w \in Queued : state'[w] = "awake"
<1> DEFINE Sleeping == {i \in DOMAIN queue : state[queue[i]] = "asleep"}
           Before(i) == {j \in 1 .. (i - 1) : default_wake_function(queue[j])}
           hit == {queue[i] : i \in Woken(1)}
<1>1. /\ DOMAIN queue = 1 .. Len(queue) /\ Len(queue) \in Nat
      /\ Sleeping \in SUBSET Nat /\ Queued \subseteq Waiters
      /\ \A i \in DOMAIN queue : queue[i] \in Queued
  BY DEF TypeOK, Queued, Range
<1>2. state' = [w \in Waiters |-> IF w \in hit THEN "awake" ELSE state[w]]
  BY DEF __wake_up_common
<1>3. ASSUME NEW i \in DOMAIN queue, \A j \in 1 .. (i - 1) : j \notin Sleeping
      PROVE  queue[i] \in hit
  <2>1. Before(i) = {}
    BY <1>1, <1>3 DEF default_wake_function
  <2>2. Cardinality(Before(i)) < 1
    BY <2>1, FS_EmptySet
  <2>3. i \in Woken(1)
    BY <2>2 DEF Woken
  <2> QED BY <2>3
<1> HIDE DEF hit
<1>4. CASE Sleeping # {}
  <2>1. Min(Sleeping) \in Sleeping /\ \A y \in Sleeping : Min(Sleeping) <= y
    BY <1>1, <1>4, MinOfNaturals
  <2>2. PICK m \in Sleeping : \A y \in Sleeping : m <= y
    BY <2>1
  <2>3. queue[m] \in hit
    BY <1>1, <1>3, <2>2
  <2> QED BY <1>1, <1>2, <2>2, <2>3
<1>5. CASE Sleeping = {}
  <2>1. \A i \in DOMAIN queue : queue[i] \in hit
    BY <1>3, <1>5
  <2> QED BY <1>1, <1>2, <2>1 DEF Queued, Range
<1> QED BY <1>4, <1>5

\* complete_all makes every waiter run.
LEMMA WakesAll ==
  ASSUME TypeOK, __wake_up_common(0)
  PROVE  \A w \in Queued : state'[w] = "awake"
<1>1. Woken(0) = DOMAIN queue
  BY DEF Woken
<1>2. Queued \subseteq Waiters /\ {queue[i] : i \in Woken(0)} = Queued
  BY <1>1 DEF TypeOK, Queued, Range
<1> QED BY <1>2 DEF __wake_up_common

\* More threads on their way are as many.
LEMMA MoreAwake ==
  ASSUME NEW S, NEW T, IsFiniteSet(S), IsFiniteSet(T), S \subseteq T
  PROVE  /\ Cardinality(S) \in Nat /\ Cardinality(T) \in Nat /\ Cardinality(S) <= Cardinality(T)
         /\ \A x \in T : x \notin S => Cardinality(S) + 1 <= Cardinality(T)
<1>1. Cardinality(S) \in Nat /\ Cardinality(T) \in Nat
  BY FS_CardinalityType
<1>2. Cardinality(S) <= Cardinality(T)
  BY FS_Subset
<1>3. ASSUME NEW x \in T, x \notin S
      PROVE  Cardinality(S) + 1 <= Cardinality(T)
  <2>1. IsFiniteSet(S \cup {x}) /\ Cardinality(S \cup {x}) = Cardinality(S) + 1
    BY <1>3, FS_AddElement
  <2>2. S \cup {x} \in SUBSET T
    BY <1>3
  <2>3. Cardinality(S \cup {x}) <= Cardinality(T)
    BY <2>2, FS_Subset
  <2> QED BY <2>1, <2>3
<1> QED BY <1>1, <1>2, <1>3

-----------------------------------------------------------------------------
\* The invariant holds before the first call.
LEMMA IInvInit == Init => IInv
<1> SUFFICES ASSUME Init PROVE IInv
  OBVIOUS
<1>1. TypeOK
  <2>1. queue \in Seq(Waiters) /\ IsInjective(queue) /\ Queued = {}
    BY DEF Init, IsInjective, Queued, Range
  <2> QED BY <2>1, BoundsAssumption DEF Init, TypeOK
<1>2. Awake = {} /\ Queued = {}
  BY DEF Init, Awake, Queued, Range
<1>3. CallsCounted
  <2>1. 0 * Half = 0
    BY HalfIsNatural
  <2> QED BY <2>1, BoundsAssumption DEF Init, CallsCounted
<1> QED BY <1>1, <1>2, <1>3 DEF IInv, NoLostCompletion

\* complete and complete_all add what they post and wake for it.
LEMMA PostStep == IInv /\ (complete \/ complete_all) => IInv'
<1> SUFFICES ASSUME IInv, complete \/ complete_all PROVE IInv'
  OBVIOUS
<1>0. TypeOK /\ calls \in [complete : 0 .. MaxComplete, complete_all : 0 .. MaxCompleteAll]
  BY DEF IInv, NoLostCompletion, CallsCounted
<1>1. Queued' = Queued /\ UNCHANGED <<queue, expired, signalled, result>>
  BY DEF complete, complete_all, Queued
<1>2. ASSUME NEW n \in {0, 1}, __wake_up_common(n), done' \in 0 .. UINT_MAX
      PROVE  /\ TypeOK'
             /\ Awake \subseteq Awake' /\ Awake' \subseteq Queued
             /\ Awake' = {w \in Queued : state'[w] = "awake"}
  <2>1. /\ state' \in [Waiters -> {"out", "set", "asleep", "awake"}]
        /\ \A w \in Waiters : state'[w] = state[w] \/ (w \in Queued /\ state'[w] = "awake")
    BY <1>0, <1>2, WakeupType
  <2>2. {w \in Waiters : state'[w] # "out"} = {w \in Waiters : state[w] # "out"}
    BY <2>1, <1>0 DEF TypeOK
  <2> QED BY <1>0, <1>1, <1>2, <2>1, <2>2 DEF TypeOK, Awake
<1>3. CASE complete
  <2>1. done' = done + 1 /\ done' \in 0 .. UINT_MAX
    BY <1>3, RoomForOne DEF complete
  <2>2. TypeOK' /\ Awake \subseteq Awake' /\ Awake' = {w \in Queued : state'[w] = "awake"}
    BY <1>2, <1>3, <2>1 DEF complete
  <2>3. ASSUME \A w \in Queued : state'[w] = "awake"
        PROVE  NoLostCompletion'
    <3>1. Awake' = Queued'
      BY <1>1, <2>2, <2>3
    <3> QED BY <2>2, <3>1, Zenon DEF NoLostCompletion
  <2>4. ASSUME \E w \in Queued : state[w] = "asleep" /\ state'[w] = "awake"
        PROVE  NoLostCompletion'
    <3>1. PICK w \in Queued : w \in Awake' /\ w \notin Awake
      BY <2>2, <2>4 DEF Awake
    <3>2. Cardinality(Awake) + 1 <= Cardinality(Awake') /\ Cardinality(Awake) \in Nat /\ Cardinality(Awake') \in Nat
      <4>1. WaitersAreFinite /\ WaitersAreFinite'
        BY <1>0, <2>2, WaitersFinite, PTL
      <4> HIDE DEF IInv
      <4> QED BY <2>2, <3>1, <4>1, MoreAwake DEF WaitersAreFinite
    <3>3. CASE Cardinality(Awake) >= done
      <4>1. Cardinality(Awake') >= done'
        BY <1>0, <2>1, <3>2, <3>3 DEF TypeOK
      <4> QED BY <2>2, <4>1, Zenon DEF NoLostCompletion
    <3>4. CASE Awake = Queued
      BY <3>1, <3>4
    <3> QED BY <3>3, <3>4 DEF IInv, NoLostCompletion
  <2>5. NoLostCompletion'
    BY <1>0, <1>3, <2>3, <2>4, WakesOne DEF complete
  <2>6. CallsCounted'
    <3> DEFINE x == calls.complete
               y == calls.complete_all
    <3>1. x \in Nat /\ x < MaxComplete /\ calls' = [calls EXCEPT !.complete = x + 1]
      BY <1>0, <1>3 DEF complete
    <3>2. calls'.complete = x + 1 /\ calls'.complete_all = y
          /\ calls' \in [complete : 0 .. MaxComplete, complete_all : 0 .. MaxCompleteAll]
      BY <1>0, <3>1, BoundsAssumption
    <3>3. y * Half \in Nat
      BY <1>0, HalfIsNatural, ProductGrows
    <3>4. done <= x + y * Half /\ done \in Nat
      BY <1>0 DEF IInv, CallsCounted, TypeOK
    <3> QED BY <2>1, <3>1, <3>2, <3>3, <3>4 DEF CallsCounted
  <2> QED BY <2>5, <2>6 DEF IInv
<1>4. CASE complete_all
  <2>1. done' = done + Half /\ done' \in 0 .. UINT_MAX
    BY <1>4, RoomForAll DEF complete_all, Half
  <2>2. TypeOK' /\ Awake' = {w \in Queued : state'[w] = "awake"}
    BY <1>2, <1>4, <2>1 DEF complete_all
  <2>3. NoLostCompletion'
    BY <1>0, <1>1, <1>4, <2>2, WakesAll DEF complete_all, NoLostCompletion
  <2>4. CallsCounted'
    <3> DEFINE x == calls.complete_all
    <3>1. x \in Nat /\ x < MaxCompleteAll /\ calls' = [calls EXCEPT !.complete_all = x + 1]
      BY <1>0, <1>4 DEF complete_all
    <3>2. x * Half \in Nat /\ (x + 1) * Half = x * Half + Half
      BY <3>1, HalfIsNatural, ProductGrows
    <3>3. calls'.complete_all = x + 1 /\ calls'.complete = calls.complete
          /\ calls' \in [complete : 0 .. MaxComplete, complete_all : 0 .. MaxCompleteAll]
      BY <1>0, <3>1, BoundsAssumption
    <3>4. done <= calls.complete + x * Half /\ done \in Nat /\ calls.complete \in Nat
      BY <1>0 DEF IInv, CallsCounted, TypeOK
    <3> QED BY <2>1, <3>2, <3>3, <3>4, HalfIsNatural DEF CallsCounted
  <2> QED BY <2>3, <2>4 DEF IInv
<1> QED BY <1>3, <1>4

\* A step that leaves the queue and the permits alone, and puts nobody on its
\* way back to sleep.
LEMMA OtherStep ==
  ASSUME IInv, UNCHANGED <<done, queue, result, calls>>,
         expired' \subseteq Timed, signalled' \subseteq Interruptible,
         state' \in [Waiters -> {"out", "set", "asleep", "awake"}],
         \A w \in Waiters : /\ state'[w] = "out" <=> state[w] = "out"
                            /\ state[w] = "awake" => state'[w] = "awake"
  PROVE  IInv'
<1>1. TypeOK /\ Queued' = Queued
  BY DEF IInv, NoLostCompletion, Queued
<1>2. {w \in Waiters : state'[w] # "out"} = {w \in Waiters : state[w] # "out"}
  OBVIOUS
<1>3. TypeOK'
  BY <1>1, <1>2 DEF TypeOK
<1>4. Awake \subseteq Awake' /\ Awake' \subseteq Queued
  BY <1>1 DEF Awake, TypeOK
<1>5. WaitersAreFinite /\ WaitersAreFinite'
  BY <1>1, <1>3, WaitersFinite, PTL
<1>6. /\ Cardinality(Awake) <= Cardinality(Awake')
      /\ Cardinality(Awake) \in Nat /\ Cardinality(Awake') \in Nat
  BY <1>4, <1>5, MoreAwake DEF WaitersAreFinite
<1>7. Cardinality(Awake') >= done' \/ Awake' = Queued'
  BY <1>1, <1>4, <1>6 DEF IInv, NoLostCompletion, TypeOK
<1>8. CallsCounted'
  BY DEF IInv, CallsCounted
<1> QED BY <1>3, <1>7, <1>8 DEF IInv, NoLostCompletion

\* A thread that is out stays out, with a permit if there is one.
LEMMA OutStep ==
  ASSUME IInv, NEW w \in Waiters, state[w] = "out", UNCHANGED queue,
         NEW r \in {"done", "timeout", "signal", "busy"}, Return(w, r),
         done' = IF done > 0 THEN done - 1 ELSE done
  PROVE  IInv'
<1>1. TypeOK /\ Queued' = Queued /\ state' = state
  BY DEF IInv, NoLostCompletion, TypeOK, Queued, Return
<1>2. TypeOK'
  <2>1. done' \in 0 .. UINT_MAX
    BY <1>1, BoundsAssumption DEF TypeOK
  <2>2. result' \in [Waiters -> {"none", "done", "timeout", "signal", "busy"}]
    BY <1>1 DEF TypeOK, Return
  <2> QED BY <1>1, <2>1, <2>2 DEF TypeOK, Return
<1>3. Awake' = Awake
  BY <1>1 DEF Awake
<1>4. Cardinality(Awake) >= done' \/ Awake' = Queued'
  BY <1>1, <1>3, WaitersFinite DEF WaitersAreFinite, IInv, NoLostCompletion, TypeOK
<1>5. CallsCounted'
  BY <1>1, HalfIsNatural, ProductGrows DEF IInv, CallsCounted, Return, TypeOK
<1> QED BY <1>2, <1>3, <1>4, <1>5 DEF IInv, NoLostCompletion

\* A waiter that leaves takes a permit if there is one.
LEMMA LeaveStep ==
  ASSUME IInv, NEW w \in Waiters, state[w] = "awake", Leave(w),
         NEW r \in {"done", "timeout", "signal", "busy"}, Return(w, r),
         done' = IF done > 0 THEN done - 1 ELSE done
  PROVE  IInv'
<1>1. TypeOK /\ w \in Queued /\ w \in Awake
  BY DEF IInv, NoLostCompletion, TypeOK, Awake
<1>2. queue' \in Seq(Waiters) /\ IsInjective(queue') /\ Queued' = Queued \ {w}
  <2>1. queue \in Seq(Waiters) /\ IsInjective(queue) /\ w \in ToSet(queue)
    BY <1>1 DEF TypeOK, Queued, Range, ToSet
  <2>2. /\ queue' \in Seq(Waiters) /\ IsInjective(queue')
        /\ ToSet(queue') = ToSet(queue) \ {w}
    BY <2>1, RemoveOnce, Zenon DEF Leave
  <2> QED BY <2>2 DEF Queued, Range, ToSet
<1>3. state' = [state EXCEPT ![w] = "out"]
  BY DEF Return
<1>4. Queued' = {v \in Waiters : state'[v] # "out"}
  BY <1>1, <1>2, <1>3 DEF TypeOK
<1>5. TypeOK'
  <2>1. done' \in 0 .. UINT_MAX
    BY <1>1, BoundsAssumption DEF TypeOK
  <2>2. result' \in [Waiters -> {"none", "done", "timeout", "signal", "busy"}]
        /\ state' \in [Waiters -> {"out", "set", "asleep", "awake"}]
    BY <1>1, <1>3 DEF TypeOK, Return
  <2> QED BY <1>1, <1>2, <1>4, <2>1, <2>2 DEF TypeOK, Return
<1>6. Awake' = Awake \ {w}
  BY <1>1, <1>2, <1>3 DEF Awake, TypeOK
<1>7. Cardinality(Awake') = Cardinality(Awake) - 1 /\ Cardinality(Awake) \in Nat
  BY <1>1, <1>6, WaitersFinite, FS_RemoveElement DEF WaitersAreFinite
<1>8. Cardinality(Awake) # 0
  BY <1>1, WaitersFinite, FS_EmptySet DEF WaitersAreFinite
<1>9. Cardinality(Awake') >= done' \/ Awake' = Queued'
  BY <1>1, <1>2, <1>6, <1>7, <1>8 DEF IInv, NoLostCompletion, TypeOK
<1>10. CallsCounted'
  BY <1>1, HalfIsNatural, ProductGrows DEF IInv, CallsCounted, Return, TypeOK
<1> QED BY <1>5, <1>9, <1>10 DEF IInv, NoLostCompletion

\* A thread that finds no permit and sets its task state, newly queued or again.
LEMMA SetStep ==
  ASSUME IInv, NEW w \in Waiters, done = 0,
         state' = [state EXCEPT ![w] = "set"],
         \/ state[w] = "out" /\ queue' = Append(queue, w)
         \/ state[w] = "awake" /\ queue' = queue,
         result' \in [Waiters -> {"none", "done", "timeout", "signal", "busy"}],
         UNCHANGED <<done, expired, signalled, calls>>
  PROVE  IInv'
<1>1. TypeOK
  BY DEF IInv, NoLostCompletion
<1>2. queue' \in Seq(Waiters) /\ IsInjective(queue') /\ Queued' = Queued \cup {w}
  <2>1. CASE queue' = queue
    BY <1>1, <2>1 DEF TypeOK, Queued
  <2>2. CASE state[w] = "out" /\ queue' = Append(queue, w)
    <3>1. w \notin ToSet(queue) /\ queue \in Seq(Waiters) /\ IsInjective(queue)
      BY <1>1, <2>2 DEF TypeOK, Queued, Range, ToSet
    <3>2. queue' \in Seq(Waiters) /\ IsInjective(queue') /\ ToSet(queue') = ToSet(queue) \cup {w}
      BY <2>2, <3>1, AppendFresh, AppendProperties
    <3> QED BY <3>2 DEF Queued, Range, ToSet
  <2> QED BY <2>1, <2>2
<1>3. Queued' = {v \in Waiters : state'[v] # "out"}
  BY <1>1, <1>2 DEF TypeOK
<1>4. TypeOK'
  BY <1>1, <1>2, <1>3 DEF TypeOK
<1>5. WaitersAreFinite'
  BY <1>4, WaitersFinite, PTL
<1>6. CallsCounted'
  BY DEF IInv, CallsCounted
<1> QED BY <1>4, <1>5, <1>6 DEF IInv, NoLostCompletion, WaitersAreFinite

\* Every step of a thread keeps the invariant.
LEMMA WaitStep ==
  ASSUME IInv, NEW w \in Waiters, wait_for_common(w) \/ Relock(w) \/ try_wait_for_completion(w)
  PROVE  IInv'
<1>1. done \in Nat /\ result \in [Waiters -> {"none", "done", "timeout", "signal", "busy"}]
      /\ state \in [Waiters -> {"out", "set", "asleep", "awake"}]
  BY DEF IInv, NoLostCompletion, TypeOK
<1>2. CASE wait_for_common(w)
  <2>1. CASE done > 0 /\ TakeOne(w) /\ UNCHANGED queue
    BY <1>2, <2>1, OutStep DEF wait_for_common, TakeOne
  <2>2. CASE /\ done = 0
             /\ state' = [state EXCEPT ![w] = "set"]
             /\ queue' = Append(queue, w)
             /\ result' = [result EXCEPT ![w] = "none"]
             /\ UNCHANGED <<done, expired, signalled, calls>>
    BY <1>1, <1>2, <2>2, SetStep DEF wait_for_common
  <2>3. CASE done = 0 /\ Return(w, "signal") /\ UNCHANGED <<done, queue>>
    BY <1>2, <2>3, OutStep DEF wait_for_common
  <2> QED BY <1>2, <2>1, <2>2, <2>3 DEF wait_for_common
<1>3. CASE Relock(w)
  <2>1. CASE done > 0 /\ TakeOne(w) /\ Leave(w)
    BY <1>3, <2>1, LeaveStep DEF Relock, TakeOne
  <2>2. CASE done = 0 /\ Return(w, "timeout") /\ Leave(w) /\ UNCHANGED done
    BY <1>3, <2>2, LeaveStep DEF Relock
  <2>3. CASE done = 0 /\ Return(w, "signal") /\ Leave(w) /\ UNCHANGED done
    BY <1>3, <2>3, LeaveStep DEF Relock
  <2>4. CASE done = 0 /\ LoopOnce(w) /\ UNCHANGED queue
    BY <1>1, <1>3, <2>4, SetStep DEF Relock, LoopOnce
  <2> QED BY <1>3, <2>1, <2>2, <2>3, <2>4 DEF Relock
<1>4. CASE try_wait_for_completion(w)
  BY <1>4, OutStep DEF try_wait_for_completion, TakeOne
<1> QED BY <1>2, <1>3, <1>4

\* The scheduler, the timer and the signals.
LEMMA SchedulerStep ==
  ASSUME IInv, NEW w \in Waiters,
         schedule(w) \/ process_timeout(w) \/ signal_wake_up(w) \/ do_signal(w)
  PROVE  IInv'
<1>1. state \in [Waiters -> {"out", "set", "asleep", "awake"}]
      /\ expired \subseteq Timed /\ signalled \subseteq Interruptible
  BY DEF IInv, NoLostCompletion, TypeOK
<1>2. CASE schedule(w)
  BY <1>1, <1>2, OtherStep DEF schedule
<1>3. CASE process_timeout(w)
  BY <1>1, <1>3, OtherStep DEF process_timeout
<1>4. CASE signal_wake_up(w)
  BY <1>1, <1>4, OtherStep DEF signal_wake_up
<1>5. CASE do_signal(w)
  BY <1>1, <1>5, OtherStep DEF do_signal
<1> QED BY <1>2, <1>3, <1>4, <1>5

\* Every step keeps the invariant.
LEMMA IInvNext == IInv /\ [Next]_vars => IInv'
<1> SUFFICES ASSUME IInv, [Next]_vars PROVE IInv'
  OBVIOUS
<1>1. CASE UNCHANGED vars
  BY <1>1, OtherStep DEF vars, IInv, NoLostCompletion, TypeOK
<1>2. CASE Next
  BY <1>2, PostStep, WaitStep, SchedulerStep DEF Next
<1> QED BY <1>1, <1>2

\* No completion is lost: while threads wait there are as many on their way to
\* the lock as there are permits, or all are on their way, whatever timeouts
\* and signals do between the critical sections of x->wait.lock.
THEOREM CompletionNotLost == Spec => []NoLostCompletion
<1>1. IInv => NoLostCompletion
  BY DEF IInv
<1> QED BY <1>1, IInvInit, IInvNext, PTL DEF Spec

-----------------------------------------------------------------------------
\* A step of a thread that takes a permit, or finds none, is one of the semaphore.
LEMMA WaitRefines ==
  ASSUME IInv, NEW w \in Waiters, wait_for_common(w) \/ Relock(w) \/ try_wait_for_completion(w)
  PROVE  [Permits!Next]_(Permits!vars)
<1>1. /\ done \in Nat /\ queue \in Seq(Waiters) /\ IsInjective(queue)
      /\ Queued = {v \in Waiters : state[v] # "out"}
      /\ expired \subseteq Timed /\ signalled \subseteq Interruptible
      /\ result \in [Waiters -> {"none", "done", "timeout", "signal", "busy"}]
  BY DEF IInv, NoLostCompletion, TypeOK
<1>2. ASSUME Leave(w), w \in Queued PROVE Queued' = Queued \ {w}
  <2>1. w \in ToSet(queue)
    BY <1>2 DEF Queued, Range, ToSet
  <2>2. ToSet(queue') = ToSet(queue) \ {w}
    BY <1>1, <1>2, <2>1, RemoveOnce, Zenon DEF Leave
  <2> QED BY <2>2 DEF Queued, Range, ToSet
<1>3. ASSUME UNCHANGED queue, w \notin Queued PROVE Queued' = Queued \ {w}
  BY <1>3 DEF Queued
<1>4. ASSUME done > 0, TakeOne(w), Queued' = Queued \ {w}
      PROVE  Permits!Take(w)
  BY <1>4 DEF Permits!Take, TakeOne, Return
<1>5. ASSUME done = 0, UNCHANGED done, NEW r, Return(w, r), Queued' = Queued \ {w},
             \/ w \notin Queued /\ r \in {"signal", "busy"}
             \/ w \in Timed \cup Interruptible /\ r \in {"timeout", "signal"}
      PROVE  Permits!GiveUp(w)
  BY <1>5 DEF Permits!GiveUp, Return
<1>6. CASE wait_for_common(w)
  <2>1. w \notin Queued
    BY <1>1, <1>6 DEF wait_for_common
  <2>2. CASE done > 0 /\ TakeOne(w) /\ UNCHANGED queue
    BY <1>3, <1>4, <2>1, <2>2 DEF Permits!Next
  <2>3. CASE done = 0 /\ queue' = Append(queue, w) /\ UNCHANGED done
             /\ result' = [result EXCEPT ![w] = "none"]
    <3>1. ToSet(queue') = ToSet(queue) \cup {w}
      BY <1>1, <2>1, <2>3, AppendFresh DEF Queued, Range, ToSet
    <3>2. Queued' = Queued \cup {w}
      BY <3>1 DEF Queued, Range, ToSet
    <3>3. Permits!Wait(w)
      BY <2>1, <2>3, <3>2 DEF Permits!Wait
    <3> QED BY <3>3 DEF Permits!Next
  <2>4. CASE done = 0 /\ Return(w, "signal") /\ UNCHANGED <<done, queue>>
    BY <1>3, <1>5, <2>1, <2>4 DEF Permits!Next
  <2> QED BY <1>6, <2>2, <2>3, <2>4 DEF wait_for_common
<1>7. CASE Relock(w)
  <2>1. w \in Queued
    BY <1>1, <1>7 DEF Relock
  <2>2. CASE done > 0 /\ TakeOne(w) /\ Leave(w)
    BY <1>2, <1>4, <2>1, <2>2 DEF Permits!Next
  <2>3. CASE done = 0 /\ w \in expired /\ Return(w, "timeout") /\ Leave(w) /\ UNCHANGED done
    BY <1>1, <1>2, <1>5, <2>1, <2>3 DEF Permits!Next
  <2>4. CASE done = 0 /\ w \in signalled /\ Return(w, "signal") /\ Leave(w) /\ UNCHANGED done
    BY <1>1, <1>2, <1>5, <2>1, <2>4 DEF Permits!Next
  <2>5. CASE LoopOnce(w) /\ UNCHANGED queue
    BY <2>5 DEF LoopOnce, Permits!vars, Queued
  <2> QED BY <1>7, <2>2, <2>3, <2>4, <2>5 DEF Relock
<1>8. CASE try_wait_for_completion(w)
  <2>1. w \notin Queued
    BY <1>1, <1>8 DEF try_wait_for_completion
  <2> QED BY <1>1, <1>3, <1>4, <1>5, <1>8, <2>1 DEF try_wait_for_completion, Permits!Next
<1> QED BY <1>6, <1>7, <1>8

\* Every step of the code is a step of the semaphore, or none.
LEMMA StepRefines == IInv /\ [Next]_vars => [Permits!Next]_(Permits!vars)
<1> SUFFICES ASSUME IInv, [Next]_vars PROVE [Permits!Next]_(Permits!vars)
  OBVIOUS
<1>1. CASE UNCHANGED vars
  BY <1>1 DEF vars, Permits!vars, Queued
<1>2. CASE complete
  <2>1. Permits!Post
    BY <1>2, RoomForOne DEF complete, Permits!Post, Queued
  <2> QED BY <2>1 DEF Permits!Next
<1>3. CASE complete_all
  <2>1. Permits!PostAll
    BY <1>3, RoomForAll DEF complete_all, Permits!PostAll, Queued, Half
  <2> QED BY <2>1 DEF Permits!Next
<1>4. ASSUME NEW w \in Waiters, schedule(w) \/ process_timeout(w) \/ signal_wake_up(w) \/ do_signal(w)
      PROVE  UNCHANGED Permits!vars
  BY <1>4 DEF schedule, process_timeout, signal_wake_up, do_signal, Permits!vars, Queued
<1> QED BY <1>1, <1>2, <1>3, <1>4, WaitRefines DEF Next

\* Every behaviour of the code is one of the counting semaphore of
\* CompletionSpec, its safety part: a permit is taken once, by a call that
\* reports it, and a wait gives up only when there is none.
THEOREM ImplementsPermits == Spec => Permits!Init /\ [][Permits!Next]_(Permits!vars)
<1>1. Init => Permits!Init
  BY DEF Init, Permits!Init, Queued, Range
<1> QED BY <1>1, IInvInit, IInvNext, StepRefines, PTL DEF Spec
=============================================================================
