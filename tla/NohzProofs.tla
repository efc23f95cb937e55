------------------------------ MODULE NohzProofs ------------------------------
(***************************************************************************)
(* The owner of the idle load balancing keeps its tick, and the exchanges  *)
(* of select_nohz_load_balancer never fail (Nohz.tla), for every number of *)
(* CPUs.                                                                   *)
(***************************************************************************)
EXTENDS Nohz, ListLemmas

\* What a CPU that is about to give the ownership up goes by: it has it, and
\* nobody else takes it away meanwhile.
GivesUp(c) == cpu[c].pc \in {"retire", "release", "disown"}
GiversOwn == \A c \in CPU : GivesUp(c) => load_balancer = c

\* What a CPU that is about to claim the ownership goes by.
ClaimersDoNotOwn == \A c \in CPU : cpu[c].pc = "claim" => load_balancer # c

IInv == OwnerTicks /\ GiversOwn /\ ClaimersDoNotOwn

\* A CPU that is named is one of the system's, and none is None.
LEMMA CpuIsNatural == CPU \subseteq Nat /\ None \notin CPU
BY CpuAssumption DEF CPU, None

\* Nobody owns and nobody gives up when the system starts.
LEMMA IInvInit == Init => IInv
<1> SUFFICES ASSUME Init PROVE IInv
  OBVIOUS
<1>1. cpu \in [CPU -> CpuState]
  BY DEF Init, CpuState, Steps
<1>2. load_balancer = None /\ bug = FALSE /\ mask \subseteq CPU
  BY DEF Init
<1>3. \A c \in CPU : ~GivesUp(c) /\ cpu[c].pc # "claim"
  BY DEF Init, GivesUp
<1> QED BY <1>1, <1>2, <1>3, CpuIsNatural, Zenon DEF IInv, OwnerTicks, TypeOK, GiversOwn, ClaimersDoNotOwn

\* A step that leaves the ownership and the tick of its CPU alone, and does
\* not begin to give up.
LEMMA OtherStep ==
  ASSUME IInv, UNCHANGED <<load_balancer, bug>>, mask' \subseteq CPU, cpu' \in [CPU -> CpuState],
         \A c \in CPU : /\ load_balancer = c => cpu'[c].tick
                        /\ GivesUp(c)' => GivesUp(c) \/ load_balancer = c
                        /\ cpu'[c].pc = "claim" => cpu[c].pc = "claim" \/ load_balancer # c
  PROVE  IInv'
<1>1. OwnerTicks'
  BY DEF IInv, OwnerTicks, TypeOK
<1>2. GiversOwn' /\ ClaimersDoNotOwn'
  BY DEF IInv, GiversOwn, ClaimersDoNotOwn
<1> QED BY <1>1, <1>2 DEF IInv

\* Tasks that come and go, and the idle loop.
LEMMA IdleLoopStep ==
  ASSUME IInv, NEW c \in CPU, Wakeup(c) \/ GoIdle(c) \/ LeaveIdle(c)
  PROVE  IInv'
<1>1. CASE Wakeup(c)
  <2>1. cpu' \in [CPU -> CpuState]
    <3> DEFINE r == [cpu[c] EXCEPT !.work = TRUE, !.kick = TRUE]
    <3>1. cpu' = [cpu EXCEPT ![c] = r]
      BY <1>1 DEF Wakeup, IInv, OwnerTicks, TypeOK
    <3>2. r \in CpuState
      BY DEF CpuState, IInv, OwnerTicks, TypeOK
    <3> QED BY <3>1, <3>2 DEF IInv, OwnerTicks, TypeOK
  <2>2. \A d \in CPU : cpu'[d].tick = cpu[d].tick /\ cpu'[d].pc = cpu[d].pc
    BY <1>1 DEF Wakeup, IInv, OwnerTicks, TypeOK, CpuState
  <2>3. UNCHANGED <<load_balancer, bug>> /\ mask' \subseteq CPU
    BY <1>1 DEF Wakeup, IInv, OwnerTicks, TypeOK
  <2>4. \A d \in CPU : /\ load_balancer = d => cpu'[d].tick
                       /\ GivesUp(d)' => GivesUp(d) \/ load_balancer = d
                       /\ cpu'[d].pc = "claim" => cpu[d].pc = "claim" \/ load_balancer # d
    BY <2>2, Zenon DEF IInv, OwnerTicks, GivesUp
  <2> QED BY <2>1, <2>3, <2>4, OtherStep, Zenon
<1>2. CASE GoIdle(c)
  <2>1. cpu' \in [CPU -> CpuState]
    BY <1>2 DEF GoIdle, IInv, OwnerTicks, TypeOK, CpuState
  <2>2. \A d \in CPU : cpu'[d].tick = cpu[d].tick /\ cpu'[d].pc = cpu[d].pc
    BY <1>2 DEF GoIdle, IInv, OwnerTicks, TypeOK, CpuState
  <2> QED BY <1>2, <2>1, <2>2, OtherStep DEF GoIdle, IInv, OwnerTicks, TypeOK, GivesUp
<1>3. CASE LeaveIdle(c)
  <2>1. cpu' \in [CPU -> CpuState]
    <3> DEFINE r == [cpu[c] EXCEPT !.kick = FALSE, !.busy = cpu[c].work]
               s == [cpu[c] EXCEPT !.pc = "clear"]
    <3>1. cpu' = [cpu EXCEPT ![c] = r] \/ cpu' = [cpu EXCEPT ![c] = s]
      BY <1>3 DEF LeaveIdle, IInv, OwnerTicks, TypeOK
    <3>2. r \in CpuState /\ s \in CpuState
      BY DEF CpuState, Steps, IInv, OwnerTicks, TypeOK
    <3> QED BY <3>1, <3>2 DEF IInv, OwnerTicks, TypeOK
  <2>2. \A d \in CPU : /\ cpu'[d].tick = cpu[d].tick
                       /\ cpu'[d].pc = cpu[d].pc \/ cpu'[d].pc = "clear"
    BY <1>3 DEF LeaveIdle, IInv, OwnerTicks, TypeOK, CpuState
  <2> QED BY <1>3, <2>1, <2>2, OtherStep DEF LeaveIdle, IInv, OwnerTicks, TypeOK, GivesUp
<1> QED BY <1>1, <1>2, <1>3

\* select_nohz_load_balancer(1).
LEMMA SelectStep ==
  ASSUME IInv, NEW c \in CPU,
         StopTick(c) \/ Retire(c) \/ Weigh(c) \/ Release(c) \/ Elect(c) \/ Claim(c)
  PROVE  IInv'
<1> USE DEF IInv, OwnerTicks, TypeOK, GiversOwn, GivesUp, ClaimersDoNotOwn, CpuState, Steps, Goes, Returns
<1>1. CASE StopTick(c)
  BY <1>1 DEF StopTick
<1>2. CASE Retire(c)
  BY <1>2, CpuIsNatural DEF Retire
<1>3. CASE Weigh(c)
  BY <1>3 DEF Weigh
<1>4. CASE Release(c)
  BY <1>4, CpuIsNatural DEF Release
<1>5. CASE Elect(c)
  <2> DEFINE r == IF load_balancer = None THEN [cpu[c] EXCEPT !.pc = "claim"]
                  ELSE [cpu[c] EXCEPT !.pc = "none", !.tick = (load_balancer = c)]
  <2>1. cpu' = [cpu EXCEPT ![c] = r]
    BY <1>5 DEF Elect
  <2>2. r \in CpuState
    OBVIOUS
  <2>3. cpu' \in [CPU -> CpuState] /\ \A d \in CPU : cpu'[d] = IF d = c THEN r ELSE cpu[d]
    BY <2>1, <2>2
  <2>4. /\ load_balancer = c => r.tick
        /\ r.pc = "none" \/ (r.pc = "claim" /\ load_balancer = None)
    BY CpuIsNatural
  <2> HIDE DEF CPU, CpuState, r
  <2> QED BY <1>5, <2>3, <2>4, CpuIsNatural, OtherStep DEF Elect
<1>6. CASE Claim(c)
  <2> DEFINE r == [cpu[c] EXCEPT !.pc = "none", !.tick = (load_balancer = None)]
  <2>1. cpu' = [cpu EXCEPT ![c] = r]
    BY <1>6 DEF Claim
  <2>2. r \in CpuState /\ r.pc = "none" /\ (load_balancer = None => r.tick)
    OBVIOUS
  <2>3. cpu' \in [CPU -> CpuState] /\ \A d \in CPU : cpu'[d] = IF d = c THEN r ELSE cpu[d]
    BY <2>1, <2>2
  <2> HIDE DEF CPU, CpuState, r
  <2>4. OwnerTicks'
    BY <1>6, <2>2, <2>3, CpuIsNatural DEF Claim
  <2>5. GiversOwn' /\ ClaimersDoNotOwn'
    BY <1>6, <2>2, <2>3, CpuIsNatural DEF Claim
  <2> QED BY <2>4, <2>5
<1> QED BY <1>1, <1>2, <1>3, <1>4, <1>5, <1>6

\* trigger_load_balance and select_nohz_load_balancer(0).
LEMMA TriggerStep ==
  ASSUME IInv, NEW c \in CPU,
         \/ trigger_load_balance(c) \/ Clear(c) \/ Disown(c)
         \/ Look(c) \/ Nominate(c) \/ Recount(c)
  PROVE  IInv'
<1> USE DEF IInv, OwnerTicks, TypeOK, GiversOwn, GivesUp, ClaimersDoNotOwn, CpuState, Steps, Goes, Kicked
<1>1. CASE trigger_load_balance(c)
  BY <1>1 DEF trigger_load_balance
<1>2. CASE Clear(c)
  BY <1>2, CpuIsNatural DEF Clear, Restarted
<1>3. CASE Disown(c)
  BY <1>3, CpuIsNatural DEF Disown
<1>4. CASE Look(c)
  BY <1>4 DEF Look
<1>5. CASE Nominate(c)
  <2>1. mask # {} => Min(mask) \in CPU
    BY MinOfNaturals, CpuIsNatural
  <2>2. \/ cpu' = [cpu EXCEPT ![c].pc = "none"]
        \/ mask # {} /\ cpu' = [cpu EXCEPT ![c].pc = "none", ![Min(mask)].kick = ~cpu[Min(mask)].busy]
    <3> HIDE DEF IInv, CpuState, CPU
    <3> QED BY <1>5, Zenon DEF Nominate, Goes, Kicked
  <2>3. \A d \in CPU : cpu'[d].tick = cpu[d].tick /\ cpu'[d].pc \in {cpu[d].pc, "none"}
    BY <2>1, <2>2
  <2>4. cpu' \in [CPU -> CpuState]
    <3> DEFINE r == [cpu[c] EXCEPT !.pc = "none"]
               mid == [cpu EXCEPT ![c] = r]
               k == [mid[Min(mask)] EXCEPT !.kick = ~cpu[Min(mask)].busy]
    <3>1. mid \in [CPU -> CpuState]
      OBVIOUS
    <3>2. cpu' = mid \/ (mask # {} /\ cpu' = [mid EXCEPT ![Min(mask)] = k])
      BY <2>2, <2>1
    <3> HIDE DEF mid
    <3>3. mask # {} => k \in CpuState
      <4> SUFFICES ASSUME mask # {} PROVE k \in CpuState
        OBVIOUS
      <4>1. mid[Min(mask)] \in CpuState
        BY <2>1, <3>1
      <4> HIDE DEF mid, IInv
      <4> QED BY <4>1
    <3> QED BY <2>1, <3>1, <3>2, <3>3
  <2> HIDE DEF CPU, CpuState
  <2> QED BY <1>5, <2>3, <2>4, OtherStep DEF Nominate
<1>6. CASE Recount(c)
  BY <1>6 DEF Recount
<1> QED BY <1>1, <1>2, <1>3, <1>4, <1>5, <1>6

\* CPU hotplug.
LEMMA HotplugStep ==
  ASSUME IInv, NEW c \in CPU,
         cpu_down(c) \/ cpu_down_failed(c) \/ take_cpu_down(c) \/ cpu_up(c)
  PROVE  IInv'
<1> USE DEF IInv, OwnerTicks, TypeOK, GivesUp, CpuState
<1>1. CASE cpu_down(c)
  BY <1>1, OtherStep DEF cpu_down
<1>2. CASE cpu_down_failed(c)
  BY <1>2, OtherStep DEF cpu_down_failed
<1>3. CASE take_cpu_down(c)
  <2> DEFINE r == [cpu[c] EXCEPT !.mode = "offline", !.work = FALSE, !.busy = FALSE, !.kick = FALSE]
  <2>1. cpu' = [cpu EXCEPT ![c] = r]
    BY <1>3 DEF take_cpu_down
  <2>2. r \in CpuState /\ r.tick = cpu[c].tick /\ r.pc = cpu[c].pc
    OBVIOUS
  <2>3. cpu' \in [CPU -> CpuState]
    BY <2>1, <2>2
  <2>4. \A d \in CPU : cpu'[d].tick = cpu[d].tick /\ cpu'[d].pc = cpu[d].pc
    BY <2>1, <2>2
  <2> HIDE DEF CpuState, r
  <2> QED BY <1>3, <2>3, <2>4, OtherStep DEF take_cpu_down
<1>4. CASE cpu_up(c)
  BY <1>4, OtherStep DEF cpu_up
<1> QED BY <1>1, <1>2, <1>3, <1>4

\* Every step keeps the invariant.
LEMMA IInvNext == IInv /\ [Next]_vars => IInv'
<1> SUFFICES ASSUME IInv, [Next]_vars PROVE IInv'
  OBVIOUS
<1>1. CASE UNCHANGED vars
  BY <1>1 DEF vars, IInv, OwnerTicks, TypeOK, GiversOwn, GivesUp, ClaimersDoNotOwn
<1>2. CASE Next
  BY <1>2, IdleLoopStep, SelectStep, TriggerStep, HotplugStep DEF Next, Continue
<1> QED BY <1>1, <1>2

\* The owner of the idle load balancing has its tick, in every interleaving of
\* the elections, the resignations and the hotplug of any number of CPUs, and
\* neither BUG of select_nohz_load_balancer is hit.
THEOREM OwnerAlwaysTicks == Spec => []OwnerTicks
<1>1. IInv => OwnerTicks
  BY DEF IInv
<1> QED BY <1>1, IInvInit, IInvNext, PTL DEF Spec
=============================================================================
