-------------------------------- MODULE Nohz --------------------------------
(***************************************************************************)
(* The election of the idle load balancer: select_nohz_load_balancer and   *)
(* trigger_load_balance of src/sched.c, on CPUs that stop and restart      *)
(* their ticks and go offline, interleaved at each access to nohz.cpu_mask *)
(* and nohz.load_balancer.                                                 *)
(*                                                                         *)
(* The idle loop and tick_nohz_stop_sched_tick, tick_nohz_restart_sched_   *)
(* tick are external: a CPU offers itself (stop_tick = 1) whenever it is   *)
(* idle with its tick running, and takes part again (stop_tick = 0) when it*)
(* leaves the idle loop with its tick stopped.                             *)
(***************************************************************************)
EXTENDS Integers, FiniteSets, FiniteSetsExt

CONSTANTS
    NR,        \* number of CPUs
    Pluggable  \* bound: the CPUs that go offline and come back

CPU == 0..(NR - 1)
None == -1

ASSUME CpuAssumption == NR \in Nat \ {0} /\ Pluggable \subseteq CPU

VARIABLES
    cpu,            \* see CpuState
    mask,           \* nohz.cpu_mask
    load_balancer,  \* nohz.load_balancer
    bug             \* a BUG() was hit

vars == <<cpu, mask, load_balancer, bug>>

\* What a CPU does next: nothing of this module, or the next step of
\* select_nohz_load_balancer(1), select_nohz_load_balancer(0) or
\* trigger_load_balance.  Interrupts are off in all three.
Steps == {"none", "retire", "weigh", "release", "elect", "claim",
          "clear", "disown", "look", "nominate", "recount"}

\* cpu_active and cpu_online; tasks to run; curr is not the idle task;
\* need_resched of the idle task; in_nohz_recently.
CpuState ==
    [mode : {"active", "leaving", "offline"}, work : BOOLEAN, busy : BOOLEAN,
     kick : BOOLEAN, tick : BOOLEAN, recently : BOOLEAN, pc : Steps]

Online == {c \in CPU : cpu[c].mode # "offline"}

Goes(c, step) == cpu' = [cpu EXCEPT ![c].pc = step]
\* select_nohz_load_balancer(1) returns; with 0 the tick is stopped.
Returns(c, owner) == cpu' = [cpu EXCEPT ![c].pc = "none", ![c].tick = owner]

Init ==
    /\ cpu = [c \in CPU |-> [mode |-> "active", work |-> FALSE, busy |-> FALSE, kick |-> FALSE,
                             tick |-> TRUE, recently |-> FALSE, pc |-> "none"]]
    /\ mask = {} /\ load_balancer = None /\ bug = FALSE

-----------------------------------------------------------------------------
(* Tasks come and go; the idle loop.                                       *)

Wakeup(c) ==
    /\ cpu[c].mode # "offline" /\ ~cpu[c].work
    /\ cpu' = [cpu EXCEPT ![c].work = TRUE, ![c].kick = TRUE]
    /\ UNCHANGED <<mask, load_balancer, bug>>

GoIdle(c) ==
    /\ cpu[c].busy /\ cpu[c].pc = "none"
    /\ cpu' = [cpu EXCEPT ![c].work = FALSE, ![c].busy = FALSE, ![c].kick = FALSE]
    /\ UNCHANGED <<mask, load_balancer, bug>>

LeaveIdle(c) ==
    /\ cpu[c].kick /\ ~cpu[c].busy /\ cpu[c].pc = "none" /\ cpu[c].mode # "offline"
    /\ cpu' = IF cpu[c].tick
              THEN [cpu EXCEPT ![c].kick = FALSE, ![c].busy = cpu[c].work]
              ELSE [cpu EXCEPT ![c].pc = "clear"]
    /\ UNCHANGED <<mask, load_balancer, bug>>

-----------------------------------------------------------------------------
(* select_nohz_load_balancer(1).                                           *)

StopTick(c) ==
    /\ cpu[c].tick /\ ~cpu[c].busy /\ ~cpu[c].kick /\ cpu[c].pc = "none"
    /\ IF cpu[c].mode = "active"
       THEN /\ mask' = mask \union {c}
            /\ cpu' = [cpu EXCEPT ![c].recently = TRUE, ![c].pc = "weigh"]
       ELSE /\ UNCHANGED mask
            /\ cpu' = [cpu EXCEPT ![c].recently = TRUE,
                                  ![c].tick = (load_balancer = c),
                                  ![c].pc = IF load_balancer = c THEN "retire" ELSE "none"]
    /\ UNCHANGED <<load_balancer, bug>>

\* If we are going offline and still the leader, give up!
Retire(c) ==
    /\ cpu[c].pc = "retire" /\ Returns(c, FALSE)
    /\ load_balancer' = IF load_balancer = c THEN None ELSE load_balancer
    /\ bug' = (bug \/ load_balancer # c)
    /\ UNCHANGED mask

\* Faulty variant: the owner does not count itself.
WeighsOthers(c) ==
    /\ cpu[c].pc = "weigh"
    /\ CASE Cardinality(mask \ {c}) # Cardinality(Online) -> Goes(c, "elect")
         [] Cardinality(mask \ {c}) = Cardinality(Online) /\ load_balancer = c -> Goes(c, "release")
         [] OTHER -> Returns(c, FALSE)
    /\ UNCHANGED <<mask, load_balancer, bug>>

\* Time for the owner also to sleep, when all are in the mask.
Weigh(c) ==
    /\ cpu[c].pc = "weigh"
    /\ CASE Cardinality(mask) # Cardinality(Online) -> Goes(c, "elect")
         [] Cardinality(mask) = Cardinality(Online) /\ load_balancer = c -> Goes(c, "release")
         [] OTHER -> Returns(c, FALSE)
    /\ UNCHANGED <<mask, load_balancer, bug>>

Release(c) ==
    /\ cpu[c].pc = "release" /\ Returns(c, FALSE)
    /\ load_balancer' = None
    /\ UNCHANGED <<mask, bug>>

Elect(c) ==
    /\ cpu[c].pc = "elect"
    /\ IF load_balancer = None THEN Goes(c, "claim") ELSE Returns(c, load_balancer = c)
    /\ UNCHANGED <<mask, load_balancer, bug>>

\* Faulty variant: the owner is stored without looking at it again.
ClaimsBlindly(c) ==
    /\ cpu[c].pc = "claim" /\ Returns(c, TRUE)
    /\ load_balancer' = c
    /\ UNCHANGED <<mask, bug>>

Claim(c) ==
    /\ cpu[c].pc = "claim" /\ Returns(c, load_balancer = None)
    /\ load_balancer' = IF load_balancer = None THEN c ELSE load_balancer
    /\ UNCHANGED <<mask, bug>>

-----------------------------------------------------------------------------
(* select_nohz_load_balancer(0), on the way out of the idle loop.          *)

Restarted(c) == [cpu EXCEPT ![c].tick = TRUE, ![c].kick = FALSE, ![c].pc = "none",
                            ![c].busy = cpu[c].work]

\* An owner has its tick and does not come here (OwnerTicks): its exchange is
\* not a step of its own.
Clear(c) ==
    /\ cpu[c].pc = "clear" /\ mask' = mask \ {c}
    /\ cpu' = Restarted(c)
    /\ load_balancer' = IF c \in mask /\ load_balancer = c THEN None ELSE load_balancer
    /\ UNCHANGED bug

-----------------------------------------------------------------------------
(* trigger_load_balance, at the end of scheduler_tick.                     *)

\* Faulty variant: a CPU that finds work keeps the ownership.
KeepsOwning(c) ==
    /\ cpu[c].tick /\ cpu[c].pc = "none"
    /\ IF cpu[c].busy THEN cpu[c].recently ELSE load_balancer = c
    /\ cpu' = [cpu EXCEPT ![c].recently = ~cpu[c].busy,
                          ![c].pc = IF cpu[c].busy THEN "look" ELSE "recount"]
    /\ UNCHANGED <<mask, load_balancer, bug>>

\* Busy, and in the nohz mode recently: look for a new owner.  Idle and the
\* owner: is it time for that to stop?
trigger_load_balance(c) ==
    /\ cpu[c].tick /\ cpu[c].pc = "none"
    /\ IF cpu[c].busy
       THEN /\ cpu[c].recently
            /\ IF load_balancer = c
               THEN mask' = mask \ {c}
                    /\ cpu' = [cpu EXCEPT ![c].recently = FALSE, ![c].pc = "disown"]
               ELSE UNCHANGED mask
                    /\ cpu' = [cpu EXCEPT ![c].recently = FALSE, ![c].pc = "look"]
       ELSE load_balancer = c /\ Goes(c, "recount") /\ UNCHANGED mask
    /\ UNCHANGED <<load_balancer, bug>>

Disown(c) ==
    /\ cpu[c].pc = "disown" /\ Goes(c, "look")
    /\ load_balancer' = None
    /\ UNCHANGED <<mask, bug>>

\* resched_cpu gives up when rq->lock is taken.
Kicked(c, target) == [cpu EXCEPT ![c].pc = "none", ![target].kick = ~cpu[target].busy]

Look(c) ==
    /\ cpu[c].pc = "look"
    /\ Goes(c, IF load_balancer = None THEN "nominate" ELSE "none")
    /\ UNCHANGED <<mask, load_balancer, bug>>

Nominate(c) ==
    /\ cpu[c].pc = "nominate"
    /\ \/ Goes(c, "none")
       \/ mask # {} /\ cpu' = Kicked(c, Min(mask))
    /\ UNCHANGED <<mask, load_balancer, bug>>

Recount(c) ==
    /\ cpu[c].pc = "recount"
    /\ \/ Goes(c, "none")
       \/ Cardinality(mask) = Cardinality(Online) /\ cpu' = Kicked(c, c)
    /\ UNCHANGED <<mask, load_balancer, bug>>

-----------------------------------------------------------------------------
(* CPU hotplug: set_cpu_active; stop_machine, in whose threads every CPU   *)
(* is when one leaves; a last turn through the idle loop.                  *)

cpu_down(c) ==
    /\ c \in Pluggable /\ cpu[c].mode = "active" /\ Cardinality(Online) > 1
    /\ \A o \in CPU : cpu[o].mode # "leaving"
    /\ cpu' = [cpu EXCEPT ![c].mode = "leaving"]
    /\ UNCHANGED <<mask, load_balancer, bug>>

cpu_down_failed(c) ==
    /\ cpu[c].mode = "leaving" /\ cpu' = [cpu EXCEPT ![c].mode = "active"]
    /\ UNCHANGED <<mask, load_balancer, bug>>

take_cpu_down(c) ==
    /\ cpu[c].mode = "leaving"
    /\ \A o \in Online : cpu[o].busy /\ cpu[o].pc = "none"
    /\ cpu' = [cpu EXCEPT ![c].mode = "offline", ![c].work = FALSE, ![c].busy = FALSE,
                          ![c].kick = FALSE]
    /\ UNCHANGED <<mask, load_balancer, bug>>

cpu_up(c) ==
    /\ cpu[c].mode = "offline" /\ ~cpu[c].tick /\ cpu[c].pc = "none"
    /\ cpu' = [cpu EXCEPT ![c].mode = "active", ![c].tick = TRUE, ![c].kick = FALSE]
    /\ UNCHANGED <<mask, load_balancer, bug>>

-----------------------------------------------------------------------------
\* select_nohz_load_balancer and trigger_load_balance go on.
Continue(c) ==
    \/ Retire(c) \/ Weigh(c) \/ Release(c) \/ Elect(c) \/ Claim(c)
    \/ Clear(c) \/ Disown(c) \/ Look(c) \/ Nominate(c) \/ Recount(c)

Next ==
    \E c \in CPU :
        \/ Wakeup(c) \/ GoIdle(c) \/ LeaveIdle(c) \/ StopTick(c)
        \/ trigger_load_balance(c) \/ Continue(c)
        \/ cpu_down(c) \/ cpu_down_failed(c) \/ take_cpu_down(c) \/ cpu_up(c)

\* Code goes on, ticks come, an idle CPU leaves the idle loop when it is told to
\* or tries to stop its tick again at the end of every interrupt.
Fairness ==
    \A c \in CPU :
        /\ WF_vars(Continue(c)) /\ SF_vars(LeaveIdle(c)) /\ SF_vars(StopTick(c))
        /\ WF_vars(trigger_load_balance(c))

Spec == Init /\ [][Next]_vars /\ Fairness
-----------------------------------------------------------------------------
TypeOK ==
    /\ cpu \in [CPU -> CpuState] /\ mask \subseteq CPU
    /\ load_balancer \in CPU \union {None} /\ bug \in BOOLEAN

(* There is one owner or none, whatever the interleaving: the exchanges of *)
(* select_nohz_load_balancer never fail (BUG), and "for the ilb owner,     *)
(* tick is not stopped".                                                   *)
OwnerTicks ==
    /\ TypeOK /\ ~bug
    /\ \A c \in CPU : load_balancer = c => cpu[c].tick

(* A busy owner gives up at a tick. *)
OwnerGivesUp == \A c \in CPU : load_balancer = c /\ cpu[c].busy ~> load_balancer # c \/ ~cpu[c].busy

(* If all the CPUs in the system go into the tickless mode, there will be  *)
(* no owner and all will sleep; unless a hotplug operation left a CPU in   *)
(* the mask that is gone, or a tickless one out of it.                     *)
Quiet == \A c \in CPU : ~cpu[c].work /\ cpu[c].mode # "leaving"
Accounted == mask \subseteq Online /\ \A c \in Online \ mask : cpu[c].tick
AllSleep == <>[](Quiet /\ Accounted) => <>[](\A c \in Online : ~cpu[c].tick)

(* What the comment at select_nohz_load_balancer says of every such time.  *)
AllSleepAlways == <>[]Quiet => <>[](\A c \in Online : ~cpu[c].tick)
=============================================================================
