---------------------------- MODULE MCBackground ----------------------------
(* What works beside requests, for TLC: the jobs scheduler, the replica of *)
(* the policies, and identity's background work with the Close that ends   *)
(* it.  The parts share no state.  A behaviour is one of one part, named   *)
(* by part, the others resting in one of their initial states, so that the *)
(* run's states are those of all the parts taken together.                 *)
EXTENDS JobsScheduler, Rbac, IdentityClose, TLC

CONSTANTS e1, e2

VARIABLE part

QueueAndAllow == e1 :> "queue" @@ e2 :> "allow"

BackgroundInit ==
  /\ part \in {"jobs", "rbac", "close"}
  /\ SchedulerInit /\ RbacInit /\ CloseInit
  /\ part # "close" => sweeper = "waits"

JobsPart == part = "jobs" /\ SchedulerNext /\ UNCHANGED <<rbacVars, closeVars>>
RbacPart == part = "rbac" /\ RbacNext /\ UNCHANGED <<schedulerVars, closeVars>>
ClosePart == part = "close" /\ CloseNext /\ UNCHANGED <<schedulerVars, rbacVars>>

BackgroundNext ==
  /\ JobsPart \/ RbacPart \/ ClosePart
  /\ UNCHANGED part

(* The fairness of every part, as its module states it: at rest none of    *)
(* the steps a part is fair to is enabled.                                 *)
BackgroundSpec ==
  /\ BackgroundInit /\ [][BackgroundNext]_<<part, schedulerVars, rbacVars, closeVars>>
  /\ SchedulerFairness /\ RbacFairness /\ CloseFairness
=============================================================================
