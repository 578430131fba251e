------------------------------- MODULE Outbox -------------------------------
(***************************************************************************)
(* What package jobs promises of a message: once its transaction commits   *)
(* it is pending until it is resolved (its handler took it, or it went to  *)
(* the dead letters) and acknowledged, and only then may it be removed.    *)
(* Scans, watermarks, pages, retries and crashes are not mentioned.        *)
(***************************************************************************)
EXTENDS FiniteSets

CONSTANT Ids

VARIABLES
    box,      \* of a message: "none", "pending", "handled", "removed"
    resolved  \* messages taken by their handler or parked

vars == <<box, resolved>>

Init == box = [m \in Ids |-> "none"] /\ resolved = {}

Put(m) ==
    /\ box[m] = "none"
    /\ box' = [box EXCEPT ![m] = "pending"]
    /\ UNCHANGED resolved

\* Delivery comes before its acknowledgement, and may be repeated.
Deliver(m) ==
    /\ box[m] # "none"
    /\ resolved' = resolved \cup {m}
    /\ UNCHANGED box

Acknowledge(m) ==
    /\ box[m] = "pending" /\ m \in resolved
    /\ box' = [box EXCEPT ![m] = "handled"]
    /\ UNCHANGED resolved

\* Parking writes the dead letter and the acknowledgement together.
Park(m) ==
    /\ box[m] = "pending"
    /\ box' = [box EXCEPT ![m] = "handled"]
    /\ resolved' = resolved \cup {m}

Remove(S) ==
    /\ \A m \in S : box[m] = "handled"
    /\ box' = [m \in Ids |-> IF m \in S THEN "removed" ELSE box[m]]
    /\ UNCHANGED resolved

Next ==
    \/ \E m \in Ids : Put(m) \/ Deliver(m) \/ Acknowledge(m) \/ Park(m)
    \/ \E S \in SUBSET Ids : Remove(S)

Spec == Init /\ [][Next]_vars

=============================================================================
