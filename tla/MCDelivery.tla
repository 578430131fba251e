----------------------------- MODULE MCDelivery -----------------------------
(* Delivery, for TLC: one process's scans of the outbox, the dead letters, *)
(* a hub whose client resumes after its connection broke, and the tickets  *)
(* that open such connections.  The parts share no state.  A behaviour is  *)
(* one of one part, named by part, the others resting in one state, so     *)
(* that the run's states are those of all the parts taken together.        *)
EXTENDS JobsRelay, DeadLetters, RealtimeHub, RealtimeTickets, TLC

VARIABLE part

MCCreatedAt == <<2, 1, 2>>

(* The callers of the tickets, those of the dead letters and the topics of *)
(* the hub are the same two model values, interchangeable in each part.    *)
DeliverySymmetry == Permutations(Takers \cup HubTopics \cup Calls)

DeliveryInit ==
  /\ part \in {"relay", "dead letters", "hub", "tickets"}
  /\ Init /\ DeadInit /\ HubInit /\ TicketsInit
  /\ part # "tickets" => InRedis

RelayPart == part = "relay" /\ Next /\ UNCHANGED <<deadVars, hubVars, ticketVars>>
DeadPart == part = "dead letters" /\ DeadNext /\ UNCHANGED <<vars, hubVars, ticketVars>>
HubPart == part = "hub" /\ HubNext /\ UNCHANGED <<vars, deadVars, ticketVars>>
TicketsPart == part = "tickets" /\ TicketsNext /\ UNCHANGED <<vars, deadVars, hubVars>>

DeliveryNext ==
  /\ RelayPart \/ DeadPart \/ HubPart \/ TicketsPart
  /\ UNCHANGED part

DeliverySpec == DeliveryInit /\ [][DeliveryNext]_<<part, vars, deadVars, hubVars, ticketVars>>
=============================================================================
