--------------------------- MODULE MCRealtimeHub ---------------------------
(* Small instances of RealtimeHub for TLC.                                 *)
EXTENDS RealtimeHub, TLC

HubTopicSymmetry == Permutations(HubTopics) \cup Permutations(Hubs)
=============================================================================
