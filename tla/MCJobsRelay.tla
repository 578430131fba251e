----------------------------- MODULE MCJobsRelay -----------------------------
(* JobsRelay for TLC.  Processes are interchangeable.                       *)
EXTENDS JobsRelay, TLC

ProcSymmetry == Permutations(Procs)

==============================================================================
