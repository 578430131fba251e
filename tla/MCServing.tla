----------------------------- MODULE MCServing -----------------------------
(* What a request lives in, for TLC: the App, from Use to the end of its   *)
(* stop, and the cache with its breaker.  The parts share no state.  A     *)
(* behaviour is one of one part, named by part, the other resting in one   *)
(* of its initial states, so that the run's states are those of both.      *)
EXTENDS AppLifecycle, Cache

VARIABLE part

ServingInit ==
  /\ part \in {"app", "cache"}
  /\ Init /\ CacheInit
  /\ part # "app" => http
  /\ part # "cache" => redis

AppPart == part = "app" /\ Next /\ UNCHANGED cacheVars
CachePart == part = "cache" /\ CacheNext /\ UNCHANGED vars

ServingNext ==
  /\ AppPart \/ CachePart
  /\ UNCHANGED part

(* The fairness of both, as their modules state it, but for the steps of   *)
(* the cache's callers, who keep calling: theirs is for their own part.    *)
ServingSpec ==
  /\ ServingInit /\ [][ServingNext]_<<part, vars, cacheVars>>
  /\ WF_vars(Steps)
  /\ \A c \in Callers :
       WF_cacheVars(part = "cache" /\ Step(c)) /\ WF_cacheVars(~ caller[c].stuck /\ (Answered(c) \/ Failed(c)))
  /\ WF_cacheVars(ResetPasses) /\ WF_cacheVars(ProbeHangs)
=============================================================================
