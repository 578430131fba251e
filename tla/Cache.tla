------------------------------- MODULE Cache -------------------------------
(***************************************************************************)
(* The cache battery (cache/cache.go, layers.go, flight.go, breaker.go):   *)
(* GetOrLoad over a memory layer and a Redis layer behind a circuit        *)
(* breaker, with concurrent loads of a key sharing one call.               *)
(*                                                                         *)
(* One key.  What the properties tell apart is whether a layer holds it,   *)
(* so values are left out.  Callers run GetOrLoad or Delete, again and     *)
(* again; a step is one critical section, one layer call or one return of  *)
(* Redis or of load.  Set is the two writes of a leader.                   *)
(***************************************************************************)
EXTENDS Integers, FiniteSets

CONSTANTS
  Callers,
  Threshold, Successes, \* Config.Breaker
  MaxStuck              \* bound: calls Redis never answers, at a time

ASSUME CacheAssumption ==
  /\ Threshold \in Nat \ {0} /\ Successes \in Nat \ {0}
  /\ MaxStuck \in Nat /\ IsFiniteSet(Callers) /\ "none" \notin Callers

VARIABLES
  memory, redis,  \* whether the layer holds the key
  up,             \* Redis answers
  state, failures, streak, probing,  \* the breaker
  rested,         \* reset has passed since openedAt
  overdue,        \* reset has passed since probeAt
  caller,         \* what each caller is doing
  leader,         \* the caller whose load is in flight, None for none
  loads,          \* history: loads under a live ctx that succeeded since the memory layer lost the key
  blamed          \* history: failures of Redis itself since it last answered a call made while closed

breaker == <<state, failures, streak, probing, rested, overdue>>
layers == <<memory, redis>>
cacheVars == <<layers, up, breaker, caller, leader, loads, blamed>>

None == "none"

(* what: the Redis call in flight or about to be made.  second: the Get    *)
(* inside the flight.  late: a probe the breaker has given up on.          *)
Caller ==
  [op : {"load", "delete"}, what : {"get", "set", "del"}, second : BOOLEAN,
   pc : {"idle", "memory", "allow", "redis", "fill", "join", "wait", "load", "store", "land"},
   probe : BOOLEAN, late : BOOLEAN, stuck : BOOLEAN, done : BOOLEAN]

Resting == [op |-> "load", what |-> "get", second |-> FALSE, pc |-> "idle",
            probe |-> FALSE, late |-> FALSE, stuck |-> FALSE, done |-> FALSE]

CacheInit ==
  /\ memory = FALSE /\ redis \in BOOLEAN
  /\ up = TRUE
  /\ state = "closed" /\ failures = 0 /\ streak = 0 /\ probing = FALSE
  /\ rested = FALSE /\ overdue = FALSE
  /\ caller = [c \in Callers |-> Resting]
  /\ leader = None
  /\ loads = 0 /\ blamed = 0

Put(c, r) == caller' = [caller EXCEPT ![c] = r]
Goto(c, pc) == [caller[c] EXCEPT !.pc = pc, !.probe = FALSE, !.late = FALSE, !.stuck = FALSE]

(* done is the caller's ctx: it may end at any time, of which these are    *)
(* the places the code looks at it next.                                   *)
CallerCtxEnds(c) ==
  /\ caller[c].pc \in {"memory", "redis", "wait"} /\ ~ caller[c].done
  /\ Put(c, [caller[c] EXCEPT !.done = TRUE])
  /\ UNCHANGED <<layers, up, breaker, leader, loads, blamed>>

Begin(c) ==
  /\ caller[c].pc = "idle"
  /\ \/ Put(c, [Resting EXCEPT !.pc = "memory"])
     \/ Put(c, [Resting EXCEPT !.pc = "memory", !.op = "delete", !.what = "del"])
  /\ UNCHANGED <<layers, up, breaker, leader, loads, blamed>>

(* Where a Get goes that found the key, and one that did not.              *)
Hit(c) == IF caller[c].second THEN Goto(c, "land") ELSE Resting
Miss(c) == IF caller[c].second THEN Goto(c, "load") ELSE Goto(c, "join")

(* Get's lookup in the memory layer.  A Get whose ctx has ended looks      *)
(* nowhere, which to GetOrLoad is a miss.                                  *)
Get(c) ==
  /\ caller[c].pc = "memory" /\ caller[c].op = "load"
  /\ Put(c, IF caller[c].done THEN Miss(c) ELSE IF memory THEN Hit(c) ELSE Goto(c, "allow"))
  /\ UNCHANGED <<layers, up, breaker, leader, loads, blamed>>

(* Delete empties the memory layer, then goes on to Redis.                 *)
Delete(c) ==
  /\ caller[c].pc = "memory" /\ caller[c].op = "delete"
  /\ memory' = FALSE /\ loads' = 0
  /\ Put(c, Goto(c, "allow"))
  /\ UNCHANGED <<redis, up, breaker, leader, blamed>>

(* The memory layer's TTL or capacity.                                     *)
Evict ==
  /\ memory
  /\ memory' = FALSE /\ loads' = 0
  /\ UNCHANGED <<redis, up, breaker, caller, leader, blamed>>

Expire ==
  /\ redis /\ up
  /\ redis' = FALSE
  /\ UNCHANGED <<memory, up, breaker, caller, leader, loads, blamed>>

-----------------------------------------------------------------------------
(* The breaker.                                                            *)

(* Where a call goes that Redis did not serve: a miss, or a write skipped. *)
Skipped(c) == CASE caller[c].what = "get" -> Miss(c)
                [] caller[c].what = "set" -> Goto(c, "land")
                [] caller[c].what = "del" -> Resting

Asks(c, probe) == [caller EXCEPT ![c] = [caller[c] EXCEPT !.pc = "redis", !.probe = probe]]

(* reopen: every probe in flight is given up on.                           *)
Probes == {c \in Callers : caller[c].pc = "redis" /\ caller[c].probe}
Abandoned == [d \in Callers |-> IF d \in Probes THEN [caller[d] EXCEPT !.late = TRUE] ELSE caller[d]]

allow_WaitsForProbe(c) ==
  /\ caller[c].pc = "allow"
  /\ \/ /\ state = "closed"
        /\ caller' = Asks(c, FALSE)
        /\ UNCHANGED breaker
     \/ /\ (state = "open" /\ ~ rested) \/ (state = "halfOpen" /\ probing)
        /\ Put(c, Skipped(c))
        /\ UNCHANGED breaker
     \/ /\ (state = "open" /\ rested) \/ (state = "halfOpen" /\ ~ probing)
        /\ state' = "halfOpen"
        /\ streak' = IF state = "open" THEN 0 ELSE streak
        /\ probing' = TRUE /\ overdue' = FALSE
        /\ caller' = Asks(c, TRUE)
        /\ UNCHANGED <<failures, rested>>
  /\ UNCHANGED <<layers, up, leader, loads, blamed>>
allow(c) ==
  /\ caller[c].pc = "allow"
  /\ \/ /\ state = "closed"
        /\ caller' = Asks(c, FALSE)
        /\ UNCHANGED breaker
     \/ /\ (state = "open" /\ ~ rested) \/ (state = "halfOpen" /\ probing /\ ~ overdue)
        /\ Put(c, Skipped(c))
        /\ UNCHANGED breaker
     \/ /\ (state = "open" /\ rested) \/ (state = "halfOpen" /\ ~ probing)
        /\ state' = "halfOpen"
        /\ streak' = IF state = "open" THEN 0 ELSE streak
        /\ probing' = TRUE /\ overdue' = FALSE
        /\ caller' = Asks(c, TRUE)
        /\ UNCHANGED <<failures, rested>>
     \/ /\ state = "halfOpen" /\ probing /\ overdue
        /\ state' = "open" /\ rested' = FALSE /\ streak' = 0 /\ probing' = FALSE
        /\ caller' = [Abandoned EXCEPT ![c] = Skipped(c)]
        /\ UNCHANGED <<failures, overdue>>
  /\ UNCHANGED <<layers, up, leader, loads, blamed>>

(* What a call's outcome does to the breaker: ok is whether Redis          *)
(* answered, counts whether the outcome is counted.                        *)
Count(counts, ok, probe) ==
  LET opens  == counts /\ ~ ok /\ (state = "halfOpen" \/ failures + 1 >= Threshold)
      closes == counts /\ ok /\ state = "halfOpen" /\ streak + 1 >= Successes
  IN  /\ state' = (IF opens THEN "open" ELSE IF closes THEN "closed" ELSE state)
      /\ failures' = (CASE closes                       -> 0
                        [] ~ counts \/ state # "closed" -> failures
                        [] ok                           -> 0
                        [] OTHER                        -> failures + 1)
      /\ streak' = (IF ~ counts \/ state # "halfOpen" THEN streak ELSE IF ok /\ ~ closes THEN streak + 1 ELSE 0)
      /\ probing' = (probing /\ ~ probe)
      /\ rested' = (rested /\ ~ opens)

(* record: gaveUp is that the caller's ctx is to blame, not Redis.         *)
record_CountsStragglers(ok, probe, gaveUp) == Count(~ gaveUp /\ state # "open", ok, probe)
record(ok, probe, gaveUp) == Count(~ gaveUp /\ (state = "closed" \/ (state = "halfOpen" /\ probe)), ok, probe)

Blame(ok, gaveUp) ==
  blamed' = IF ok /\ state \in {"closed", "halfOpen"} THEN 0
            ELSE IF ~ ok /\ ~ gaveUp /\ blamed < Threshold THEN blamed + 1 ELSE blamed

(* Redis answers: its effect and the reply in one step.                    *)
Answered(c) ==
  LET r == caller[c]
  IN  /\ r.pc = "redis" /\ up /\ ~ r.stuck
      /\ record(TRUE, r.probe, FALSE)
      /\ Blame(TRUE, FALSE)
      /\ redis' = (CASE r.what = "set" -> TRUE [] r.what = "del" -> FALSE [] OTHER -> redis)
      /\ Put(c, IF r.what # "get" THEN Skipped(c) ELSE IF redis THEN Goto(c, "fill") ELSE Miss(c))
      /\ UNCHANGED <<memory, up, overdue, leader, loads>>

(* The call fails: Redis is in trouble, the reply to a write that took     *)
(* effect is lost, the probe's own timeout passes, or the caller's ctx     *)
(* ended.                                                                  *)
Failed(c) ==
  LET r == caller[c]
      gaveUp == ~ r.probe /\ r.done
      opened == IF state = "halfOpen" /\ r.probe THEN [Abandoned EXCEPT ![c] = Skipped(c)]
                ELSE [caller EXCEPT ![c] = Skipped(c)]
  IN  /\ r.pc = "redis" /\ (~ up \/ r.stuck \/ gaveUp)
      /\ record(FALSE, r.probe, gaveUp)
      /\ Blame(FALSE, gaveUp)
      /\ redis' \in {redis} \cup (CASE r.what = "set" -> {TRUE} [] r.what = "del" -> {FALSE} [] OTHER -> {})
      /\ caller' = opened
      /\ UNCHANGED <<memory, up, overdue, leader, loads>>

(* A call whose connection is dead may come back late, or never.           *)
Sticks(c) ==
  /\ caller[c].pc = "redis" /\ ~ up /\ ~ caller[c].stuck
  /\ Cardinality({d \in Callers : caller[d].stuck}) < MaxStuck
  /\ Put(c, [caller[c] EXCEPT !.stuck = TRUE])
  /\ UNCHANGED <<layers, up, breaker, leader, loads, blamed>>

RedisFails ==
  /\ up /\ up' = FALSE
  /\ UNCHANGED <<layers, breaker, caller, leader, loads, blamed>>
RedisHeals ==
  /\ ~ up /\ up' = TRUE
  /\ UNCHANGED <<layers, breaker, caller, leader, loads, blamed>>

(* The clock: reset has passed since the breaker opened, or since the      *)
(* probe in flight began, which takes a Redis that does not answer it.     *)
ResetPasses ==
  /\ state = "open" /\ ~ rested /\ rested' = TRUE
  /\ UNCHANGED <<layers, up, state, failures, streak, probing, overdue, caller, leader, loads, blamed>>
ProbeHangs ==
  /\ probing /\ ~ overdue /\ overdue' = TRUE
  /\ \E c \in Probes : ~ caller[c].late /\ (~ up \/ caller[c].stuck)
  /\ UNCHANGED <<layers, up, state, failures, streak, probing, rested, caller, leader, loads, blamed>>

-----------------------------------------------------------------------------
(* Get copies what Redis had into the memory layer.                        *)
Fill(c) ==
  /\ caller[c].pc = "fill"
  /\ memory' = TRUE
  /\ Put(c, Hit(c))
  /\ UNCHANGED <<redis, up, breaker, leader, loads, blamed>>

(* flight.do: join the call in flight, or become its leader.               *)
Join(c) ==
  /\ caller[c].pc = "join"
  /\ \/ /\ leader = None
        /\ leader' = c
        /\ Put(c, [Goto(c, "memory") EXCEPT !.second = TRUE])
     \/ /\ leader # None
        /\ Put(c, Goto(c, "wait"))
        /\ UNCHANGED leader
  /\ UNCHANGED <<layers, up, breaker, loads, blamed>>

(* load returns a value, which the leader stores, first in memory.         *)
Loaded(c) ==
  /\ caller[c].pc = "load"
  /\ Put(c, Goto(c, "store"))
  /\ loads' = IF loads < 2 /\ ~ caller[c].done THEN loads + 1 ELSE loads
  /\ UNCHANGED <<layers, up, breaker, leader, blamed>>

(* The call is over: the waiters get its result.                           *)
Woken == [d \in Callers |-> IF caller[d].pc = "wait" THEN Resting ELSE caller[d]]

(* load returns an error or panics: nothing is stored.                     *)
LoadFails_PanicForgotten(c) ==
  /\ caller[c].pc = "load"
  /\ Put(c, Resting)
  /\ UNCHANGED <<layers, up, breaker, leader, loads, blamed>>
LoadFails(c) ==
  /\ caller[c].pc = "load"
  /\ leader' = None
  /\ caller' = [Woken EXCEPT ![c] = Resting]
  /\ UNCHANGED <<layers, up, breaker, loads, blamed>>

Store(c) ==
  /\ caller[c].pc = "store"
  /\ memory' = TRUE
  /\ Put(c, [Goto(c, "allow") EXCEPT !.what = "set"])
  /\ UNCHANGED <<redis, up, breaker, leader, loads, blamed>>

Land(c) ==
  /\ caller[c].pc = "land"
  /\ leader' = None
  /\ caller' = [Woken EXCEPT ![c] = Resting]
  /\ UNCHANGED <<layers, up, breaker, loads, blamed>>

(* A waiter whose ctx ends stops waiting.                                  *)
Leave(c) ==
  /\ caller[c].pc = "wait" /\ caller[c].done
  /\ Put(c, Resting)
  /\ UNCHANGED <<layers, up, breaker, leader, loads, blamed>>

-----------------------------------------------------------------------------
Step(c) ==
  Begin(c) \/ Get(c) \/ Delete(c) \/ allow(c) \/ Fill(c) \/ Join(c) \/ Loaded(c) \/ LoadFails(c) \/ Store(c) \/ Land(c) \/ Leave(c)

CacheNext ==
  \/ \E c \in Callers : Step(c) \/ CallerCtxEnds(c) \/ Answered(c) \/ Failed(c) \/ Sticks(c)
  \/ Evict \/ Expire \/ RedisFails \/ RedisHeals \/ ResetPasses \/ ProbeHangs

CacheSpec == CacheInit /\ [][CacheNext]_cacheVars

(* Callers keep calling and every goroutine runs; time passes; load        *)
(* returns; Redis answers or fails every call that is not stuck.           *)
CacheFairness ==
  /\ \A c \in Callers : WF_cacheVars(Step(c)) /\ WF_cacheVars(~ caller[c].stuck /\ (Answered(c) \/ Failed(c)))
  /\ WF_cacheVars(ResetPasses) /\ WF_cacheVars(ProbeHangs)

LiveCache == CacheSpec /\ CacheFairness

-----------------------------------------------------------------------------
(* Concurrent misses of a key share one call of load: no two callers are   *)
(* in load at once, and a caller that missed before another one loaded and *)
(* stored the value does not load it again, because the flight looks a     *)
(* second time.  (One whose ctx has ended does load again: its second look *)
(* fails.)                                                                 *)
LoadedOnce ==
  /\ Cardinality({c \in Callers : caller[c].pc \in {"load", "store"}}) <= 1
  /\ loads <= 1

(* Whoever waits in the flight waits for a leader that is still at work:   *)
(* whatever load did, a panic included, the key left the flight with the   *)
(* leader and the waiters were released.                                   *)
WaitersLed ==
  /\ \A c \in Callers : caller[c].pc = "wait" => leader # None
  /\ leader # None => caller[leader].second /\ caller[leader].pc # "wait"

(* One load serves everyone who missed, and leaves no one behind.          *)
FlightHolds == LoadedOnce /\ WaitersLed

(* The breaker opens from closed only for Threshold failures of Redis      *)
(* since it last answered: a caller that gave up is never counted.         *)
OpensForCause == [][(state = "closed" /\ state' = "open") => blamed' >= Threshold]_cacheVars

(* A call that began before the breaker opened, and ends while it is open  *)
(* or half-open, neither opens nor closes it.                              *)
StragglersIgnored ==
  [][\A c \in Callers :
       (caller[c].pc = "redis" /\ ~ caller[c].probe /\ caller'[c].pc # "redis" /\ state # "closed")
          => state' = state /\ streak' = streak]_cacheVars

(* Only Redis itself, in calls the breaker's present state let through,    *)
(* moves the breaker.                                                      *)
BreakerSteady == OpensForCause /\ StragglersIgnored

(* Once Redis is well for good, and as long as calls reach the breaker, it *)
(* closes for good, even when a probe never comes back.                    *)
Recovers ==
  (<>[] up /\ []<> (\E c \in Callers : caller[c].pc = "allow")) => <>[](state = "closed")

=============================================================================
