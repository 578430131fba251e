---------------------------- MODULE AppLifecycle ----------------------------
(***************************************************************************)
(* The App's life (app.go, signal.go): Use, Run with its start and stop    *)
(* phases, Close, and the signals Execute turns into a stop.               *)
(*                                                                         *)
(* Components are 1 .. N in Use order.  A Start, a Close or a request may  *)
(* never return.  Time is counted in ticks and only while a stop runs;     *)
(* code that waits for nothing takes no time, so a tick comes only when    *)
(* the stop is blocked.                                                    *)
(***************************************************************************)
EXTENDS Integers, FiniteSets, FiniteSetsExt

CONSTANTS
  N, Starters, Closers,   \* the components, and which implement Start, Close
  Budget, FastBudget,     \* app.shutdown_timeout, fastStopBudget, in ticks
  DrainDelay, HttpTimeout, Grace,
  MaxSignals              \* bound: signals sent to the process

ASSUME AppAssumption ==
  /\ N \in Nat /\ Starters \subseteq 1 .. N /\ Closers \subseteq 1 .. N
  /\ {Budget, FastBudget, HttpTimeout, Grace} \subseteq Nat \ {0}
  /\ DrainDelay \in Nat /\ MaxSignals \in Nat

VARIABLES
  http,       \* http.enabled
  registered, \* components so far
  by,         \* who set started: "run", "close" or "none"
  phase,      \* where run (and stop within it) or Close is
  ctx,        \* Run's context: "live", "signal", "quit" or "deadline"
  hurry, watched, \* hurry is closed; stop's watcher has seen it
  signals,
  starter,    \* of each component: "none", "running" or "returned"
  failed,     \* length of the failed channel
  runCtx,     \* the Starters' context is live
  server, request, probed, \* the HTTP server; a request is in flight; a probe came
  ready, draining,
  fast, left, timer, \* of a stop: begun fast, what is left of stopCtx, of the current wait
  close,      \* of each component: "idle", "running", "closed" or "abandoned"
  errs,       \* Run, or Close, has an error to return
  waiter,     \* another call of Close: "idle", "waiting", "served" or "gone"
  took, rushed, \* history: ticks since the stop began, and since it also was to hurry
  quit        \* history: a SIGQUIT was handled

life == <<registered, by, waiter>>
causes == <<ctx, hurry, signals, quit>>
serving == <<server, request, probed, ready, draining>>
clocks == <<fast, watched, left, timer, took, rushed>>
vars == <<http, life, phase, causes, starter, failed, runCtx, serving, clocks, close, errs>>

Comps == 1 .. registered

Init ==
  /\ http \in BOOLEAN
  /\ registered = 0 /\ by = "none" /\ phase = "new" /\ waiter = "idle"
  /\ ctx = "live" /\ hurry = FALSE /\ signals = 0 /\ quit = FALSE
  /\ starter = [i \in 1 .. N |-> "none"] /\ failed = 0 /\ runCtx = TRUE
  /\ server = "off" /\ request = FALSE /\ probed = FALSE
  /\ ready = FALSE /\ draining = FALSE
  /\ fast = FALSE /\ watched = FALSE /\ left = 0 /\ timer = 0 /\ took = 0 /\ rushed = 0
  /\ close = [i \in 1 .. N |-> "idle"]
  /\ errs = FALSE

(* Use panics once started is set.                                         *)
Use ==
  /\ by = "none" /\ registered < N
  /\ registered' = registered + 1
  /\ UNCHANGED <<http, by, waiter, phase, causes, starter, failed, runCtx, serving, clocks, close, errs>>

(* Run, to the point where every Starter has been started.                 *)
Run ==
  /\ by = "none"
  /\ by' = "run" /\ phase' = "starting"
  /\ starter' = [i \in 1 .. N |-> IF i \in Comps \cap Starters THEN "running" ELSE "none"]
  /\ UNCHANGED <<http, registered, waiter, causes, failed, runCtx, serving, clocks, close, errs>>

(* A Start returns: in peace, or with an error that is a failure while the *)
(* Starters' context is live.                                              *)
StartReturns(i) ==
  /\ starter[i] = "running"
  /\ starter' = [starter EXCEPT ![i] = "returned"]
  /\ failed' \in IF runCtx THEN {failed, failed + 1} ELSE {failed}
  /\ UNCHANGED <<http, life, phase, causes, runCtx, serving, clocks, close, errs>>

-----------------------------------------------------------------------------
(* Execute's signal handler, and the end of a context given to Run.        *)

Signal(quits) ==
  /\ signals < MaxSignals /\ signals' = signals + 1
  /\ phase # "done" /\ ctx # "deadline"
  /\ quit' = (quit \/ quits)
  /\ \/ /\ ctx # "live"
        /\ hurry' = TRUE /\ UNCHANGED ctx
     \/ /\ ctx = "live"
        /\ ctx' = (IF quits THEN "quit" ELSE "signal")
        /\ UNCHANGED hurry
  /\ UNCHANGED <<http, life, phase, starter, failed, runCtx, serving, clocks, close, errs>>

DeadlineExpires ==
  /\ ctx = "live" /\ signals = 0 /\ ctx' = "deadline"
  /\ UNCHANGED <<http, life, phase, hurry, signals, quit, starter, failed, runCtx, serving, clocks, close, errs>>

-----------------------------------------------------------------------------
(* stop, called with fast = f and an error to report or not.               *)
Stop(f, err) ==
  LET drains == DrainDelay > 0 /\ ~ f /\ probed
  IN  /\ fast' = f /\ watched' = FALSE
      /\ left' = IF f /\ FastBudget < Budget THEN FastBudget ELSE Budget
      /\ timer' = IF drains THEN DrainDelay ELSE HttpTimeout
      /\ phase' = (IF server = "off" THEN "cancel" ELSE IF drains THEN "drain" ELSE "shutdown")
      /\ ready' = FALSE /\ draining' = TRUE
      /\ errs' = err
      /\ UNCHANGED <<http, life, causes, starter, runCtx, server, request, probed, close, took, rushed>>

(* awaitHealthy: every Healther passes, which one may do although ctx has  *)
(* just ended ...                                                          *)
Healthy ==
  /\ phase = "starting" /\ failed = 0
  /\ phase' = "listen"
  /\ UNCHANGED <<http, life, causes, starter, failed, runCtx, serving, clocks, close, errs>>

(* ... or a Start fails, ctx ends or app.start_timeout passes.             *)
StartFails ==
  /\ phase = "starting"
  /\ failed' \in {failed} \cup (IF failed > 0 THEN {failed - 1} ELSE {})
  /\ Stop(ctx = "quit", TRUE)

(* The server listens, or cannot.                                          *)
Listen ==
  /\ phase = "listen"
  /\ phase' = "ready"
  /\ server' = IF http THEN "serving" ELSE "off"
  /\ UNCHANGED <<http, life, causes, starter, failed, runCtx, request, probed, ready, draining, clocks, close, errs>>
ListenFails ==
  /\ phase = "listen" /\ http
  /\ Stop(FALSE, TRUE) /\ UNCHANGED failed

Ready ==
  /\ phase = "ready"
  /\ phase' = "running" /\ ready' = TRUE
  /\ UNCHANGED <<http, life, causes, starter, failed, runCtx, server, request, probed, draining, clocks, close, errs>>

(* run's select: when both a failure and the end of ctx are there, either. *)
CtxDone ==
  /\ phase = "running" /\ ctx # "live"
  /\ Stop(ctx = "quit", ctx = "deadline") /\ UNCHANGED failed
Failure ==
  /\ phase = "running" /\ failed > 0
  /\ failed' = failed - 1
  /\ Stop(FALSE, TRUE)

-----------------------------------------------------------------------------
(* The HTTP server.                                                        *)
RequestBegins ==
  /\ server = "serving" /\ phase \in {"ready", "running", "drain"}
  /\ \/ /\ ~ request /\ request' = TRUE /\ UNCHANGED probed
     \/ /\ ~ probed /\ probed' = TRUE /\ UNCHANGED request
  /\ UNCHANGED <<http, life, phase, causes, starter, failed, runCtx, server, ready, draining, clocks, close, errs>>
RequestEnds ==
  /\ request /\ request' = FALSE
  /\ UNCHANGED <<http, life, phase, causes, starter, failed, runCtx, server, probed, ready, draining, clocks, close, errs>>
ServeFails ==
  /\ server = "serving" /\ phase \in {"ready", "running", "drain"}
  /\ server' = "broken" /\ failed' = failed + 1
  /\ UNCHANGED <<http, life, phase, causes, starter, runCtx, request, probed, ready, draining, clocks, close, errs>>

(* The rest of stop: the drain ends, the server shuts down or is closed by *)
(* force, the Starters are canceled and waited for.                        *)
DrainEnds ==
  /\ phase = "drain" /\ (timer = 0 \/ hurry \/ left = 0)
  /\ phase' = "shutdown" /\ timer' = HttpTimeout
  /\ UNCHANGED <<http, life, causes, starter, failed, runCtx, serving, fast, watched, left, took, rushed, close, errs>>

Shutdown ==
  /\ phase = "shutdown"
  /\ phase' = "cancel"
  /\ \/ /\ ~ request /\ server' = "stopped" /\ UNCHANGED errs
     \/ /\ timer = 0 \/ left = 0
        /\ server' = "forced" /\ errs' = TRUE
  /\ UNCHANGED <<http, life, causes, starter, failed, runCtx, request, probed, ready, draining, clocks, close>>

CancelRun ==
  /\ phase = "cancel"
  /\ phase' = "wait" /\ runCtx' = FALSE
  /\ UNCHANGED <<http, life, causes, starter, failed, serving, clocks, close, errs>>

StartersDone == \A i \in Comps : starter[i] # "running"

AwaitStarters_Forever ==
  /\ phase = "wait" /\ StartersDone
  /\ phase' = "closing"
  /\ UNCHANGED <<http, life, causes, starter, failed, runCtx, serving, clocks, close, errs>>
AwaitStarters ==
  /\ phase = "wait"
  /\ phase' = "closing"
  /\ \/ StartersDone /\ UNCHANGED errs
     \/ left = 0 /\ errs' = TRUE
  /\ UNCHANGED <<http, life, causes, starter, failed, runCtx, serving, clocks, close>>

-----------------------------------------------------------------------------
(* closeAll, of a stop or of Close, and closeOne.                          *)
Unclosed == {i \in Comps \cap Closers : close[i] = "idle"}
Closing == {i \in Comps : close[i] = "running" /\ phase = "closing"}

CloseOne_InOrder ==
  /\ phase = "closing" /\ Closing = {} /\ Unclosed # {}
  /\ close' = [close EXCEPT ![Min(Unclosed)] = "running"]
  /\ timer' = Grace
  /\ UNCHANGED <<http, life, phase, causes, starter, failed, runCtx, serving, fast, watched, left, took, rushed, errs>>
CloseOne ==
  /\ phase = "closing" /\ Closing = {} /\ Unclosed # {}
  /\ close' = [close EXCEPT ![Max(Unclosed)] = "running"]
  /\ timer' = Grace
  /\ UNCHANGED <<http, life, phase, causes, starter, failed, runCtx, serving, fast, watched, left, took, rushed, errs>>

(* A Close returns, with an error or without, or panics.                   *)
CloseReturns(i) ==
  /\ i \in Closing
  /\ close' = [close EXCEPT ![i] = "closed"]
  /\ errs' \in {errs, TRUE}
  /\ UNCHANGED <<http, life, phase, causes, starter, failed, runCtx, serving, clocks>>

(* One still running closeGrace after the budget is left behind.           *)
Abandon(i) ==
  /\ i \in Closing /\ left = 0 /\ timer = 0
  /\ close' = [close EXCEPT ![i] = "abandoned"]
  /\ errs' = TRUE
  /\ UNCHANGED <<http, life, phase, causes, starter, failed, runCtx, serving, clocks>>

(* Run, or the Close that released the components, returns; finished is    *)
(* closed.                                                                 *)
Finish ==
  /\ phase = "closing" /\ Closing = {} /\ Unclosed = {}
  /\ phase' = "done"
  /\ UNCHANGED <<http, life, causes, starter, failed, runCtx, serving, clocks, close, errs>>

(* App.Close before Run releases the components; after Run began it waits  *)
(* until the App has finished, or its own context ends.  left is the time  *)
(* its context has.                                                        *)
Close ==
  /\ by = "none"
  /\ by' = "close" /\ phase' = "closing" /\ left' = Budget
  /\ UNCHANGED <<http, registered, waiter, causes, starter, failed, runCtx, serving, fast, watched, timer, took, rushed, close, errs>>
CloseWaits ==
  /\ by # "none" /\ waiter = "idle" /\ waiter' = "waiting"
  /\ UNCHANGED <<http, registered, by, phase, causes, starter, failed, runCtx, serving, clocks, close, errs>>
CloseReleased ==
  /\ waiter = "waiting"
  /\ \/ phase = "done" /\ waiter' = "served"
     \/ waiter' = "gone"
  /\ UNCHANGED <<http, registered, by, phase, causes, starter, failed, runCtx, serving, clocks, close, errs>>

-----------------------------------------------------------------------------
StopPhases == {"drain", "shutdown", "cancel", "wait", "closing"}

(* stop's watcher: what is left of the budget is capped.                   *)
Hurry_NoCap ==
  /\ hurry /\ ~ watched /\ by = "run" /\ phase \in StopPhases
  /\ watched' = TRUE
  /\ UNCHANGED <<http, life, phase, causes, starter, failed, runCtx, serving, fast, left, timer, took, rushed, close, errs>>
Hurry ==
  /\ hurry /\ ~ watched /\ by = "run" /\ phase \in StopPhases
  /\ watched' = TRUE
  /\ left' = Min({left, FastBudget})
  /\ UNCHANGED <<http, life, phase, causes, starter, failed, runCtx, serving, fast, timer, took, rushed, close, errs>>

(* The stop waits: no branch of the select it is in is ready.              *)
Blocked ==
  /\ hurry => watched \/ by = "close"
  /\ \/ phase = "drain" /\ timer > 0 /\ left > 0 /\ ~ hurry
     \/ phase = "shutdown" /\ request /\ timer > 0 /\ left > 0
     \/ phase = "wait" /\ ~ StartersDone /\ left > 0
     \/ phase = "closing" /\ Closing # {} /\ (left > 0 \/ timer > 0)

Tick ==
  /\ Blocked
  /\ left' = IF left > 0 THEN left - 1 ELSE 0
  /\ timer' = IF timer > 0 /\ (phase # "closing" \/ left = 0) THEN timer - 1 ELSE timer
  /\ took' = took + 1
  /\ rushed' = IF hurry THEN rushed + 1 ELSE rushed
  /\ UNCHANGED <<http, life, phase, causes, starter, failed, runCtx, serving, fast, watched, close, errs>>

(* Run's own goroutine and the timers.                                     *)
Steps ==
  \/ Healthy \/ StartFails \/ Listen \/ ListenFails \/ Ready \/ CtxDone \/ Failure
  \/ DrainEnds \/ Shutdown \/ CancelRun \/ AwaitStarters
  \/ CloseOne \/ Finish \/ Hurry \/ Tick
  \/ \E i \in 1 .. N : Abandon(i)

Next ==
  \/ Use \/ Run \/ Close \/ CloseWaits \/ CloseReleased
  \/ \E quits \in BOOLEAN : Signal(quits)
  \/ DeadlineExpires \/ RequestBegins \/ RequestEnds \/ ServeFails
  \/ \E i \in 1 .. N : StartReturns(i) \/ CloseReturns(i)
  \/ Steps

Spec == Init /\ [][Next]_vars

(* The runtime schedules Run's goroutine and the timers fire.  Nothing is  *)
(* assumed of the components, of requests or of a health check: app's own  *)
(* start timeout is among the steps.                                       *)
FairSpec == Spec /\ WF_vars(Steps)

-----------------------------------------------------------------------------
(* The states of app.go and stop.go; failed never exceeds the capacity Run *)
(* gives the channel, so that no Starter blocks on it for ever.            *)
TypeOK ==
  /\ {http, hurry, watched, runCtx, request, probed, ready, draining, fast, errs, quit} \subseteq BOOLEAN
  /\ registered \in 0 .. N /\ by \in {"none", "run", "close"}
  /\ phase \in StopPhases \cup {"new", "starting", "listen", "ready", "running", "done"}
  /\ ctx \in {"live", "signal", "quit", "deadline"} /\ signals \in 0 .. MaxSignals
  /\ starter \in [1 .. N -> {"none", "running", "returned"}]
  /\ close \in [1 .. N -> {"idle", "running", "closed", "abandoned"}]
  /\ server \in {"off", "serving", "broken", "stopped", "forced"}
  /\ waiter \in {"idle", "waiting", "served", "gone"}
  /\ failed \in 0 .. N + 1 \* the channel's capacity: a sender never blocks
  /\ left \in 0 .. Budget /\ timer \in Nat /\ took \in Nat /\ rushed \in Nat

(* A component is closed only when every component registered after it has *)
(* been, or was abandoned, and when nothing can be using it: the HTTP      *)
(* server is down unless it had to be closed by force, and the Starters    *)
(* have returned unless the stop ran out of budget.                        *)
ClosedInOrder ==
  \A i \in Comps : close[i] # "idle" =>
    /\ \A j \in Comps \cap Closers : j > i => close[j] \in {"closed", "abandoned"}
    /\ server # "serving" /\ ~ ready
    /\ request => server = "forced"
    /\ StartersDone \/ left = 0

(* Of Run and Close exactly one releases the components, and it releases   *)
(* every one that Use accepted: whoever waited in Close finds them closed. *)
ReleasedByOne ==
  (phase = "done" \/ waiter = "served") =>
    \A i \in Comps : /\ i \in Closers => close[i] \in {"closed", "abandoned"}
                     /\ i \in Starters /\ by = "run" => starter[i] # "none"

(* Run returns nil only when it left nothing behind: no request cut off,   *)
(* no Starter running, no Close abandoned.                                 *)
NothingLeftSilently ==
  (phase = "done" /\ ~ errs) =>
    /\ server # "forced"
    /\ by = "run" => StartersDone
    /\ \A i \in Comps : close[i] # "abandoned"

(* The time closeGrace can add to the stop's budget.                       *)
Graces == Grace * Cardinality(Comps \cap Closers)

(* closeGrace: a stop takes at most its budget plus closeGrace for each    *)
(* Close; a fast stop, and what is left of one that was to hurry, at most  *)
(* fastStopBudget plus that.                                               *)
StopsInTime ==
  /\ took <= Budget + Graces
  /\ fast => took <= FastBudget + Graces
  /\ by = "run" => rushed <= FastBudget + Graces

(* Components are released in order, when nothing uses them, by exactly    *)
(* one of Run and Close, and none that Use accepted is left out.           *)
ReleasedInOrder == ClosedInOrder /\ ReleasedByOne

(* A stop keeps to its budget, however the signals fall, and what it gave  *)
(* up on it reports.                                                       *)
StopKeepsItsWord == StopsInTime /\ NothingLeftSilently

(* Once something ends the App, Run returns, whatever the components do.   *)
AlwaysReturns ==
  (by = "run" /\ (ctx # "live" \/ failed > 0)) ~> (phase = "done")

(* signal.go: "SIGQUIT at any time, stops it fast (the drain ends, what is *)
(* left of the stop budget is capped at 5s)": no stop goes on draining     *)
(* once a SIGQUIT has been handled.                                        *)
QuitStopsFast == (quit /\ phase = "drain") => fast \/ hurry

=============================================================================
