---------------------------- MODULE JobsScheduler ----------------------------
(***************************************************************************)
(* The scheduler of package jobs and the life of its runs: one loop per    *)
(* entry triggers runs under the entry's Overlap policy, every run is a    *)
(* goroutine, and Start, Close and the end of the context given to Start   *)
(* race to start and to stop all of them (scheduler.go, jobs.go).          *)
(*                                                                         *)
(* One action is one critical section of entry.mu or Jobs.mu, or one step  *)
(* of a goroutine between two of them.                                     *)
(***************************************************************************)
EXTENDS Integers, FiniteSets

CONSTANTS
    Entries,      \* the periodic jobs, the workers' sweeps and the cleanup
    Overlap,      \* entry -> "skip", "queue" or "allow"
    JobClosers,      \* concurrent calls of Close
    MaxTriggers   \* bound of the model: activations of one entry

ASSUME SchedulerAssumption ==
    /\ Overlap \in [Entries -> {"skip", "queue", "allow"}]
    /\ MaxTriggers \in Nat
    /\ "start" \notin JobClosers

\* Those who may wait for the loops and runs: Start's own stop and each Close.
Stoppers == JobClosers \cup {"start"}

VARIABLES
    closed, started, \* Jobs.closed, Jobs.started
    budget,          \* Jobs.deadline: "unset", "running" (set, not reached), "over"
    jobsCtx,             \* runCtx: "none" (Start has not run), "live", "done"
    loop,            \* an entry's loop: "off", "timer", "fired", "over"
    busy, queued,    \* entry.busy, entry.queued
    spawned,         \* run goroutines before execute
    running,         \* entry.running: runs inside the job's function
    ended,           \* run goroutines after execute, before they take entry.mu again
    stats,           \* entry.stats: finished runs, failures, skipped triggers
    stopper,         \* a stopper: "idle", "closing", "waits", "quiet" (returned nil), "gaveup", "refused"
    triggers,        \* history: activations of an entry so far
    discarded          \* history: queued triggers a stop discarded

goroutines == <<spawned, running, ended>>
overlapState == <<busy, queued>>
jobsLife == <<closed, started, budget, jobsCtx>>
schedulerVars == <<jobsLife, loop, overlapState, goroutines, stats, stopper, triggers, discarded>>

\* scheduler.wg counts the loops and the runs.
Alive(e) == spawned[e] + running[e] + ended[e]
wgIsZero ==
    \A e \in Entries : loop[e] \in {"off", "over"} /\ Alive(e) = 0

SchedulerInit ==
    /\ closed = FALSE /\ started = FALSE /\ budget = "unset" /\ jobsCtx = "none"
    /\ loop = [e \in Entries |-> "off"]
    /\ busy = [e \in Entries |-> FALSE]
    /\ queued = [e \in Entries |-> FALSE]
    /\ spawned = [e \in Entries |-> 0]
    /\ running = [e \in Entries |-> 0]
    /\ ended = [e \in Entries |-> 0]
    /\ stats = [e \in Entries |-> [runs |-> 0, failures |-> 0, skipped |-> 0]]
    /\ stopper = [c \in Stoppers |-> "idle"]
    /\ triggers = [e \in Entries |-> 0]
    /\ discarded = [e \in Entries |-> 0]

(***************************************************************************)
(* Start and Close.                                                        *)
(***************************************************************************)
\* Start, under Jobs.mu: the loops are launched before the lock is released.
Start_IgnoresClose ==
    /\ stopper["start"] = "idle"
    /\ started' = TRUE
    /\ jobsCtx' = "live"
    /\ loop' = [e \in Entries |-> "timer"]
    /\ stopper' = [stopper EXCEPT !["start"] = "closing"]
    /\ UNCHANGED <<closed, budget, overlapState, goroutines, stats, triggers, discarded>>

Start ==
    /\ stopper["start"] = "idle"
    /\ IF closed \/ started
       THEN /\ stopper' = [stopper EXCEPT !["start"] = "refused"]
            /\ UNCHANGED <<started, jobsCtx, loop>>
       ELSE /\ started' = TRUE
            /\ jobsCtx' = "live"
            /\ loop' = [e \in Entries |-> "timer"]
            /\ stopper' = [stopper EXCEPT !["start"] = "closing"]
    /\ UNCHANGED <<closed, budget, overlapState, goroutines, stats, triggers, discarded>>

\* The context given to Start ends.
RunCtxEnds ==
    /\ jobsCtx = "live"
    /\ jobsCtx' = "done"
    /\ UNCHANGED <<closed, started, budget, loop, overlapState, goroutines, stats, stopper, triggers, discarded>>

CloseJobs(c) ==
    /\ stopper[c] = "idle"
    /\ closed' = TRUE
    /\ stopper' = [stopper EXCEPT ![c] = "closing"]
    /\ UNCHANGED <<started, budget, jobsCtx, loop, overlapState, goroutines, stats, triggers, discarded>>

\* stop, under Jobs.mu: the first one sets the deadline and cancels runCtx.
StopJobs_NoDeadline(c) ==
    /\ stopper[c] = "closing"
    /\ c = "start" => jobsCtx = "done"
    /\ stopper' = [stopper EXCEPT ![c] = IF started THEN "waits" ELSE "quiet"]
    /\ jobsCtx' = IF started THEN "done" ELSE jobsCtx
    /\ UNCHANGED <<closed, started, budget, loop, overlapState, goroutines, stats, triggers, discarded>>

StopJobs(c) ==
    /\ stopper[c] = "closing"
    /\ c = "start" => jobsCtx = "done"
    /\ IF ~started
       THEN stopper' = [stopper EXCEPT ![c] = "quiet"] /\ UNCHANGED <<budget, jobsCtx>>
       ELSE /\ stopper' = [stopper EXCEPT ![c] = "waits"]
            /\ budget' = IF budget = "unset" THEN "running" ELSE budget
            /\ jobsCtx' = IF budget = "unset" THEN "done" ELSE jobsCtx
    /\ UNCHANGED <<closed, started, loop, overlapState, goroutines, stats, triggers, discarded>>

\* scheduler.wait returns: every loop and run is over, or the budget or the
\* caller's own context (Close's; Start's never ends) is.
Waited(c) ==
    /\ stopper[c] = "waits"
    /\ \/ wgIsZero /\ stopper' = [stopper EXCEPT ![c] = "quiet"]
       \/ (budget = "over" \/ c # "start") /\ stopper' = [stopper EXCEPT ![c] = "gaveup"]
    /\ UNCHANGED <<jobsLife, loop, overlapState, goroutines, stats, triggers, discarded>>

BudgetEnds ==
    /\ budget = "running"
    /\ budget' = "over"
    /\ UNCHANGED <<closed, started, jobsCtx, loop, overlapState, goroutines, stats, stopper, triggers, discarded>>

(***************************************************************************)
(* The loop of an entry.  When the timer and the end of the context are    *)
(* both ready the select takes either.                                     *)
(***************************************************************************)
TimerFires(e) ==
    /\ loop[e] = "timer" /\ triggers[e] < MaxTriggers
    /\ loop' = [loop EXCEPT ![e] = "fired"]
    /\ triggers' = [triggers EXCEPT ![e] = @ + 1]
    /\ UNCHANGED <<jobsLife, overlapState, goroutines, stats, stopper, discarded>>

LoopEnds(e) ==
    /\ loop[e] = "timer" /\ jobsCtx = "done"
    /\ loop' = [loop EXCEPT ![e] = "over"]
    /\ UNCHANGED <<jobsLife, overlapState, goroutines, stats, stopper, triggers, discarded>>

\* trigger, under entry.mu.
trigger_IgnoresBusy(e) ==
    /\ loop[e] = "fired"
    /\ loop' = [loop EXCEPT ![e] = "timer"]
    /\ busy' = [busy EXCEPT ![e] = Overlap[e] # "allow"]
    /\ spawned' = [spawned EXCEPT ![e] = @ + 1]
    /\ UNCHANGED <<jobsLife, queued, running, ended, stats, stopper, triggers, discarded>>

trigger(e) ==
    /\ loop[e] = "fired"
    /\ loop' = [loop EXCEPT ![e] = "timer"]
    /\ IF Overlap[e] # "allow" /\ busy[e]
       THEN /\ queued' = [queued EXCEPT ![e] = Overlap[e] = "queue"]
            /\ stats' = [stats EXCEPT ![e].skipped = @ + (IF Overlap[e] = "skip" \/ queued[e] THEN 1 ELSE 0)]
            /\ UNCHANGED <<busy, spawned>>
       ELSE /\ busy' = [busy EXCEPT ![e] = Overlap[e] # "allow"]
            /\ spawned' = [spawned EXCEPT ![e] = @ + 1]
            /\ UNCHANGED <<queued, stats>>
    /\ UNCHANGED <<jobsLife, running, ended, stopper, triggers, discarded>>

(***************************************************************************)
(* A run goroutine: execute, then under entry.mu once more or out.         *)
(***************************************************************************)
\* The goroutine trigger started enters the job's function.
ExecuteStarts(e) ==
    /\ spawned[e] > 0
    /\ spawned' = [spawned EXCEPT ![e] = @ - 1]
    /\ running' = [running EXCEPT ![e] = @ + 1]
    /\ UNCHANGED <<jobsLife, loop, overlapState, ended, stats, stopper, triggers, discarded>>

\* The function returns, or panics; failed is a real failure, not a stop.
ExecuteEnds(e, fails) ==
    /\ running[e] > 0
    /\ running' = [running EXCEPT ![e] = @ - 1]
    /\ ended' = [ended EXCEPT ![e] = @ + 1]
    /\ stats' = [stats EXCEPT ![e].runs = @ + 1, ![e].failures = @ + (IF fails THEN 1 ELSE 0)]
    /\ UNCHANGED <<jobsLife, loop, overlapState, spawned, stopper, triggers, discarded>>

\* The lock after the function returned: a queued trigger is run by the same
\* goroutine, unless the context is over.
RunAgain(e) ==
    /\ ended[e] > 0 /\ Overlap[e] # "allow" /\ queued[e] /\ jobsCtx # "done"
    /\ ended' = [ended EXCEPT ![e] = @ - 1]
    /\ spawned' = [spawned EXCEPT ![e] = @ + 1]
    /\ queued' = [queued EXCEPT ![e] = FALSE]
    /\ UNCHANGED <<jobsLife, loop, busy, running, stats, stopper, triggers, discarded>>

\* The lock after the function returned, and the goroutine is over: nothing
\* was queued, or a stop came and what was queued is dropped.
RunsReturns(e) ==
    /\ ended[e] > 0
    /\ ~(Overlap[e] # "allow" /\ queued[e] /\ jobsCtx # "done")
    /\ ended' = [ended EXCEPT ![e] = @ - 1]
    /\ busy' = [busy EXCEPT ![e] = FALSE]
    /\ queued' = [queued EXCEPT ![e] = FALSE]
    /\ discarded' = [discarded EXCEPT ![e] = @ + (IF queued[e] THEN 1 ELSE 0)]
    /\ UNCHANGED <<jobsLife, loop, spawned, running, stats, stopper, triggers>>

(***************************************************************************)
(* The specification.                                                      *)
(***************************************************************************)
EntryStep(e) ==
    \/ TimerFires(e) \/ LoopEnds(e) \/ trigger(e)
    \/ ExecuteStarts(e) \/ ExecuteEnds(e, TRUE) \/ ExecuteEnds(e, FALSE)
    \/ RunAgain(e) \/ RunsReturns(e)

SchedulerNext ==
    \/ Start \/ RunCtxEnds \/ BudgetEnds
    \/ \E c \in JobClosers : CloseJobs(c)
    \/ \E c \in Stoppers : StopJobs(c) \/ Waited(c)
    \/ \E e \in Entries : EntryStep(e)

SchedulerSpec == SchedulerInit /\ [][SchedulerNext]_schedulerVars

\* Goroutines are scheduled, the stop budget runs out; a job's function need
\* not return and nobody need call Close or end the context.
SchedulerFairness ==
    /\ WF_schedulerVars(BudgetEnds)
    /\ \A c \in Stoppers : WF_schedulerVars(StopJobs(c)) /\ WF_schedulerVars(Waited(c))
    /\ \A e \in Entries : /\ WF_schedulerVars(LoopEnds(e)) /\ WF_schedulerVars(trigger(e)) /\ WF_schedulerVars(ExecuteStarts(e))
                          /\ WF_schedulerVars(RunAgain(e)) /\ WF_schedulerVars(RunsReturns(e))

FairScheduler == SchedulerSpec /\ SchedulerFairness

\* scheduler.go: under skip and queue at most one run of an entry is alive,
\* from trigger to the end of its goroutine, and busy says exactly that.
NoOverlap ==
    \A e \in Entries : Overlap[e] # "allow" => Alive(e) = IF busy[e] THEN 1 ELSE 0

\* Every activation is accounted for: it started a run, was counted as
\* skipped, is queued behind the run in flight, or was queued when a stop
\* came; nothing is lost between the two critical sections of a run.
Accounted(e) ==
    triggers[e] = stats[e].runs + spawned[e] + running[e] + stats[e].skipped
                  + (IF queued[e] THEN 1 ELSE 0) + discarded[e] + (IF loop[e] = "fired" THEN 1 ELSE 0)

TriggersAccounted ==
    \A e \in Entries : Accounted(e) /\ (discarded[e] > 0 => jobsCtx = "done")

\* The overlap policy is kept and costs no activation: runs under skip and
\* queue never overlap, and each trigger ends as a run, a skip or a discard.
OverlapHonoured == NoOverlap /\ TriggersAccounted

\* Once Close, or Start's own stop, has returned nil no loop and no run is
\* alive, and none appears later: a concurrent Start is refused or waited for.
QuietAfterStop ==
    (\E c \in Stoppers : stopper[c] = "quiet") => wgIsZero /\ (started => jobsCtx = "done")

\* A stop that has begun returns, at the latest when the budget is over, even
\* if a job's function never returns.
StopReturns ==
    (\E c \in Stoppers : stopper[c] = "waits") ~> (\A c \in Stoppers : stopper[c] # "waits")

\* A trigger queued behind a run is followed by a run that starts, or by a
\* stop; it needs the run in flight to return.
QueuedRuns ==
    \A e \in {e \in Entries : Overlap[e] = "queue"} :
      (queued[e] /\ running[e] = 0) ~> (running[e] > 0 \/ jobsCtx = "done")

\* Nobody waits for ever: neither the caller of a stop nor a queued trigger.
NobodyWaitsForEver == StopReturns /\ QueuedRuns

==============================================================================
