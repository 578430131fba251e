-------------------------- MODULE BackgroundProofs --------------------------
(***************************************************************************)
(* Proofs about what runs in the background and is stopped by Close:       *)
(* JobsScheduler, for any entries under any overlap policies, any number   *)
(* of activations and any number of concurrent Closes, and IdentityClose,  *)
(* for any number of callers of Log, any buffer and batch sizes and both   *)
(* settings of drop_on_full; and about Rbac, for any number of changes and *)
(* of value columns.                                                       *)
(***************************************************************************)
EXTENDS JobsScheduler, IdentityClose, Rbac, TLAPS

-----------------------------------------------------------------------------
(* The scheduler.                                                          *)

\* The types of the scheduler's state, the counters unbounded.
SchedulerTypeOK ==
    /\ closed \in BOOLEAN /\ started \in BOOLEAN
    /\ budget \in {"unset", "running", "over"} /\ jobsCtx \in {"none", "live", "done"}
    /\ loop \in [Entries -> {"off", "timer", "fired", "over"}]
    /\ busy \in [Entries -> BOOLEAN] /\ queued \in [Entries -> BOOLEAN]
    /\ spawned \in [Entries -> Nat] /\ running \in [Entries -> Nat] /\ ended \in [Entries -> Nat]
    /\ stats \in [Entries -> [runs : Nat, failures : Nat, skipped : Nat]]
    /\ stopper \in [Stoppers -> {"idle", "closing", "waits", "quiet", "gaveup", "refused"}]
    /\ triggers \in [Entries -> Nat] /\ discarded \in [Entries -> Nat]

\* A trigger is queued only under the queue policy, and only behind a run.
QueuedBehindRun ==
    \A e \in Entries : queued[e] => Overlap[e] = "queue" /\ busy[e]

\* What the life of Jobs says about its goroutines: before Start there are
\* none; a deadline is set only after Start and together with the end of the
\* runs' context; whoever waits has seen it set; and a stop that found nothing
\* started was a Close, which bars Start.
LifeInv ==
    /\ ~started => \A e \in Entries : loop[e] = "off" /\ Alive(e) = 0
    /\ ~started => jobsCtx = "none" /\ stopper["start"] \in {"idle", "refused"}
    /\ budget # "unset" => started /\ jobsCtx = "done"
    /\ \A c \in Stoppers : stopper[c] = "waits" => budget # "unset"
    /\ \A c \in JobClosers : stopper[c] # "idle" => closed

\* The inductive invariant.
SchedulerInv ==
    SchedulerTypeOK /\ OverlapHonoured /\ QueuedBehindRun /\ LifeInv /\ QuietAfterStop

-----------------------------------------------------------------------------
\* A Jobs that was only built runs nothing and has counted nothing.
LEMMA SchedulerInitInv == SchedulerInit => SchedulerInv
<1> SUFFICES ASSUME SchedulerInit PROVE SchedulerInv
  OBVIOUS
<1>1. SchedulerTypeOK
  BY DEF SchedulerInit, SchedulerTypeOK
<1>2. OverlapHonoured
  BY DEF SchedulerInit, OverlapHonoured, NoOverlap, TriggersAccounted, Accounted, Alive
<1>3. QueuedBehindRun /\ LifeInv
  BY DEF SchedulerInit, QueuedBehindRun, LifeInv, Stoppers, Alive
<1>4. QuietAfterStop
  BY DEF SchedulerInit, QuietAfterStop, Stoppers
<1>5. QED
  BY <1>1, <1>2, <1>3, <1>4 DEF SchedulerInv

\* Start is refused once Close has come or the loops run already; otherwise it
\* launches the loops, and no stop has returned by then.
LEMMA StartInv ==
  ASSUME SchedulerInv, Start
  PROVE  SchedulerInv'
<1> USE SchedulerAssumption DEF SchedulerInv, Start, overlapState, goroutines, OverlapHonoured
<1>1. SchedulerTypeOK'
  BY DEF SchedulerTypeOK
<1>2. NoOverlap' /\ QueuedBehindRun'
  BY DEF NoOverlap, QueuedBehindRun, Alive
<1>3. TriggersAccounted'
  <2>1. CASE closed \/ started
    BY <2>1 DEF TriggersAccounted, Accounted
  <2>2. CASE ~(closed \/ started)
    <3>1. \A f \in Entries : loop[f] = "off" /\ loop'[f] = "timer"
      BY <2>2 DEF LifeInv
    <3>2. ASSUME NEW f \in Entries PROVE Accounted(f)'
      BY <3>1 DEF TriggersAccounted, Accounted
    <3>3. \A f \in Entries : ~(discarded'[f] > 0)
      <4>1. jobsCtx # "done"
        BY <2>2 DEF LifeInv
      <4>2. QED
        BY <4>1 DEF TriggersAccounted
    <3>4. QED
      BY <3>2, <3>3 DEF TriggersAccounted
  <2>3. QED
    BY <2>1, <2>2
<1>4. LifeInv'
  BY DEF SchedulerTypeOK, LifeInv, Alive, Stoppers
<1>5. QuietAfterStop'
  BY DEF SchedulerTypeOK, QuietAfterStop, LifeInv, wgIsZero, Alive, Stoppers
<1>6. QED
  BY <1>1, <1>2, <1>3, <1>4, <1>5

\* The end of the context given to Start touches no run.
LEMMA RunCtxEndsInv ==
  ASSUME SchedulerInv, RunCtxEnds
  PROVE  SchedulerInv'
<1> USE SchedulerAssumption DEF SchedulerInv, RunCtxEnds, overlapState, goroutines, OverlapHonoured
<1>1. SchedulerTypeOK'
  BY DEF SchedulerTypeOK
<1>2. NoOverlap' /\ QueuedBehindRun'
  BY DEF NoOverlap, QueuedBehindRun, Alive
<1>3. TriggersAccounted'
  BY DEF SchedulerTypeOK, TriggersAccounted, Accounted
<1>4. LifeInv'
  BY DEF SchedulerTypeOK, LifeInv, Alive, Stoppers
<1>5. QuietAfterStop'
  BY DEF SchedulerTypeOK, QuietAfterStop, LifeInv, wgIsZero, Alive, Stoppers
<1>6. QED
  BY <1>1, <1>2, <1>3, <1>4, <1>5

\* Close raises closed before it lets go of Jobs.mu.
LEMMA CloseJobsInv ==
  ASSUME NEW c \in JobClosers, SchedulerInv, CloseJobs(c)
  PROVE  SchedulerInv'
<1> USE SchedulerAssumption DEF SchedulerInv, CloseJobs, overlapState, goroutines, OverlapHonoured
<1>1. SchedulerTypeOK'
  BY DEF SchedulerTypeOK
<1>2. NoOverlap' /\ QueuedBehindRun'
  BY DEF NoOverlap, QueuedBehindRun, Alive
<1>3. TriggersAccounted'
  BY DEF SchedulerTypeOK, TriggersAccounted, Accounted
<1>4. LifeInv'
  BY DEF SchedulerTypeOK, LifeInv, Alive, Stoppers
<1>5. QuietAfterStop'
  BY DEF SchedulerTypeOK, QuietAfterStop, LifeInv, wgIsZero, Alive, Stoppers
<1>6. QED
  BY <1>1, <1>2, <1>3, <1>4, <1>5

\* stop ends the runs' context when it sets the deadline; it returns at once only
\* when nothing was started.
LEMMA StopJobsInv ==
  ASSUME NEW c \in Stoppers, SchedulerInv, StopJobs(c)
  PROVE  SchedulerInv'
<1> USE SchedulerAssumption DEF SchedulerInv, StopJobs, overlapState, goroutines, OverlapHonoured
<1>1. SchedulerTypeOK'
  BY DEF SchedulerTypeOK
<1>2. NoOverlap' /\ QueuedBehindRun'
  BY DEF NoOverlap, QueuedBehindRun, Alive
<1>3. TriggersAccounted'
  BY DEF SchedulerTypeOK, TriggersAccounted, Accounted
<1>4. LifeInv'
  BY DEF SchedulerTypeOK, LifeInv, Alive, Stoppers
<1>5. QuietAfterStop'
  BY DEF SchedulerTypeOK, QuietAfterStop, LifeInv, wgIsZero, Alive, Stoppers
<1>6. QED
  BY <1>1, <1>2, <1>3, <1>4, <1>5

\* scheduler.wait returns nil only when every loop and every run is over.
LEMMA WaitedInv ==
  ASSUME NEW c \in Stoppers, SchedulerInv, Waited(c)
  PROVE  SchedulerInv'
<1> USE SchedulerAssumption DEF SchedulerInv, Waited, jobsLife, overlapState, goroutines, OverlapHonoured
<1>1. SchedulerTypeOK'
  BY DEF SchedulerTypeOK
<1>2. NoOverlap' /\ QueuedBehindRun'
  BY DEF NoOverlap, QueuedBehindRun, Alive
<1>3. TriggersAccounted'
  BY DEF SchedulerTypeOK, TriggersAccounted, Accounted
<1>4. LifeInv'
  BY DEF SchedulerTypeOK, LifeInv, Alive, Stoppers
<1>5. QuietAfterStop'
  BY DEF SchedulerTypeOK, QuietAfterStop, LifeInv, wgIsZero, Alive, Stoppers
<1>6. QED
  BY <1>1, <1>2, <1>3, <1>4, <1>5

\* The stop budget running out moves no goroutine.
LEMMA BudgetEndsInv ==
  ASSUME SchedulerInv, BudgetEnds
  PROVE  SchedulerInv'
<1> USE SchedulerAssumption DEF SchedulerInv, BudgetEnds, overlapState, goroutines, OverlapHonoured
<1>1. SchedulerTypeOK'
  BY DEF SchedulerTypeOK
<1>2. NoOverlap' /\ QueuedBehindRun'
  BY DEF NoOverlap, QueuedBehindRun, Alive
<1>3. TriggersAccounted'
  BY DEF SchedulerTypeOK, TriggersAccounted, Accounted
<1>4. LifeInv'
  BY DEF SchedulerTypeOK, LifeInv, Alive, Stoppers
<1>5. QuietAfterStop'
  BY DEF SchedulerTypeOK, QuietAfterStop, LifeInv, wgIsZero, Alive, Stoppers
<1>6. QED
  BY <1>1, <1>2, <1>3, <1>4, <1>5

\* An activation: one more trigger, and a loop that has fired.
LEMMA TimerFiresInv ==
  ASSUME NEW e \in Entries, SchedulerInv, TimerFires(e)
  PROVE  SchedulerInv'
<1> USE SchedulerAssumption DEF SchedulerInv, TimerFires, jobsLife, overlapState, goroutines, OverlapHonoured
<1>1. SchedulerTypeOK'
  BY DEF SchedulerTypeOK
<1>2. NoOverlap'
  BY DEF SchedulerTypeOK, NoOverlap, Alive
<1>3. TriggersAccounted'
  BY DEF SchedulerTypeOK, TriggersAccounted, Accounted, QueuedBehindRun
<1>4. QueuedBehindRun'
  BY DEF SchedulerTypeOK, QueuedBehindRun, NoOverlap, Alive
<1>5. LifeInv'
  BY DEF SchedulerTypeOK, LifeInv, Alive, Stoppers
<1>6. QuietAfterStop'
  BY DEF SchedulerTypeOK, QuietAfterStop, LifeInv, wgIsZero, Alive, Stoppers
<1>7. QED
  BY <1>1, <1>2, <1>3, <1>4, <1>5, <1>6

\* A loop ends with the runs' context.
LEMMA LoopEndsInv ==
  ASSUME NEW e \in Entries, SchedulerInv, LoopEnds(e)
  PROVE  SchedulerInv'
<1> USE SchedulerAssumption DEF SchedulerInv, LoopEnds, jobsLife, overlapState, goroutines, OverlapHonoured
<1>1. SchedulerTypeOK'
  BY DEF SchedulerTypeOK
<1>2. NoOverlap'
  BY DEF SchedulerTypeOK, NoOverlap, Alive
<1>3. TriggersAccounted'
  BY DEF SchedulerTypeOK, TriggersAccounted, Accounted, QueuedBehindRun
<1>4. QueuedBehindRun'
  BY DEF SchedulerTypeOK, QueuedBehindRun, NoOverlap, Alive
<1>5. LifeInv'
  BY DEF SchedulerTypeOK, LifeInv, Alive, Stoppers
<1>6. QuietAfterStop'
  BY DEF SchedulerTypeOK, QuietAfterStop, LifeInv, wgIsZero, Alive, Stoppers
<1>7. QED
  BY <1>1, <1>2, <1>3, <1>4, <1>5, <1>6

\* trigger starts a run, queues one behind the run in flight or counts a skip.
LEMMA TriggerInv ==
  ASSUME NEW e \in Entries, SchedulerInv, trigger(e)
  PROVE  SchedulerInv'
<1> USE SchedulerAssumption DEF SchedulerInv, trigger, jobsLife, OverlapHonoured
<1>0. \A f \in Entries : stats[f] \in [runs : Nat, failures : Nat, skipped : Nat] /\ triggers[f] \in Nat
                         /\ spawned[f] \in Nat /\ running[f] \in Nat /\ ended[f] \in Nat /\ discarded[f] \in Nat
  BY DEF SchedulerTypeOK
<1>1. SchedulerTypeOK'
  <2>1. CASE Overlap[e] # "allow" /\ busy[e]
    <3>1. stats'[e] = [stats[e] EXCEPT !.skipped = @ + (IF Overlap[e] = "skip" \/ queued[e] THEN 1 ELSE 0)]
      BY <2>1 DEF SchedulerTypeOK
    <3>2. stats'[e] \in [runs : Nat, failures : Nat, skipped : Nat]
      BY <1>0, <3>1
    <3>3. stats' \in [Entries -> [runs : Nat, failures : Nat, skipped : Nat]]
      BY <2>1, <3>2 DEF SchedulerTypeOK
    <3>4. queued' \in [Entries -> BOOLEAN]
      BY <2>1 DEF SchedulerTypeOK
    <3>5. QED
      BY <2>1, <3>3, <3>4 DEF SchedulerTypeOK
  <2>2. CASE ~(Overlap[e] # "allow" /\ busy[e])
    <3>1. busy' \in [Entries -> BOOLEAN]
      BY <2>2 DEF SchedulerTypeOK
    <3>2. QED
      BY <2>2, <3>1 DEF SchedulerTypeOK
  <2>3. QED
    BY <2>1, <2>2
<1>2. NoOverlap'
  <2>1. CASE Overlap[e] # "allow" /\ busy[e]
    BY <2>1 DEF SchedulerTypeOK, NoOverlap, Alive
  <2>2. CASE ~(Overlap[e] # "allow" /\ busy[e])
    <3>1. ASSUME NEW f \in Entries, Overlap[f] # "allow"
          PROVE  Alive(f)' = IF busy'[f] THEN 1 ELSE 0
      <4>1. CASE f = e
        <5>1. Alive(e) = 0
          BY <2>2, <3>1, <4>1 DEF NoOverlap
        <5>2. Alive(e)' = Alive(e) + 1
          BY <1>0, <2>2 DEF SchedulerTypeOK, Alive
        <5>3. busy'[e]
          BY <2>2, <3>1, <4>1 DEF SchedulerTypeOK
        <5>4. QED
          BY <4>1, <5>1, <5>2, <5>3
      <4>2. CASE f # e
        BY <2>2, <3>1, <4>2 DEF SchedulerTypeOK, NoOverlap, Alive
      <4>3. QED
        BY <4>1, <4>2
    <3>2. QED
      BY <3>1 DEF NoOverlap
  <2>3. QED
    BY <2>1, <2>2
<1>3. TriggersAccounted'
  <2>1. ASSUME NEW f \in Entries PROVE Accounted(f)'
    <3>1. CASE f # e
      BY <3>1 DEF SchedulerTypeOK, TriggersAccounted, Accounted
    <3>2. CASE f = e /\ Overlap[e] # "allow" /\ busy[e]
      <4>1. /\ loop[e] = "fired" /\ loop'[e] = "timer" /\ triggers'[e] = triggers[e]
            /\ spawned'[e] = spawned[e] /\ running'[e] = running[e] /\ discarded'[e] = discarded[e]
        BY <3>2 DEF SchedulerTypeOK
      <4>2. stats'[e] = [stats[e] EXCEPT !.skipped = @ + (IF Overlap[e] = "skip" \/ queued[e] THEN 1 ELSE 0)]
        BY <3>2 DEF SchedulerTypeOK
      <4>3. /\ stats'[e].runs = stats[e].runs
            /\ stats'[e].skipped = stats[e].skipped + (IF Overlap[e] = "skip" \/ queued[e] THEN 1 ELSE 0)
        BY <1>0, <4>2
      <4>4. queued'[e] <=> Overlap[e] = "queue"
        BY <3>2 DEF SchedulerTypeOK
      <4>5. Overlap[e] = "queue" \/ (Overlap[e] = "skip" /\ ~queued[e])
        BY <3>2 DEF QueuedBehindRun
      <4>6. stats[e].runs \in Nat /\ stats[e].skipped \in Nat
        BY <1>0
      <4>7. Accounted(e)
        BY DEF TriggersAccounted
      <4>8. CASE Overlap[e] = "queue" /\ queued[e]
        <5>1. stats'[e].skipped = stats[e].skipped + 1 /\ queued'[e]
          BY <4>3, <4>4, <4>8
        <5> HIDE DEF trigger, SchedulerInv
        <5>2. QED
          BY <1>0, <3>2, <4>1, <4>3, <4>6, <4>7, <4>8, <5>1, SMTT(30) DEF Accounted
      <4>9. CASE Overlap[e] = "queue" /\ ~queued[e]
        BY <1>0, <3>2, <4>1, <4>3, <4>4, <4>6, <4>7, <4>9 DEF Accounted
      <4>10. CASE Overlap[e] = "skip" /\ ~queued[e]
        BY <1>0, <3>2, <4>1, <4>3, <4>4, <4>6, <4>7, <4>10, SMTT(30) DEF Accounted
      <4>11. QED
        BY <4>5, <4>8, <4>9, <4>10
    <3>3. CASE f = e /\ ~(Overlap[e] # "allow" /\ busy[e])
      <4>1. /\ loop[e] = "fired" /\ loop'[e] = "timer" /\ triggers'[e] = triggers[e]
            /\ spawned'[e] = spawned[e] + 1 /\ running'[e] = running[e] /\ discarded'[e] = discarded[e]
            /\ stats'[e] = stats[e] /\ queued'[e] = queued[e]
        BY <3>3 DEF SchedulerTypeOK
      <4>2. stats[e].runs \in Nat /\ stats[e].skipped \in Nat
        BY <1>0
      <4>3. QED
        BY <1>0, <3>3, <4>1, <4>2, SMTT(30) DEF TriggersAccounted, Accounted
    <3>4. QED
      BY <3>1, <3>2, <3>3
  <2>2. QED
    BY <2>1 DEF TriggersAccounted
<1>4. QueuedBehindRun'
  BY DEF SchedulerTypeOK, QueuedBehindRun, NoOverlap, Alive
<1>5. LifeInv'
  BY DEF SchedulerTypeOK, LifeInv, Alive, Stoppers
<1>6. QuietAfterStop'
  BY DEF SchedulerTypeOK, QuietAfterStop, LifeInv, wgIsZero, Alive, Stoppers
<1>7. QED
  BY <1>1, <1>2, <1>3, <1>4, <1>5, <1>6

\* A spawned goroutine enters the job's function.
LEMMA ExecuteStartsInv ==
  ASSUME NEW e \in Entries, SchedulerInv, ExecuteStarts(e)
  PROVE  SchedulerInv'
<1> USE SchedulerAssumption DEF SchedulerInv, ExecuteStarts, jobsLife, overlapState, OverlapHonoured
<1>1. SchedulerTypeOK'
  BY DEF SchedulerTypeOK
<1>2. NoOverlap'
  BY DEF SchedulerTypeOK, NoOverlap, Alive
<1>3. TriggersAccounted'
  <2>1. ASSUME NEW f \in Entries PROVE Accounted(f)'
    <3>1. CASE f # e
      BY <3>1 DEF SchedulerTypeOK, TriggersAccounted, Accounted
    <3>2. CASE f = e
      <4>1. /\ spawned'[e] = spawned[e] - 1 /\ running'[e] = running[e] + 1
            /\ queued'[e] = queued[e]
            /\ stats'[e] = stats[e] /\ triggers'[e] = triggers[e]
            /\ loop'[e] = loop[e] /\ discarded'[e] = discarded[e]
        BY DEF SchedulerTypeOK
      <4>2. /\ spawned[e] \in Nat /\ running[e] \in Nat /\ discarded[e] \in Nat
            /\ stats[e].runs \in Nat /\ stats[e].skipped \in Nat /\ triggers[e] \in Nat
        BY DEF SchedulerTypeOK
      <4>3. QED
        BY <3>2, <4>1, <4>2 DEF TriggersAccounted, Accounted
    <3>3. QED
      BY <3>1, <3>2
  <2>2. QED
    BY <2>1 DEF TriggersAccounted
<1>4. QueuedBehindRun'
  BY DEF SchedulerTypeOK, QueuedBehindRun, NoOverlap, Alive
<1>5. LifeInv'
  BY DEF SchedulerTypeOK, LifeInv, Alive, Stoppers
<1>6. QuietAfterStop'
  BY DEF SchedulerTypeOK, QuietAfterStop, LifeInv, wgIsZero, Alive, Stoppers
<1>7. QED
  BY <1>1, <1>2, <1>3, <1>4, <1>5, <1>6

\* The job's function returns or panics, and the run is counted.
LEMMA ExecuteEndsInv ==
  ASSUME NEW e \in Entries, NEW fails \in BOOLEAN, SchedulerInv, ExecuteEnds(e, fails)
  PROVE  SchedulerInv'
<1> USE SchedulerAssumption DEF SchedulerInv, ExecuteEnds, jobsLife, overlapState, OverlapHonoured
<1>0. /\ stats[e] \in [runs : Nat, failures : Nat, skipped : Nat]
      /\ stats'[e] = [stats[e] EXCEPT !.runs = @ + 1, !.failures = @ + (IF fails THEN 1 ELSE 0)]
  BY DEF SchedulerTypeOK
<1>1. SchedulerTypeOK'
  <2>1. stats'[e] \in [runs : Nat, failures : Nat, skipped : Nat]
    <3>1. DOMAIN stats[e] = {"runs", "failures", "skipped"}
      BY <1>0
    <3> DEFINE failed == stats[e].failures + (IF fails THEN 1 ELSE 0)
    <3>2. stats'[e] = [runs |-> stats[e].runs + 1, failures |-> failed, skipped |-> stats[e].skipped]
      BY <1>0, <3>1
    <3>3. stats[e].runs + 1 \in Nat /\ failed \in Nat /\ stats[e].skipped \in Nat
      BY <1>0
    <3> HIDE DEF failed, ExecuteEnds
    <3>4. QED
      BY <3>2, <3>3
  <2>2. stats' \in [Entries -> [runs : Nat, failures : Nat, skipped : Nat]]
    BY <2>1 DEF SchedulerTypeOK
  <2>3. running' \in [Entries -> Nat] /\ ended' \in [Entries -> Nat]
    BY DEF SchedulerTypeOK
  <2>4. QED
    BY <2>2, <2>3 DEF SchedulerTypeOK
<1>2. NoOverlap'
  BY DEF SchedulerTypeOK, NoOverlap, Alive
<1>3. TriggersAccounted'
  BY DEF SchedulerTypeOK, TriggersAccounted, Accounted
<1>4. QueuedBehindRun'
  BY DEF SchedulerTypeOK, QueuedBehindRun, NoOverlap, Alive
<1>5. LifeInv'
  BY DEF SchedulerTypeOK, LifeInv, Alive, Stoppers
<1>6. QuietAfterStop'
  BY DEF SchedulerTypeOK, QuietAfterStop, LifeInv, wgIsZero, Alive, Stoppers
<1>7. QED
  BY <1>1, <1>2, <1>3, <1>4, <1>5, <1>6

\* The goroutine takes the queued trigger itself and stays the only one.
LEMMA RunAgainInv ==
  ASSUME NEW e \in Entries, SchedulerInv, RunAgain(e)
  PROVE  SchedulerInv'
<1> USE SchedulerAssumption DEF SchedulerInv, RunAgain, jobsLife, OverlapHonoured
<1>1. SchedulerTypeOK'
  BY DEF SchedulerTypeOK
<1>2. NoOverlap'
  BY DEF SchedulerTypeOK, NoOverlap, Alive
<1>3. TriggersAccounted'
  <2>1. ASSUME NEW f \in Entries PROVE Accounted(f)'
    <3>1. CASE f # e
      BY <3>1 DEF SchedulerTypeOK, TriggersAccounted, Accounted
    <3>2. CASE f = e
      <4>1. /\ spawned'[e] = spawned[e] + 1 /\ running'[e] = running[e]
            /\ queued[e] /\ ~queued'[e]
            /\ stats'[e] = stats[e] /\ triggers'[e] = triggers[e]
            /\ loop'[e] = loop[e] /\ discarded'[e] = discarded[e]
        BY DEF SchedulerTypeOK
      <4>2. /\ spawned[e] \in Nat /\ running[e] \in Nat /\ discarded[e] \in Nat
            /\ stats[e].runs \in Nat /\ stats[e].skipped \in Nat /\ triggers[e] \in Nat
        BY DEF SchedulerTypeOK
      <4>3. QED
        BY <3>2, <4>1, <4>2, SMTT(30) DEF TriggersAccounted, Accounted
    <3>3. QED
      BY <3>1, <3>2
  <2>2. QED
    BY <2>1 DEF TriggersAccounted
<1>4. QueuedBehindRun'
  BY DEF SchedulerTypeOK, QueuedBehindRun, NoOverlap, Alive
<1>5. LifeInv'
  BY DEF SchedulerTypeOK, LifeInv, Alive, Stoppers
<1>6. QuietAfterStop'
  BY DEF SchedulerTypeOK, QuietAfterStop, LifeInv, wgIsZero, Alive, Stoppers
<1>7. QED
  BY <1>1, <1>2, <1>3, <1>4, <1>5, <1>6

\* The goroutine leaves; a queued trigger is discarded only after a stop.
LEMMA RunsReturnsInv ==
  ASSUME NEW e \in Entries, SchedulerInv, RunsReturns(e)
  PROVE  SchedulerInv'
<1> USE SchedulerAssumption DEF SchedulerInv, RunsReturns, jobsLife, OverlapHonoured
<1>1. SchedulerTypeOK'
  BY DEF SchedulerTypeOK
<1>2. NoOverlap'
  BY DEF SchedulerTypeOK, NoOverlap, Alive
<1>3. TriggersAccounted'
  BY DEF SchedulerTypeOK, TriggersAccounted, Accounted, QueuedBehindRun
<1>4. QueuedBehindRun'
  BY DEF SchedulerTypeOK, QueuedBehindRun, NoOverlap, Alive
<1>5. LifeInv'
  BY DEF SchedulerTypeOK, LifeInv, Alive, Stoppers
<1>6. QuietAfterStop'
  BY DEF SchedulerTypeOK, QuietAfterStop, LifeInv, wgIsZero, Alive, Stoppers
<1>7. QED
  BY <1>1, <1>2, <1>3, <1>4, <1>5, <1>6

\* Every step of the scheduler, or a step of another component, keeps the
\* inductive invariant.
LEMMA SchedulerNextInv == SchedulerInv /\ [SchedulerNext]_schedulerVars => SchedulerInv'
<1> SUFFICES ASSUME SchedulerInv, [SchedulerNext]_schedulerVars PROVE SchedulerInv'
  OBVIOUS
<1>1. CASE Start \/ RunCtxEnds \/ BudgetEnds
  BY <1>1, StartInv, RunCtxEndsInv, BudgetEndsInv
<1>2. CASE \E c \in JobClosers : CloseJobs(c)
  BY <1>2, CloseJobsInv
<1>3. CASE \E c \in Stoppers : StopJobs(c) \/ Waited(c)
  BY <1>3, StopJobsInv, WaitedInv
<1>4. CASE \E e \in Entries : EntryStep(e)
  <2> PICK e \in Entries : EntryStep(e)
    BY <1>4
  <2>1. CASE TimerFires(e) \/ LoopEnds(e) \/ trigger(e)
    BY <2>1, TimerFiresInv, LoopEndsInv, TriggerInv
  <2>2. CASE ExecuteStarts(e) \/ ExecuteEnds(e, TRUE) \/ ExecuteEnds(e, FALSE)
    BY <2>2, ExecuteStartsInv, ExecuteEndsInv
  <2>3. CASE RunAgain(e) \/ RunsReturns(e)
    BY <2>3, RunAgainInv, RunsReturnsInv
  <2>4. QED
    BY <2>1, <2>2, <2>3 DEF EntryStep
<1>5. CASE UNCHANGED schedulerVars
  <2> USE <1>5 DEF schedulerVars, jobsLife, overlapState, goroutines, SchedulerInv, OverlapHonoured
  <2>1. SchedulerTypeOK'
    BY DEF SchedulerTypeOK
  <2>2. NoOverlap' /\ QueuedBehindRun'
    BY DEF NoOverlap, QueuedBehindRun, Alive
  <2>3. TriggersAccounted'
    BY DEF TriggersAccounted, Accounted
  <2>4. LifeInv' /\ QuietAfterStop'
    BY DEF LifeInv, QuietAfterStop, wgIsZero, Alive
  <2>5. QED
    BY <2>1, <2>2, <2>3, <2>4
<1>6. QED
  BY <1>1, <1>2, <1>3, <1>4, <1>5 DEF SchedulerNext

\* The invariant holds in every reachable state, for any entries, policies,
\* closers and activations.
THEOREM SchedulerSafe == SchedulerSpec => []SchedulerInv
<1>1. QED
  BY SchedulerInitInv, SchedulerNextInv, PTL DEF SchedulerSpec

\* trigger and run never let two runs of an entry overlap under skip or queue,
\* and no activation is lost: it is a run, a skip, queued or discarded by a stop.
THEOREM SchedulerHonoursOverlap == SchedulerSpec => []OverlapHonoured
<1>1. SchedulerInv => OverlapHonoured
  BY DEF SchedulerInv
<1>2. QED
  BY <1>1, SchedulerSafe, PTL

\* When Close or Start's own stop has returned nil, no loop and no run is alive
\* and none appears later, however Start, Close and the context's end race.
THEOREM SchedulerQuietAfterStop == SchedulerSpec => []QuietAfterStop
<1>1. SchedulerInv => QuietAfterStop
  BY DEF SchedulerInv
<1>2. QED
  BY <1>1, SchedulerSafe, PTL

-----------------------------------------------------------------------------
(* The audit log.                                                          *)

\* The stages of Close after the audit log's lock was taken.
Locked == {"wait", "cancel", "sweeper", "cut sweeper", "closed", "cut"}

\* The types of the state Close works on.
CloseTypeOK ==
  /\ stage \in {"open", "mail", "background", "audit", "lock"} \cup Locked
  /\ ctxEnded \in BOOLEAN /\ mails \in Nat /\ mailClosed \in BOOLEAN
  /\ logger \in [Loggers -> {"idle", "entered", "sending"}]
  /\ stopping \in BOOLEAN /\ inClosed \in BOOLEAN /\ canceled \in BOOLEAN
  /\ writer \in {"select", "flush", "last", "returned"}
  /\ sweeper \in {"waits", "purges", "returned"}
  /\ buffered \in Nat /\ batch \in Nat
  /\ accepted \in Nat /\ written \in Nat /\ failedRows \in Nat /\ dropped \in Nat

\* Every accepted event is in the channel, in the batch, written or counted.
EventsConserved == accepted = written + failedRows + batch + buffered

\* What the writer's state says at each stage of Close: it starts its last
\* flush only on a closed and drained channel, its context is canceled only
\* after that or when Close's own context ended, and so a Close that was not
\* cut short has a writer that left nothing behind.
WriterDrains ==
  /\ inClosed <=> stage \in Locked
  /\ canceled => stage \in Locked \ {"wait"}
  /\ writer = "last" => inClosed /\ buffered = 0
  /\ writer = "returned" => inClosed
  /\ writer = "returned" /\ stage \in {"wait", "sweeper", "closed"} => buffered = 0 /\ batch = 0
  /\ stage \in {"sweeper", "closed"} => writer = "returned"

\* The inductive invariant.
CloseInv == CloseTypeOK /\ EventsConserved /\ WriterDrains /\ NoSendOnClosed

-----------------------------------------------------------------------------
\* A new Identity has accepted nothing.
LEMMA CloseInitInv == CloseInit => CloseInv
<1> SUFFICES ASSUME CloseInit PROVE CloseInv
  OBVIOUS
<1>1. CloseTypeOK
  BY DEF CloseInit, CloseTypeOK
<1>2. EventsConserved /\ WriterDrains /\ NoSendOnClosed
  BY DEF CloseInit, EventsConserved, WriterDrains, NoSendOnClosed, Locked
<1>3. QED
  BY <1>1, <1>2 DEF CloseInv


\* Nothing but the audit log's own steps touches the channel, the batch or the
\* counters: mails, sweeps and the end of Close's context leave them alone.
LEMMA AsideInv ==
  ASSUME CloseInv, sendMail \/ MailEnds \/ sweep \/ purge \/ SweeperCanceled \/ CloseCtxEnds
  PROVE  CloseInv'
<1> USE DEF sendMail, MailEnds, sweep, purge, SweeperCanceled, CloseCtxEnds, auditVars, mailVars
<1>1. CloseTypeOK'
  <2>1. CASE sendMail \/ MailEnds
    BY <2>1 DEF CloseInv, CloseTypeOK
  <2>2. CASE sweep \/ purge \/ SweeperCanceled
    BY <2>2 DEF CloseInv, CloseTypeOK
  <2>3. CASE CloseCtxEnds
    BY <2>3 DEF CloseInv, CloseTypeOK
  <2>4. QED
    BY <2>1, <2>2, <2>3
<1>2. UNCHANGED <<stage, logger, inClosed, buffered, batch, writer, canceled, accepted, written, failedRows>>
  OBVIOUS
<1>3. EventsConserved' /\ WriterDrains' /\ NoSendOnClosed'
  BY <1>2 DEF CloseInv, EventsConserved, WriterDrains, NoSendOnClosed
<1>4. QED
  BY <1>1, <1>3 DEF CloseInv

\* Log takes the read lock, looks at closed, and sends only when it found the
\* log open; Close cannot have closed the channel in between.
LEMMA LogInv ==
  ASSUME NEW l \in Loggers, CloseInv,
         LogEnters(l) \/ LogChecks(l) \/ LogSends(l) \/ LogDrops(l) \/ LogGivesUp(l)
  PROVE  CloseInv'
<1> USE DEF CloseInv, CloseTypeOK, EventsConserved, WriterDrains, NoSendOnClosed, To
<1>1. CASE LogEnters(l)
  BY <1>1 DEF LogEnters
<1>2. CASE LogChecks(l)
  BY <1>2 DEF LogChecks
<1>3. CASE LogSends(l)
  BY <1>3 DEF LogSends
<1>4. CASE LogDrops(l)
  BY <1>4 DEF LogDrops
<1>5. CASE LogGivesUp(l)
  BY <1>5 DEF LogGivesUp
<1>6. QED
  BY <1>1, <1>2, <1>3, <1>4, <1>5

\* The writer moves events from the channel to its batch and from there to the
\* table or the failures, and ends on its own only when both are empty.
LEMMA WriterInv ==
  ASSUME CloseInv, NEW ok \in BOOLEAN, Receive \/ FlushTimer \/ QueueEnds \/ WriterCanceled \/ Flushed(ok)
  PROVE  CloseInv'
<1> USE CloseAssumption DEF CloseInv
<1>1. CASE Receive
  <2>1. CloseTypeOK'
    BY <1>1 DEF Receive, CloseTypeOK
  <2>2. EventsConserved'
    BY <1>1 DEF Receive, CloseTypeOK, EventsConserved
  <2>3. WriterDrains' /\ NoSendOnClosed'
    BY <1>1 DEF Receive, CloseTypeOK, WriterDrains, NoSendOnClosed
  <2>4. QED
    BY <2>1, <2>2, <2>3
<1>2. CASE FlushTimer
  BY <1>2 DEF FlushTimer, CloseTypeOK, EventsConserved, WriterDrains, NoSendOnClosed
<1>3. CASE QueueEnds
  BY <1>3 DEF QueueEnds, CloseTypeOK, EventsConserved, WriterDrains, NoSendOnClosed
<1>4. CASE WriterCanceled
  BY <1>4 DEF WriterCanceled, CloseTypeOK, EventsConserved, WriterDrains, NoSendOnClosed, Locked
<1>5. CASE Flushed(ok)
  <2>1. CloseTypeOK'
    BY <1>5 DEF Flushed, CloseTypeOK
  <2>2. EventsConserved'
    BY <1>5 DEF Flushed, CloseTypeOK, EventsConserved
  <2>3. WriterDrains' /\ NoSendOnClosed'
    BY <1>5 DEF Flushed, CloseTypeOK, WriterDrains, NoSendOnClosed
  <2>4. QED
    BY <2>1, <2>2, <2>3
<1>6. QED
  BY <1>1, <1>2, <1>3, <1>4, <1>5

\* Close goes from stage to stage: it closes the channel only when no caller
\* holds the read lock, and reports success only after the writer returned.
LEMMA CloseStepsInv ==
  ASSUME CloseInv, CloseSteps
  PROVE  CloseInv'
<1> USE DEF CloseInv, CloseTypeOK, EventsConserved, WriterDrains, NoSendOnClosed, Locked, auditVars, mailVars
<1>1. CASE waitForMail
  BY <1>1 DEF waitForMail
<1>2. CASE StopBackground
  BY <1>2 DEF StopBackground
<1>3. CASE AuditStops
  BY <1>3 DEF AuditStops
<1>4. CASE AuditLocks
  BY <1>4 DEF AuditLocks, Readers
<1>5. CASE AuditCloses
  BY <1>5, ZenonT(60) DEF AuditCloses
<1>6. QED
  BY <1>1, <1>2, <1>3, <1>4, <1>5 DEF CloseSteps

\* Every step keeps the inductive invariant.
LEMMA CloseNextInv == CloseInv /\ [CloseNext]_closeVars => CloseInv'
<1> SUFFICES ASSUME CloseInv, [CloseNext]_closeVars PROVE CloseInv'
  OBVIOUS
<1>1. CASE CloseNext
  BY <1>1, AsideInv, LogInv, WriterInv, CloseStepsInv DEF CloseNext
<1>2. CASE UNCHANGED closeVars
  BY <1>2 DEF closeVars, CloseInv, CloseTypeOK, EventsConserved, WriterDrains, NoSendOnClosed
<1>3. QED
  BY <1>1, <1>2

\* The invariant is enough: a Close that was not cut short left the channel and
\* the batch empty.
LEMMA CloseInvIsWhole == CloseInv => AuditIsWhole
  BY DEF CloseInv, CloseTypeOK, EventsConserved, WriterDrains, AuditIsWhole, ClosedIsWritten

\* Close without an error wrote or counted every event Log accepted, and nobody
\* sends on the channel it closed, for any number of callers and any buffer.
THEOREM CloseKeepsTheAudit == CloseSpec => []AuditIsWhole
<1>1. CloseInit => CloseInv
  BY CloseInitInv
<1>2. CloseInv /\ [CloseNext]_closeVars => CloseInv'
  BY CloseNextInv
<1>3. CloseInv => AuditIsWhole
  BY CloseInvIsWhole
<1>4. QED
  BY <1>1, <1>2, <1>3, PTL DEF CloseSpec

-----------------------------------------------------------------------------
(* Access control.                                                         *)

\* The table holds rows of the rules the replicas are about, each of which
\* reads back as the rule it was written for.
Stored(table) ==
  \A row \in table : LET rule == rowToRule(row) IN rule \in Rules /\ Fits(rule) /\ ruleToRow(rule) = row

LoadShape ==
  /\ loading = [who \in {"loop", "call"} |-> loading[who]]
  /\ \A who \in {"loop", "call"} : /\ loading[who] = [at |-> loading[who].at, rules |-> loading[who].rules]
                                   /\ loading[who].rules \subseteq Rules

\* The inductive invariant.
RbacInv ==
  /\ Stored(ruleRows) /\ policy \subseteq Rules /\ LoadShape
  /\ owed \in BOOLEAN /\ signal \in BOOLEAN
  /\ watch \in {"new", "loaded"} => ~ owed
  /\ LoadedSinceHeard

-----------------------------------------------------------------------------
\* The values of the rules.
RuleValues == {"user", "editor", "tenant", globalDomain}

\* A rule has two values or, a binding, three, none of them empty.
LEMMA RuleFacts ==
  \A rule \in Rules : /\ rule = Rule(rule.ptype, rule.v) /\ rule.ptype \in {"p", "g"}
                      /\ rule.v \in Seq(RuleValues) /\ Len(rule.v) = IF rule.ptype = "p" THEN 2 ELSE 3
                      /\ \A i \in 1..Len(rule.v) : rule.v[i] # Empty
<1>1. ASSUME NEW rule \in PolicyRules
      PROVE  /\ rule = Rule(rule.ptype, rule.v) /\ rule.ptype = "p" /\ rule.v \in Seq(RuleValues) /\ Len(rule.v) = 2
             /\ \A i \in 1..2 : rule.v[i] # Empty
  <2>1. PICK sub \in {"user", "editor"}, dom \in {globalDomain, "tenant"} : rule = Rule("p", <<sub, dom>>)
    BY DEF PolicyRules
  <2>2. sub \in RuleValues /\ dom \in RuleValues /\ sub # Empty /\ dom # Empty
    BY DEF globalDomain, Empty, RuleValues
  <2>3. rule.ptype = "p" /\ rule.v = <<sub, dom>> /\ rule = Rule(rule.ptype, rule.v)
    BY <2>1 DEF Rule
  <2>4. QED
    BY <2>2, <2>3
<1>2. ASSUME NEW rule \in Bindings
      PROVE  /\ rule = Rule(rule.ptype, rule.v) /\ rule.ptype = "g" /\ rule.v \in Seq(RuleValues) /\ Len(rule.v) = 3
             /\ \A i \in 1..3 : rule.v[i] # Empty
  <2>1. rule.ptype = "g" /\ rule.v = <<"user", "editor", "tenant">> /\ rule = Rule(rule.ptype, rule.v)
    BY DEF Rule, Bindings
  <2>2. QED
    BY <2>1 DEF Empty, RuleValues
<1>3. QED
  BY <1>1, <1>2 DEF Rules

\* What a row of a rule holds.
LEMMA RowFacts ==
  ASSUME NEW rule \in Rules, Fits(rule)
  PROVE  /\ ruleToRow(rule).ptype = rule.ptype /\ Len(rule.v) \in 1..Width
         /\ ruleToRow(rule).v = [i \in 1..Width |-> IF i <= Len(rule.v) THEN rule.v[i] ELSE Empty]
         /\ \A i \in 1..Len(rule.v) : ruleToRow(rule).v[i] = rule.v[i] /\ rule.v[i] # Empty
         /\ \A i \in 1..Width : i > Len(rule.v) => ruleToRow(rule).v[i] = Empty
  BY RuleFacts, WidthAssumption DEF ruleToRow, Fits

\* A rule that fits is read back as it was written.
LEMMA RowBack ==
  ASSUME NEW rule \in Rules, Fits(rule)
  PROVE  rowToRule(ruleToRow(rule)) = rule
<1> DEFINE row == ruleToRow(rule)
           used == {i \in 1..Width : row.v[i] # Empty}
<1>0. PICK n : n = Len(rule.v)
  OBVIOUS
<1>1. /\ rule.v \in Seq(RuleValues) /\ n \in 1..Width /\ row.ptype = rule.ptype
      /\ row.v = [i \in 1..Width |-> IF i <= n THEN rule.v[i] ELSE Empty] /\ rule = Rule(rule.ptype, rule.v)
      /\ \A i \in 1..n : row.v[i] = rule.v[i] /\ rule.v[i] # Empty
      /\ \A i \in 1..Width : i > n => row.v[i] = Empty
  BY <1>0, RowFacts, RuleFacts
<1>2. used = 1..n
  <2>1. \A i \in 1..Width : i \in 1..n <=> i <= n
    BY <1>1, WidthAssumption
  <2>2. 1..n \subseteq 1..Width
    BY <1>1, WidthAssumption
  <2>3. \A i \in 1..Width : row.v[i] # Empty <=> i \in 1..n
    BY <1>1, <2>1, WidthAssumption
  <2>4. QED
    BY <2>2, <2>3
<1>3. Max(1..n) = n
  BY <1>1, WidthAssumption DEF Max
<1>4. SubSeq(row.v, 1, n) = rule.v
  <2>1. row.v \in Seq(RuleValues \cup {Empty}) /\ Len(row.v) = Width
    <3>1. \A i \in 1..n : rule.v[i] \in RuleValues
      BY <1>0, <1>1
    <3>2. QED
      BY <3>1, <1>1, WidthAssumption
  <2>2. SubSeq(row.v, 1, n) = [i \in 1..n |-> row.v[i]]
    BY <2>1, <1>1, WidthAssumption
  <2>3. rule.v = [i \in 1..n |-> rule.v[i]]
    BY <1>0, <1>1
  <2>4. QED
    BY <2>2, <2>3, <1>1
<1>5. rowToRule(row) = Rule(row.ptype, SubSeq(row.v, 1, n))
  <2>1. used # {}
    <3>1. 1 \in 1..n
      BY <1>1, WidthAssumption
    <3>2. QED
      BY <3>1, <1>2
  <2>2. Max(used) = n
    BY <1>2, <1>3
  <2>3. QED
    BY <2>1, <2>2 DEF rowToRule
<1>6. QED
  BY <1>1, <1>4, <1>5

RowsOf(new) == {ruleToRow(rule) : rule \in new}

LEMMA StoresRules ==
  ASSUME NEW table, Stored(table), NEW new \in SUBSET Rules, \A rule \in new : Fits(rule)
  PROVE  /\ Stored(table \cup RowsOf(new)) /\ LoadPolicy(table \cup RowsOf(new)) = LoadPolicy(table) \cup new
         /\ Stored(RowsOf(new)) /\ LoadPolicy(RowsOf(new)) = new
<1>1. \A rule \in new : rule \in Rules /\ Fits(rule) /\ rowToRule(ruleToRow(rule)) = rule
  BY RowBack
<1>2. QED
  BY <1>1 DEF Stored, LoadPolicy, RowsOf

LEMMA DropsRows ==
  ASSUME NEW table, Stored(table), NEW gone \in SUBSET table
  PROVE  /\ Stored(table \ gone) /\ LoadPolicy(table \ gone) = LoadPolicy(table) \ LoadPolicy(gone)
         /\ LoadPolicy(table) \subseteq Rules
  BY DEF Stored, LoadPolicy

\* A rule the table holds is in the row written for it.
LEMMA HeldRow ==
  ASSUME NEW table, Stored(table), NEW rule \in Rules, Fits(rule)
  PROVE  ruleToRow(rule) \in table <=> rule \in LoadPolicy(table)
  BY RowBack DEF Stored, LoadPolicy

\* The rows that agree with a rule in the rule's columns are its own row: rules of a ptype have as many values.
LEMMA ExactRows ==
  ASSUME NEW table, Stored(table), NEW rule \in Rules
  PROVE  /\ LoadPolicy(applyValueColumns(table, rule)) = LoadPolicy(table) \cap {rule}
         /\ applyValueColumns(table, rule) \subseteq table
<1>1. ASSUME NEW row \in table
      PROVE  row \in applyValueColumns(table, rule) <=> rowToRule(row) = rule
  <2>0. PICK other : other = rowToRule(row)
    OBVIOUS
  <2>1. other \in Rules /\ Fits(other) /\ row = ruleToRow(other)
    BY <2>0 DEF Stored
  <2>2. row.ptype = other.ptype /\ \A i \in 1..Len(other.v) : row.v[i] = other.v[i]
    BY <2>1, RowFacts
  <2>3. CASE other = rule
    BY <2>0, <2>2, <2>3 DEF applyValueColumns
  <2>4. CASE row \in applyValueColumns(table, rule)
    <3>1. row.ptype = rule.ptype /\ \A i \in 1..Len(rule.v) : row.v[i] = rule.v[i]
      BY <2>4 DEF applyValueColumns
    <3>2. Len(rule.v) = Len(other.v) /\ rule.v \in Seq(RuleValues) /\ other.v \in Seq(RuleValues)
      BY <3>1, <2>1, <2>2, RuleFacts
    <3>3. rule.v = other.v
      BY <3>1, <3>2, <2>2
    <3>4. rule = other
      BY <3>1, <3>3, <2>1, <2>2, RuleFacts
    <3>5. QED
      BY <3>4, <2>0, <2>4
  <2>5. QED
    BY <2>0, <2>3, <2>4
<1>2. applyValueColumns(table, rule) \subseteq table
  BY DEF applyValueColumns
<1>3. QED
  BY <1>1, <1>2 DEF LoadPolicy

\* So are the rows a filter meets those of the rules that it meets.
LEMMA FilteredRows ==
  ASSUME NEW table, Stored(table), NEW index, NEW value, hasAnyMappedConstraint(index, <<value>>), index \in 0..1
  PROVE  /\ applyValueColumnsFiltered(table, "p", index, <<value>>) \subseteq table
         /\ LoadPolicy(applyValueColumnsFiltered(table, "p", index, <<value>>))
              = {rule \in LoadPolicy(table) : rule.ptype = "p" /\ \A i \in 1..Len(<<value>>) : <<value>>[i] # Empty => rule.v[index + i] = <<value>>[i]}
<1>0. PICK met : met = applyValueColumnsFiltered(table, "p", index, <<value>>)
  OBVIOUS
<1>1. value # Empty /\ index + 1 <= Width /\ index + 1 \in 1..2
  BY WidthAssumption DEF hasAnyMappedConstraint
<1>2. met = {row \in table : row.ptype = "p" /\ row.v[index + 1] = value}
  BY <1>0, <1>1 DEF applyValueColumnsFiltered
<1>3. {rule \in LoadPolicy(table) : rule.ptype = "p" /\ \A i \in 1..Len(<<value>>) : <<value>>[i] # Empty => rule.v[index + i] = <<value>>[i]}
        = {rule \in LoadPolicy(table) : rule.ptype = "p" /\ rule.v[index + 1] = value}
  BY <1>1
<1>4. \A row \in table : row.ptype = rowToRule(row).ptype /\ (row.ptype = "p" => row.v[index + 1] = rowToRule(row).v[index + 1])
  <2>1. SUFFICES ASSUME NEW row \in table
                 PROVE  row.ptype = rowToRule(row).ptype /\ (row.ptype = "p" => row.v[index + 1] = rowToRule(row).v[index + 1])
    OBVIOUS
  <2>2. PICK other : other = rowToRule(row)
    OBVIOUS
  <2>3. other \in Rules /\ Fits(other) /\ row = ruleToRow(other)
    BY <2>2 DEF Stored
  <2>4. row.ptype = other.ptype /\ \A i \in 1..Len(other.v) : row.v[i] = other.v[i]
    BY <2>3, RowFacts
  <2>5. other.ptype = "p" => Len(other.v) = 2
    BY <2>3, RuleFacts
  <2>6. QED
    BY <2>2, <2>4, <2>5, <1>1
<1>5. QED
  BY <1>0, <1>2, <1>3, <1>4 DEF LoadPolicy

-----------------------------------------------------------------------------
\* What a change must do: leave rows that read back, and in memory the rules
\* of those rows if it began so, announced if the rows are others.
Sound(result, after, changed) ==
  /\ Stored(result.rows) /\ after \subseteq Rules
  /\ policy = LoadPolicy(ruleRows) => after = LoadPolicy(result.rows) /\ (result.rows = ruleRows \/ changed)

InStep ==
  (last'.number # last.number /\ policy = LoadPolicy(ruleRows)) =>
    policy' = LoadPolicy(ruleRows') /\ (ruleRows' # ruleRows => last'.announced)

LEMMA AppliedStep ==
  ASSUME RbacInv, NEW result, NEW after, NEW changed \in BOOLEAN, Applied(result, after, changed),
         ~ result.refused => Sound(result, after, changed)
  PROVE  RbacInv' /\ InStep
<1>1. /\ watch \notin {"new", "loaded"} /\ ~ result.refused /\ ruleRows' = result.rows /\ policy' = after
      /\ watch' = watch /\ signal' = signal /\ loading' = loading /\ owed' = owed
      /\ last' = [number |-> changes + 1, announced |-> changed]
  BY DEF Applied
<1>2. Sound(result, after, changed)
  BY <1>1
<1>3. RbacInv'
  BY <1>1, <1>2 DEF RbacInv, Sound, LoadShape, LoadedSinceHeard
<1>4. last'.announced = changed
  BY <1>1
<1>5. InStep
  BY <1>1, <1>2, <1>4 DEF InStep, Sound
<1>6. QED
  BY <1>3, <1>5

LEMMA AddStep ==
  ASSUME RbacInv, NEW new \in SUBSET Rules, AddRules(new)
  PROVE  RbacInv' /\ InStep
<1>0. PICK result, after, changed : result = AddPolicies(ruleRows, new) /\ after = policy \cup new /\ changed = TRUE
  OBVIOUS
<1>1. Applied(result, after, changed) /\ changed \in BOOLEAN
  BY <1>0 DEF AddRules
<1>2. ASSUME ~ result.refused PROVE Sound(result, after, changed)
  <2>1. \A rule \in new : Fits(rule)
    BY <1>0, <1>2 DEF AddPolicies, Refused
  <2>2. result.rows = ruleRows \cup RowsOf(new)
    BY <1>0, <2>1 DEF AddPolicies, Ok, RowsOf
  <2>3. Stored(ruleRows) /\ policy \subseteq Rules
    BY DEF RbacInv
  <2>4. Stored(result.rows) /\ LoadPolicy(result.rows) = LoadPolicy(ruleRows) \cup new
    <3>1. Stored(ruleRows \cup RowsOf(new)) /\ LoadPolicy(ruleRows \cup RowsOf(new)) = LoadPolicy(ruleRows) \cup new
      BY <2>1, <2>3, StoresRules
    <3>2. QED
      BY <3>1, <2>2
  <2>5. QED
    BY <1>0, <2>3, <2>4 DEF Sound
<1>3. QED
  BY <1>1, <1>2, AppliedStep

LEMMA RemoveStep ==
  ASSUME RbacInv, NEW old \in SUBSET Rules, RemoveRules(old)
  PROVE  RbacInv' /\ InStep
<1>0. PICK result, after, changed : result = RemovePolicies(ruleRows, old) /\ after = policy \ old /\ changed = TRUE
  OBVIOUS
<1>1. Applied(result, after, changed) /\ changed \in BOOLEAN
  BY <1>0 DEF RemoveRules
<1>2. Stored(ruleRows) /\ policy \subseteq Rules
  BY DEF RbacInv
<1>3. PICK gone : gone = UNION {applyValueColumns(ruleRows, rule) : rule \in old}
  OBVIOUS
<1>4. \A rule \in old : /\ LoadPolicy(applyValueColumns(ruleRows, rule)) = LoadPolicy(ruleRows) \cap {rule}
                        /\ applyValueColumns(ruleRows, rule) \subseteq ruleRows
  BY <1>2, ExactRows
<1>5. gone \subseteq ruleRows /\ LoadPolicy(gone) = LoadPolicy(ruleRows) \cap old
  BY <1>3, <1>4 DEF LoadPolicy
<1>6. result.rows = ruleRows \ gone
  BY <1>0, <1>3 DEF RemovePolicies, Ok
<1>7. Stored(result.rows) /\ LoadPolicy(result.rows) = LoadPolicy(ruleRows) \ LoadPolicy(gone)
  <2>1. Stored(ruleRows \ gone) /\ LoadPolicy(ruleRows \ gone) = LoadPolicy(ruleRows) \ LoadPolicy(gone)
    BY <1>2, <1>5, DropsRows
  <2>2. QED
    BY <2>1, <1>6
<1>8. Sound(result, after, changed)
  BY <1>0, <1>2, <1>5, <1>7 DEF Sound
<1>9. QED
  BY <1>1, <1>8, AppliedStep

LEMMA ReplaceStep ==
  ASSUME RbacInv, NEW old \in Rules, NEW new \in Rules, Replace(old, new)
  PROVE  RbacInv' /\ InStep
<1>a. \E changed : changed = (old \in policy)
  BY Zenon
<1>b. PICK changed : changed = (old \in policy)
  BY <1>a
<1>0. PICK result, after : /\ result = UpdatePolicies(ruleRows, {old}, {new})
                           /\ after = IF old \in policy THEN (policy \ {old}) \cup {new} ELSE policy
  OBVIOUS
<1>1. Applied(result, after, changed) /\ changed \in BOOLEAN
  <2>1. Applied(UpdatePolicies(ruleRows, {old}, {new}), IF old \in policy THEN (policy \ {old}) \cup {new} ELSE policy, old \in policy)
    BY Zenon DEF Replace
  <2>2. changed \in BOOLEAN
    BY <1>b
  <2>3. Applied(UpdatePolicies(ruleRows, {old}, {new}), IF old \in policy THEN (policy \ {old}) \cup {new} ELSE policy, changed)
    BY <1>b, <2>1, Zenon
  <2>4. Applied(result, after, changed)
    BY <1>0, <2>3
  <2>5. QED
    BY <2>2, <2>4
<1>2. Stored(ruleRows) /\ policy \subseteq Rules
  BY DEF RbacInv
<1>3. ASSUME ~ result.refused PROVE Sound(result, after, changed)
  <2>1. PICK rest : rest = ruleRows \ {ruleToRow(old)}
    OBVIOUS
  <2>2. UNION {applyExactRule(ruleRows, rule) : rule \in {old}} = ruleRows \cap {ruleToRow(old)}
    BY DEF applyExactRule
  <2>3. RowsOf({new}) = {ruleToRow(new)} /\ rest = ruleRows \ (ruleRows \cap {ruleToRow(old)})
    BY <2>1 DEF RowsOf
  <2>4. Fits(old) /\ Fits(new) /\ ruleToRow(old) \in ruleRows
    BY <1>0, <1>3 DEF UpdatePolicies, Refused, applyExactRule
  <2>5. result.rows = rest \cup {ruleToRow(new)}
    BY <1>0, <1>3, <2>2, <2>3 DEF UpdatePolicies, Refused, Ok, RowsOf
  <2>6. Stored({ruleToRow(old)}) /\ LoadPolicy({ruleToRow(old)}) = {old}
    BY <2>4, RowBack DEF Stored, LoadPolicy
  <2>7. Stored(rest) /\ LoadPolicy(rest) = LoadPolicy(ruleRows) \ {old}
    BY <1>2, <2>1, <2>4, <2>6, DropsRows
  <2>8. Stored(result.rows) /\ LoadPolicy(result.rows) = (LoadPolicy(ruleRows) \ {old}) \cup {new}
    <3>1. {new} \in SUBSET Rules /\ \A rule \in {new} : Fits(rule)
      BY <2>4
    <3>2. Stored(rest \cup RowsOf({new})) /\ LoadPolicy(rest \cup RowsOf({new})) = LoadPolicy(rest) \cup {new}
      BY <3>1, <2>7, StoresRules
    <3>3. QED
      BY <3>2, <2>3, <2>5, <2>7
  <2>9. old \in LoadPolicy(ruleRows)
    BY <1>2, <2>4, HeldRow
  <2>10. QED
    BY <1>0, <1>b, <1>2, <2>8, <2>9 DEF Sound
<1>4. QED
  BY <1>1, <1>3, AppliedStep

LEMMA RemoveFilteredStep ==
  ASSUME RbacInv, NEW index \in 0..1, NEW value, hasAnyMappedConstraint(index, <<value>>), RemoveFiltered(index, <<value>>)
  PROVE  RbacInv' /\ InStep
<1>1. Stored(ruleRows) /\ policy \subseteq Rules
  BY DEF RbacInv
<1>2. PICK gone : gone = {rule \in policy : rule.ptype = "p" /\
                            \A i \in 1..Len(<<value>>) : <<value>>[i] # Empty => rule.v[index + i] = <<value>>[i]}
  OBVIOUS
<1>3. PICK met : met = applyValueColumnsFiltered(ruleRows, "p", index, <<value>>)
  OBVIOUS
<1>4. PICK result, after : result = RemoveFilteredPolicy(ruleRows, "p", index, <<value>>) /\ after = policy \ gone
  OBVIOUS
<1>5. \E changed : changed = (gone # {})
  BY Zenon
<1>6. PICK changed : changed = (gone # {})
  BY <1>5
<1>7. changed \in BOOLEAN
  BY <1>6
<1>8. Applied(result, after, changed)
  <2>1. Applied(RemoveFilteredPolicy(ruleRows, "p", index, <<value>>), policy \ gone, gone # {})
    BY <1>2, Zenon DEF RemoveFiltered
  <2>2. Applied(RemoveFilteredPolicy(ruleRows, "p", index, <<value>>), policy \ gone, changed)
    BY <1>6, <2>1, Zenon
  <2>3. QED
    BY <1>4, <2>2
<1>9. result.rows = ruleRows \ met
  BY <1>3, <1>4 DEF RemoveFilteredPolicy, Ok
<1>10. met \subseteq ruleRows /\ (policy = LoadPolicy(ruleRows) => LoadPolicy(met) = gone)
  <2>1. /\ met \subseteq ruleRows
        /\ LoadPolicy(met) = {rule \in LoadPolicy(ruleRows) : rule.ptype = "p" /\
                            \A i \in 1..Len(<<value>>) : <<value>>[i] # Empty => rule.v[index + i] = <<value>>[i]}
    BY <1>1, <1>3, FilteredRows
  <2>2. QED
    BY <2>1, <1>2
<1>11. Stored(ruleRows \ met) /\ LoadPolicy(ruleRows \ met) = LoadPolicy(ruleRows) \ LoadPolicy(met)
  BY <1>1, <1>10, DropsRows
<1>12. Sound(result, after, changed)
  <2>1. LoadPolicy(met) = {} => met = {}
    BY DEF LoadPolicy
  <2>2. QED
    BY <1>1, <1>2, <1>4, <1>6, <1>9, <1>10, <1>11, <2>1 DEF Sound
<1>13. QED
  BY <1>7, <1>8, <1>12, AppliedStep

LEMMA ReplaceFilteredStep ==
  ASSUME RbacInv, NEW new \in Rules, NEW index, NEW values, ReplaceFiltered({new}, index, values)
  PROVE  RbacInv' /\ InStep
<1>1. Stored(ruleRows) /\ policy \subseteq Rules
  BY DEF RbacInv
<1>2. PICK met : met = applyValueColumnsFiltered(ruleRows, "p", index, values)
  OBVIOUS
<1>3. PICK result : result = UpdateFilteredPolicies(ruleRows, "p", {new}, index, values)
  OBVIOUS
<1>4. PICK after : after = (policy \ result.old) \cup {new}
  OBVIOUS
<1>5. \E changed : changed = (result.old # {})
  BY Zenon
<1>6. PICK changed : changed = (result.old # {})
  BY <1>5
<1>7. changed \in BOOLEAN
  BY <1>6
<1>8. Applied(result, after, changed)
  <2>1. Applied(result, (policy \ result.old) \cup {new}, result.old # {})
    BY <1>3, Zenon DEF ReplaceFiltered
  <2>2. Applied(result, (policy \ result.old) \cup {new}, changed)
    BY <1>6, <2>1, Zenon
  <2>3. QED
    BY <1>4, <2>2
<1>9. ASSUME ~ result.refused PROVE Sound(result, after, changed)
  <2>1. Fits(new) /\ met # {}
    BY <1>2, <1>3, <1>9 DEF UpdateFilteredPolicies, Refused
  <2>2. result.rows = (ruleRows \ met) \cup RowsOf({new}) /\ result.old = LoadPolicy(met)
    BY <1>2, <1>3, <1>9 DEF UpdateFilteredPolicies, Refused, RowsOf, LoadPolicy
  <2>3. met \subseteq ruleRows
    BY <1>2 DEF applyValueColumnsFiltered
  <2>4. Stored(ruleRows \ met) /\ LoadPolicy(ruleRows \ met) = LoadPolicy(ruleRows) \ LoadPolicy(met)
    BY <1>1, <2>3, DropsRows
  <2>5. {new} \in SUBSET Rules /\ \A rule \in {new} : Fits(rule)
    BY <2>1
  <2>6. PICK left : left = ruleRows \ met
    OBVIOUS
  <2>7. Stored(left \cup RowsOf({new})) /\ LoadPolicy(left \cup RowsOf({new})) = LoadPolicy(left) \cup {new}
    BY <2>4, <2>5, <2>6, StoresRules
  <2>8. LoadPolicy(met) # {}
    BY <2>1 DEF LoadPolicy
  <2>9. changed
    BY <1>6, <2>2, <2>8
  <2>10. QED
    BY <1>1, <1>4, <2>2, <2>4, <2>6, <2>7, <2>9 DEF Sound
<1>10. QED
  BY <1>7, <1>8, <1>9, AppliedStep

LEMMA SaveStep ==
  ASSUME RbacInv, Save
  PROVE  RbacInv' /\ InStep
<1>0. PICK result, after, changed : result = SavePolicy(ruleRows, policy) /\ after = policy /\ changed = TRUE
  OBVIOUS
<1>1. Applied(result, after, changed) /\ changed \in BOOLEAN
  BY <1>0 DEF Save
<1>2. ASSUME ~ result.refused PROVE Sound(result, after, changed)
  <2>1. \A rule \in policy : Fits(rule)
    BY <1>0, <1>2 DEF SavePolicy, Refused
  <2>2. result.rows = RowsOf(policy)
    BY <1>0, <2>1 DEF SavePolicy, Ok, RowsOf
  <2>3. Stored(ruleRows) /\ policy \in SUBSET Rules
    BY DEF RbacInv
  <2>4. Stored(RowsOf(policy)) /\ LoadPolicy(RowsOf(policy)) = policy
    BY <2>1, <2>3, StoresRules
  <2>5. QED
    BY <1>0, <2>2, <2>3, <2>4 DEF Sound
<1>3. QED
  BY <1>1, <1>2, AppliedStep

LEMMA ChangeStep ==
  ASSUME RbacInv, Change
  PROVE  RbacInv' /\ InStep
<1>1. /\ \A dom \in {"", globalDomain, "tenant"} : ~ rejectGlobalMembership(dom) => {Rule("g", <<"user", "editor", dom>>)} \in SUBSET Rules
      /\ \A dom \in {"", globalDomain, "tenant"} : {Rule("p", <<"editor", normalizeDomain(dom)>>)} \in SUBSET Rules
      /\ {Rule("p", <<"editor", globalDomain>>)} \in SUBSET Rules /\ {Rule("p", <<"user", globalDomain>>)} \in SUBSET Rules
      /\ PolicyRules \subseteq Rules
  BY DEF rejectGlobalMembership, rejectGlobalAsTenant, normalizeDomain, globalDomain, Rules, PolicyRules, Bindings
<1>2. ASSUME NEW dom \in {"", globalDomain, "tenant"},
             AddUserToRoleInDomain(dom) \/ RemoveUserFromRoleInDomain(dom) \/ GrantRoleInDomain(dom) \/ RevokeRoleInDomain(dom)
      PROVE  RbacInv' /\ InStep
  BY <1>1, <1>2, AddStep, RemoveStep DEF AddUserToRoleInDomain, RemoveUserFromRoleInDomain, GrantRoleInDomain, RevokeRoleInDomain
<1>3. ASSUME GrantRole \/ RevokeRole \/ GrantUser \/ RevokeUser
      PROVE  RbacInv' /\ InStep
  BY <1>1, <1>3, AddStep, RemoveStep DEF GrantRole, RevokeRole, GrantUser, RevokeUser
<1>4. ASSUME NEW rule \in PolicyRules, NEW other \in PolicyRules, AddRules({rule, other}) \/ RemoveRules({rule, other})
      PROVE  RbacInv' /\ InStep
  <2>1. {rule, other} \in SUBSET Rules
    BY <1>1
  <2>2. QED
    BY <1>4, <2>1, AddStep, RemoveStep
<1>5. ASSUME NEW old \in PolicyRules, NEW new \in PolicyRules, Replace(old, new)
      PROVE  RbacInv' /\ InStep
  BY <1>1, <1>5, ReplaceStep
<1>6. ASSUME NEW filter \in {<<0, "user">>, <<1, "tenant">>, <<0, Empty>>, <<-1, "user">>, <<Width, "user">>},
             hasAnyMappedConstraint(filter[1], <<filter[2]>>), RemoveFiltered(filter[1], <<filter[2]>>)
      PROVE  RbacInv' /\ InStep
  <2>1. filter[1] \in 0..1
    BY <1>6, WidthAssumption DEF hasAnyMappedConstraint
  <2>2. QED
    BY <1>6, <2>1, RemoveFilteredStep
<1>7. ASSUME NEW filter, NEW new \in PolicyRules, ReplaceFiltered({new}, filter[1], <<filter[2]>>)
      PROVE  RbacInv' /\ InStep
  BY <1>1, <1>7, ReplaceFilteredStep
<1>8. QED
  BY <1>2, <1>3, <1>4, <1>5, <1>6, <1>7, SaveStep DEF Change

\* A peer writes rows of such rules too, whatever its memory holds.
LEMMA PeerStep ==
  ASSUME RbacInv, PeerChanges
  PROVE  RbacInv'
<1>1. /\ \E rule \in Rules : \/ ruleRows' = AddPolicies(ruleRows, {rule}).rows
                            \/ ruleRows' = RemovePolicies(ruleRows, {rule}).rows
      /\ UNCHANGED <<policy, watch, signal, loading, owed>>
  BY DEF PeerChanges
<1>2. Stored(ruleRows)
  BY DEF RbacInv
<1>3. ASSUME NEW rule \in Rules, ruleRows' = AddPolicies(ruleRows, {rule}).rows PROVE Stored(ruleRows')
  <2>1. CASE ~ Fits(rule)
    BY <1>2, <1>3, <2>1 DEF AddPolicies, Refused
  <2>2. CASE Fits(rule)
    <3>1. {rule} \in SUBSET Rules /\ \A r \in {rule} : Fits(r)
      BY <2>2
    <3>2. Stored(ruleRows \cup RowsOf({rule}))
      BY <1>2, <3>1, StoresRules
    <3>3. ruleRows' = ruleRows \cup RowsOf({rule})
      BY <1>3, <3>1 DEF AddPolicies, Ok, RowsOf
    <3>4. QED
      BY <3>2, <3>3
  <2>3. QED
    BY <2>1, <2>2
<1>4. ASSUME NEW rule \in Rules, ruleRows' = RemovePolicies(ruleRows, {rule}).rows PROVE Stored(ruleRows')
  <2>1. ruleRows' \subseteq ruleRows
    BY <1>4 DEF RemovePolicies, Ok
  <2>2. QED
    BY <1>2, <2>1 DEF Stored
<1>5. QED
  BY <1>1, <1>3, <1>4 DEF RbacInv, LoadShape, LoadedSinceHeard

\* What a load reads are rules of the table.
LEMMA LoadStep ==
  ASSUME RbacInv, NEW who \in {"loop", "call"}, NEW fails \in BOOLEAN, LoadReads(who, fails)
  PROVE  RbacInv'
<1>0. PICK load : load = IF fails THEN NoLoad ELSE [at |-> "read", rules |-> LoadPolicy(ruleRows)]
  OBVIOUS
<1>1. /\ loading[who].at = "asked" /\ loading' = [loading EXCEPT ![who] = load] /\ owed' = (owed /\ who = "call")
      /\ UNCHANGED <<ruleRows, policy, watch, linked, inbox, signal, changes, last>>
  BY <1>0 DEF LoadReads
<1>2. load = [at |-> load.at, rules |-> load.rules] /\ load.rules \subseteq Rules
  BY <1>0, DropsRows DEF NoLoad, RbacInv, Stored, LoadPolicy
<1>3. /\ loading'[who] = load
      /\ \A other \in {"loop", "call"} : other # who => loading'[other] = loading[other]
      /\ loading' = [x \in {"loop", "call"} |-> loading'[x]]
  BY <1>1 DEF RbacInv, LoadShape
<1>4. LoadShape'
  BY <1>2, <1>3 DEF RbacInv, LoadShape
<1>5. CASE who = "loop"
  <2>1. owed' = FALSE
    BY <1>1, <1>5
  <2>2. QED
    BY <1>1, <1>4, <2>1 DEF RbacInv, LoadedSinceHeard
<1>6. CASE who = "call"
  <2>1. owed' = owed /\ loading'["loop"] = loading["loop"]
    BY <1>1, <1>3, <1>6 DEF RbacInv
  <2>2. QED
    BY <1>1, <1>4, <2>1 DEF RbacInv, LoadedSinceHeard
<1>7. QED
  BY <1>5, <1>6

LEMMA ApplyStep ==
  ASSUME RbacInv, NEW who \in {"loop", "call"}, LoadApplies(who)
  PROVE  RbacInv'
<1>1. /\ loading[who].at = "read" /\ policy' = loading[who].rules /\ loading' = [loading EXCEPT ![who] = NoLoad]
      /\ UNCHANGED <<ruleRows, watch, linked, inbox, signal, changes, owed, last>>
  BY DEF LoadApplies
<1>2. /\ loading'[who] = NoLoad
      /\ \A other \in {"loop", "call"} : other # who => loading'[other] = loading[other]
      /\ loading' = [x \in {"loop", "call"} |-> loading'[x]]
  BY <1>1 DEF RbacInv, LoadShape
<1>3. LoadShape' /\ policy' \subseteq Rules
  BY <1>1, <1>2 DEF RbacInv, LoadShape, NoLoad
<1>4. loading["loop"].at = "asked" => loading'["loop"].at = "asked"
  BY <1>1, <1>2
<1>5. QED
  BY <1>1, <1>3, <1>4 DEF RbacInv, LoadedSinceHeard

\* The loop, or a call, asks for a load.
LEMMA AskStep ==
  ASSUME RbacInv, NEW who \in {"loop", "call"}, loading' = [loading EXCEPT ![who].at = "asked"]
  PROVE  LoadShape' /\ loading'[who].at = "asked" /\ \A other \in {"loop", "call"} : other # who => loading'[other] = loading[other]
<1>1. loading = [x \in {"loop", "call"} |-> loading[x]] /\ loading[who] = [at |-> loading[who].at, rules |-> loading[who].rules]
  BY DEF RbacInv, LoadShape
<1>2. loading'[who] = [at |-> "asked", rules |-> loading[who].rules]
  BY <1>1
<1>3. \A other \in {"loop", "call"} : other # who => loading'[other] = loading[other]
  BY <1>1
<1>4. loading' = [x \in {"loop", "call"} |-> loading'[x]]
  BY <1>1
<1>5. QED
  BY <1>2, <1>3, <1>4 DEF RbacInv, LoadShape

LEMMA ReloadLoopStep ==
  ASSUME RbacInv, NEW ticked \in BOOLEAN, reloadLoop(ticked)
  PROVE  RbacInv'
<1>1. /\ watch = "open" /\ signal' = (ticked /\ signal) /\ loading' = [loading EXCEPT !["loop"].at = "asked"]
      /\ UNCHANGED <<ruleRows, policy, watch, owed>>
  BY DEF reloadLoop
<1>2. LoadShape' /\ loading'["loop"].at = "asked"
  BY <1>1, AskStep
<1>3. signal' \in BOOLEAN
  BY <1>1
<1>4. QED
  BY <1>1, <1>2, <1>3 DEF RbacInv, LoadedSinceHeard

LEMMA RbacInitially == RbacInit => RbacInv
<1> SUFFICES ASSUME RbacInit PROVE RbacInv
  OBVIOUS
<1>1. loading = [loop |-> NoLoad, call |-> NoLoad] /\ NoLoad = [at |-> NoLoad.at, rules |-> NoLoad.rules] /\ NoLoad.rules = {}
  BY DEF RbacInit, NoLoad
<1>2. loading = [who \in {"loop", "call"} |-> loading[who]] /\ \A who \in {"loop", "call"} : loading[who] = NoLoad
  BY <1>1
<1>3. LoadShape
  BY <1>1, <1>2 DEF LoadShape
<1>4. QED
  BY <1>3 DEF RbacInit, RbacInv, Stored, LoadedSinceHeard

LEMMA RbacInductive == RbacInv /\ [RbacNext]_rbacVars => RbacInv' /\ [InStep]_rbacVars
<1> SUFFICES ASSUME RbacInv, [RbacNext]_rbacVars PROVE RbacInv' /\ [InStep]_rbacVars
  OBVIOUS
<1>1. CASE UNCHANGED rbacVars
  <2>1. RbacInv'
    BY <1>1 DEF RbacInv, LoadShape, LoadedSinceHeard, rbacVars
  <2>2. QED
    BY <2>1, <1>1
<1>2. CASE Change
  BY <1>2, ChangeStep
<1>3. ASSUME RbacNext, ~ Change PROVE RbacInv' /\ last' = last
  <2>1. CASE newEngine \/ attachRedisWatcher
    <3>1. Stored(ruleRows) /\ LoadPolicy(ruleRows) \subseteq Rules
      BY DEF RbacInv, Stored, LoadPolicy
    <3>2. QED
      BY <2>1, <3>1 DEF newEngine, attachRedisWatcher, RbacInv, LoadShape, LoadedSinceHeard
  <2>2. CASE PeerChanges
    BY <2>2, PeerStep DEF PeerChanges
  <2>3. CASE Disconnect \/ Reconnect \/ \E from \in inbox : receiveLoop(from)
    BY <2>3 DEF Disconnect, Reconnect, receiveLoop, signalReload, RbacInv, LoadShape, LoadedSinceHeard
  <2>4. CASE reloadLoop(TRUE)
    BY <2>4, ReloadLoopStep DEF reloadLoop
  <2>5. CASE reloadLoop(FALSE)
    BY <2>5, ReloadLoopStep DEF reloadLoop
  <2>6. CASE ReloadPolicy
    <3>1. /\ loading' = [loading EXCEPT !["call"].at = "asked"]
          /\ UNCHANGED <<ruleRows, policy, watch, signal, owed, last>>
      BY <2>6 DEF ReloadPolicy
    <3>2. LoadShape' /\ loading'["loop"] = loading["loop"]
      BY <3>1, AskStep
    <3>3. QED
      BY <3>1, <3>2 DEF RbacInv, LoadedSinceHeard
  <2>7. ASSUME NEW who \in {"loop", "call"}, LoadReads(who, TRUE) \/ LoadReads(who, FALSE) PROVE RbacInv' /\ last' = last
    BY <2>7, LoadStep DEF LoadReads
  <2>8. ASSUME NEW who \in {"loop", "call"}, LoadApplies(who) PROVE RbacInv' /\ last' = last
    BY <2>8, ApplyStep DEF LoadApplies
  <2>9. CASE CloseWatcher
    BY <2>9 DEF CloseWatcher, RbacInv, LoadShape, LoadedSinceHeard
  <2>10. QED
    BY <1>3, <2>1, <2>2, <2>3, <2>4, <2>5, <2>6, <2>7, <2>8, <2>9 DEF RbacNext
<1>4. last' = last => InStep
  BY DEF InStep
<1>5. QED
  BY <1>1, <1>2, <1>3, <1>4

\* A replica that has what the table has keeps it so by its own changes, which
\* it announces, and no notification is left without a read that begins after it.
THEOREM RbacKeepsUp == RbacSpec => KeepsUp
<1>1. RbacInv => LoadedSinceHeard
  BY DEF RbacInv
<1>2. RbacSpec => []RbacInv
  BY RbacInitially, RbacInductive, PTL DEF RbacSpec
<1>3. RbacSpec => [][InStep]_rbacVars
  BY <1>2, RbacInductive, PTL DEF RbacSpec
<1>4. RbacSpec => StaysInStep
  BY <1>3 DEF StaysInStep, InStep
<1>5. QED
  BY <1>1, <1>2, <1>4, PTL DEF KeepsUp
=============================================================================
