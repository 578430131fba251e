------------------------------ MODULE JobsRelay ------------------------------
(***************************************************************************)
(* The transactional outbox of package jobs: messages enqueued in the      *)
(* caller's transaction, one relay per worker that scans its topic in      *)
(* (created_at, id) order, the dead letters a relay parks messages in, the *)
(* watermark rows that remember scan positions and the retention cleanup.  *)
(*                                                                         *)
(* One action is one database statement (or one transaction), one call of  *)
(* the handler or one return of it, so that commits, other workers, the    *)
(* cleanup and crashes happen between any two of them.  Wall-clock time is *)
(* kept only where the code compares it: created_at stamps, the settle     *)
(* cutoff of a sweep and whether a retry is due.  Stamps are written by    *)
(* the hosts that enqueue, so nothing relates a stamp to the cutoff.       *)
(***************************************************************************)
EXTENDS Integers, FiniteSets

CONSTANTS
    Procs,        \* processes that run the workers (Config.Enabled); the code asks for one
    Topics,       \* every topic messages are enqueued under
    Served,       \* the topics that have a registered worker
    Ids,          \* ids the database hands out, ascending
    MaxStamp,     \* created_at lies in 0..MaxStamp
    Batch,        \* rows of one page
    MaxPages,     \* page budget of one sweep (maxSweepPages)
    MaxAttempts,  \* retryPolicy.maxAttempts
    MaxAborts     \* bound of the model: sweeps cut short by a stop, a crash or the database

ASSUME RelayAssumption ==
    /\ Topics # {}
    /\ Served \subseteq Topics
    /\ Ids \subseteq Nat \ {0}
    /\ MaxStamp \in Nat
    /\ Batch \in Nat \ {0}
    /\ MaxPages \in Nat \ {0}
    /\ MaxAttempts \in Nat \ {0}
    /\ MaxAborts \in Nat

Workers == Procs \X Served
TopicOf(w) == w[2]
Stamps == 0..MaxStamp

VARIABLES
    status,   \* of an id: "free", "open" (its transaction is), "live", "void" (rolled back), "gone" (cleaned up)
    topic,    \* the row's topic
    at,       \* the row's created_at
    done,     \* the row has a completed_at
    tries,    \* the row's attempts
    waits,    \* the row's retry_at is in the future
    dead,     \* ids in chok_jobs_dead
    marks,    \* chok_jobs_watermarks by topic
    settled,  \* now - settle
    sweep,    \* what each worker's run is doing
    cleaner,  \* what cleanupOnce is doing
    aborts,   \* sweeps cut short so far
    took,     \* history: ids whose handler returned nil in time
    failures, \* history: failed handler calls of an id, up to MaxAttempts
    garbled   \* history: ids whose payload once did not decode

rows == <<status, topic, at, done, tries, waits>>
history == <<took, failures, garbled>>
vars == <<rows, dead, marks, settled, sweep, cleaner, aborts, history>>

(***************************************************************************)
(* Positions and watermarks (state.go).  The zero watermark, ok = false,   *)
(* is the one before every stamp.                                          *)
(***************************************************************************)
NoMark == [at |-> -1, id |-> 0]
IsSet(k) == k.at # -1
covers(k, a, i) == IsSet(k) /\ (a < k.at \/ (a = k.at /\ i <= k.id))
after(k, a, i) == ~covers(k, a, i)

\* (created_at, id), the delivery order.
Before(m, n) == at[m] < at[n] \/ (at[m] = at[n] /\ m < n)

Live == {m \in Ids : status[m] = "live"}

\* scope: the committed rows of a worker's topic.
scope(w) == {m \in Live : topic[m] = TopicOf(w)}

\* ORDER BY created_at, id LIMIT Batch OFFSET off over a set of rows.
Slice(S, off) ==
    {m \in S : LET rank == Cardinality({n \in S : Before(n, m)})
               IN  off <= rank /\ rank < off + Batch}

\* A page holds the rows as the query read them.
ReadRow(m) == [id |-> m, done |-> done[m], tries |-> tries[m], waits |-> waits[m]]
ReadPage(S) == {ReadRow(m) : m \in S}

\* The row of its page a sweep is at.
IsHead(r, page) == r \in page /\ \A q \in page : q = r \/ Before(r.id, q.id)

(***************************************************************************)
(* A sweep.  pc says which statement comes next, stage which scan it       *)
(* belongs to: 0 looks behind the watermark, 1 resumes the watermark's own *)
(* stamp, 2 goes forward.  row is the row whose handler runs.  seen is     *)
(* history: the rows of the topic that were committed when the sweep began.*)
(***************************************************************************)
NoRow == [id |-> 0, done |-> TRUE, tries |-> 0, waits |-> FALSE]

Idle == [pc |-> "idle", stage |-> 0, mark |-> NoMark, cand |-> NoMark, cutoff |-> 0,
         pages |-> 0, page |-> {}, row |-> NoRow, full |-> FALSE, last |-> 0, ts |-> -1, off |-> 0,
         strict |-> FALSE, seen |-> {}]

Steps == {"idle", "behind", "boundary", "forward", "row", "call", "ack", "fail", "park",
          "drain", "finish"}

Mark == [at : Stamps, id : Ids] \cup {NoMark}
PageRow == [id : Ids, done : BOOLEAN, tries : 0..MaxAttempts, waits : BOOLEAN]
Sweep == [pc : Steps, stage : 0..2, mark : Mark, cand : Mark, cutoff : Stamps,
          pages : 0..MaxPages, page : SUBSET PageRow, row : PageRow \cup {NoRow}, full : BOOLEAN, last : Ids \cup {0},
          ts : Stamps \cup {-1}, off : Nat, strict : BOOLEAN, seen : SUBSET Ids]

Set(w, s) == sweep' = [sweep EXCEPT ![w] = s]

\* persist: the stored watermark and the sweep's own after trying to advance
\* to the candidate; saved is whether the database took the write.
Advances(s) == IsSet(s.cand) /\ after(s.mark, s.cand.at, s.cand.id)
persist(w, s, saved) ==
    IF Advances(s) /\ saved
    THEN /\ marks' = [marks EXCEPT ![TopicOf(w)] = s.cand]
         /\ Set(w, [s EXCEPT !.mark = s.cand])
    ELSE /\ UNCHANGED marks
         /\ Set(w, s)

\* A sweep that ends persists what it has and forgets the rest.
EndSweep(w, s, saved) ==
    /\ marks' = IF Advances(s) /\ saved THEN [marks EXCEPT ![TopicOf(w)] = s.cand] ELSE marks
    /\ Set(w, Idle)

(***************************************************************************)
(* Initial state: empty tables.                                            *)
(***************************************************************************)
Init ==
    /\ status = [m \in Ids |-> "free"]
    /\ topic = [m \in Ids |-> CHOOSE t \in Topics : TRUE]
    /\ at = [m \in Ids |-> 0]
    /\ done = [m \in Ids |-> FALSE]
    /\ tries = [m \in Ids |-> 0]
    /\ waits = [m \in Ids |-> FALSE]
    /\ dead = {}
    /\ marks = [t \in Topics |-> NoMark]
    /\ settled = 0
    /\ sweep = [w \in Workers |-> Idle]
    /\ cleaner = [pc |-> "idle", cutoff |-> 0, ids |-> {}]
    /\ aborts = 0
    /\ took = {}
    /\ failures = [m \in Ids |-> 0]
    /\ garbled = {}

(***************************************************************************)
(* Enqueue: the row is stamped and gets its id when it is inserted, and is *)
(* visible when the caller's transaction commits, however late.            *)
(***************************************************************************)
Insert(m, t, a) ==
    /\ status[m] = "free"
    /\ \A n \in Ids : n < m => status[n] # "free"
    /\ status' = [status EXCEPT ![m] = "open"]
    /\ topic' = [topic EXCEPT ![m] = t]
    /\ at' = [at EXCEPT ![m] = a]
    /\ UNCHANGED <<done, tries, waits, dead, marks, settled, sweep, cleaner, aborts, history>>

EndTx(m, outcome) ==
    /\ status[m] = "open"
    /\ status' = [status EXCEPT ![m] = outcome]
    /\ UNCHANGED <<topic, at, done, tries, waits, dead, marks, settled, sweep, cleaner, aborts, history>>

Commit(m) == EndTx(m, "live")
Rollback(m) == EndTx(m, "void")

(***************************************************************************)
(* Time: the settle cutoff moves on, a backoff runs out.                   *)
(***************************************************************************)
Settle ==
    /\ settled < MaxStamp
    /\ settled' = settled + 1
    /\ UNCHANGED <<rows, dead, marks, sweep, cleaner, aborts, history>>

RetryDue(m) ==
    /\ waits[m]
    /\ waits' = [waits EXCEPT ![m] = FALSE]
    /\ UNCHANGED <<status, topic, at, done, tries, dead, marks, settled, sweep, cleaner, aborts, history>>

(***************************************************************************)
(* The queries of a sweep.                                                 *)
(***************************************************************************)
QueryFrame == UNCHANGED <<rows, dead, marks, settled, cleaner, aborts, history>>

\* The watermark is loaded and the cutoff fixed for the whole sweep.
StartSweep(w) ==
    LET k == marks[TopicOf(w)] IN
    /\ sweep[w].pc = "idle"
    /\ Set(w, [Idle EXCEPT !.pc = IF IsSet(k) THEN "behind" ELSE "forward",
                           !.stage = IF IsSet(k) THEN 0 ELSE 2,
                           !.mark = k, !.cand = k, !.cutoff = settled, !.seen = scope(w)])
    /\ QueryFrame

\* Rows without a completed_at at or behind the loaded watermark.
Pending_NoLookbehind(w) == {}
Pending_IgnoresAck(w) == {m \in scope(w) : covers(sweep[w].mark, at[m], m)}
Pending(w) == {m \in scope(w) : ~done[m] /\ covers(sweep[w].mark, at[m], m)}

LookBehind(w) ==
    LET s == sweep[w]
        S == Slice(Pending(w), 0) IN
    /\ s.pc = "behind"
    /\ Set(w, IF s.pages = MaxPages THEN [s EXCEPT !.pc = "finish"]
              ELSE IF S = {} THEN [s EXCEPT !.pc = "boundary", !.stage = 1, !.last = s.mark.id]
              ELSE [s EXCEPT !.pc = "row", !.pages = @ + 1, !.page = ReadPage(S)])
    /\ QueryFrame

\* Rows of the watermark's own stamp, beyond its id.
Boundary(w) ==
    LET s == sweep[w]
        S == Slice({m \in scope(w) : at[m] = s.mark.at /\ m > s.last}, 0) IN
    /\ s.pc = "boundary"
    /\ Set(w, IF s.pages = MaxPages THEN [s EXCEPT !.pc = "finish"]
              ELSE [s EXCEPT !.pc = "row", !.pages = @ + 1, !.page = ReadPage(S),
                             !.full = Cardinality(S) = Batch])
    /\ QueryFrame

\* scanForward: strictly beyond the watermark's stamp first, then from the
\* cursor's stamp on, past the rows of it that were consumed.
scanForward(w) ==
    LET s == sweep[w] IN
    IF s.strict THEN Slice({m \in scope(w) : at[m] > s.ts}, 0)
                ELSE Slice({m \in scope(w) : at[m] >= s.ts}, s.off)

Forward(w) ==
    LET s == sweep[w]
        S == scanForward(w) IN
    /\ s.pc = "forward"
    /\ Set(w, IF s.pages = MaxPages THEN [s EXCEPT !.pc = "finish"]
              ELSE IF S = {} THEN [s EXCEPT !.pc = "drain"]
              ELSE [s EXCEPT !.pc = "row", !.page = ReadPage(S), !.strict = FALSE,
                             !.full = Cardinality(S) = Batch])
    /\ QueryFrame

(***************************************************************************)
(* deliver and attempt: one row of the page.                               *)
(***************************************************************************)
\* The cursor of the scan moves over a row and so, outside the lookbehind,
\* does the candidate when the row has settled.
PassRow(s, r) ==
    LET m == r.id IN
    [s EXCEPT !.pc = "row", !.row = NoRow,
              !.page = @ \ {r},
              !.last = IF s.stage = 1 THEN m ELSE @,
              !.off = IF s.stage # 2 THEN @ ELSE IF at[m] = s.ts THEN @ + 1 ELSE 1,
              !.ts = IF s.stage # 2 THEN @ ELSE at[m],
              !.cand = IF s.stage # 0 /\ at[m] <= s.cutoff THEN [at |-> at[m], id |-> m] ELSE @]

\* deliver passes over a row read with a completed_at; the lookbehind has
\* asked the database for the others only.
Passed(s, r) == s.stage # 0 /\ r.done

Skip(w) ==
    LET s == sweep[w] IN
    /\ s.pc = "row"
    /\ \E r \in s.page : IsHead(r, s.page) /\ Passed(s, r) /\ Set(w, PassRow(s, r))
    /\ QueryFrame

NotDue(r) == r.waits /\ waits[r.id]

\* errRetryLater ends the sweep at a message whose next try is not due.
RetryLater(w) ==
    LET s == sweep[w] IN
    /\ s.pc = "row"
    /\ \E r \in s.page : IsHead(r, s.page) /\ ~Passed(s, r) /\ NotDue(r)
    /\ \E saved \in BOOLEAN : EndSweep(w, s, saved)
    /\ UNCHANGED <<rows, dead, settled, cleaner, aborts, history>>

Call(w) ==
    LET s == sweep[w] IN
    /\ s.pc = "row"
    /\ \E r \in s.page :
         /\ IsHead(r, s.page) /\ ~Passed(s, r) /\ ~NotDue(r)
         /\ Set(w, [s EXCEPT !.pc = "call", !.row = r])
    /\ QueryFrame

\* The handler returned nil within HandlerTimeout.
HandlerTakes(w) ==
    LET s == sweep[w] IN
    /\ s.pc = "call"
    /\ took' = took \cup {s.row.id}
    /\ Set(w, [s EXCEPT !.pc = "ack"])
    /\ UNCHANGED <<rows, dead, marks, settled, cleaner, aborts, failures, garbled>>

\* The handler failed, panicked or ran past HandlerTimeout: the n-th failure
\* of the row as it was read, which parks it when n reaches MaxAttempts.
HandlerFails_OneLess(w) ==
    LET s == sweep[w] IN
    /\ s.pc = "call"
    /\ failures' = [failures EXCEPT ![s.row.id] = IF @ < MaxAttempts THEN @ + 1 ELSE @]
    /\ Set(w, [s EXCEPT !.pc = IF s.row.tries + 2 >= MaxAttempts THEN "park" ELSE "fail"])
    /\ UNCHANGED <<rows, dead, marks, settled, cleaner, aborts, took, garbled>>

HandlerFails(w) ==
    LET s == sweep[w]
        n == s.row.tries + 1 IN
    /\ s.pc = "call"
    /\ failures' = [failures EXCEPT ![s.row.id] = IF @ < MaxAttempts THEN @ + 1 ELSE @]
    /\ Set(w, [s EXCEPT !.pc = IF n >= MaxAttempts THEN "park" ELSE "fail"])
    /\ UNCHANGED <<rows, dead, marks, settled, cleaner, aborts, took, garbled>>

\* A payload that does not decode parks its message at once.
Undecodable(w) ==
    LET s == sweep[w] IN
    /\ s.pc = "call"
    /\ garbled' = garbled \cup {s.row.id}
    /\ Set(w, [s EXCEPT !.pc = "park"])
    /\ UNCHANGED <<rows, dead, marks, settled, cleaner, aborts, took, failures>>

\* complete: UPDATE ... WHERE id = ? AND completed_at IS NULL.
Complete(w) ==
    LET s == sweep[w]
        m == s.row.id IN
    /\ s.pc = "ack"
    /\ done' = [done EXCEPT ![m] = @ \/ status[m] = "live"]
    /\ Set(w, PassRow(s, s.row))
    /\ UNCHANGED <<status, topic, at, tries, waits, dead, marks, settled, cleaner, aborts, history>>

\* fail: the count and the next try go on the row, and the sweep ends there.
Fail(w) ==
    LET s == sweep[w]
        m == s.row.id IN
    /\ s.pc = "fail"
    /\ tries' = [tries EXCEPT ![m] = IF status[m] = "live" THEN s.row.tries + 1 ELSE @]
    /\ \E backoff \in BOOLEAN :
          waits' = [waits EXCEPT ![m] = IF status[m] = "live" THEN backoff ELSE @]
    /\ \E saved \in BOOLEAN : EndSweep(w, s, saved)
    /\ UNCHANGED <<status, topic, at, done, dead, settled, cleaner, aborts, history>>

\* park: the dead letter and the acknowledgement in one transaction.
Park_NoDeadLetter(w) ==
    LET s == sweep[w]
        m == s.row.id IN
    /\ s.pc = "park"
    /\ done' = [done EXCEPT ![m] = @ \/ status[m] = "live"]
    /\ tries' = [tries EXCEPT ![m] = IF status[m] = "live" THEN s.row.tries + 1 ELSE @]
    /\ waits' = [waits EXCEPT ![m] = @ /\ status[m] # "live"]
    /\ Set(w, PassRow(s, s.row))
    /\ UNCHANGED <<status, topic, at, dead, marks, settled, cleaner, aborts, history>>

Park(w) ==
    LET s == sweep[w]
        m == s.row.id IN
    /\ s.pc = "park"
    /\ dead' = dead \cup {m}
    /\ done' = [done EXCEPT ![m] = @ \/ status[m] = "live"]
    /\ tries' = [tries EXCEPT ![m] = IF status[m] = "live" THEN s.row.tries + 1 ELSE @]
    /\ waits' = [waits EXCEPT ![m] = @ /\ status[m] # "live"]
    /\ Set(w, PassRow(s, s.row))
    /\ UNCHANGED <<status, topic, at, marks, settled, cleaner, aborts, history>>

(***************************************************************************)
(* The ends of a page and of a sweep.                                      *)
(***************************************************************************)
\* The last row of the page is dealt with: persist, and on to the next page,
\* or to the next stage after a short one.
PageDone(w) ==
    LET s == sweep[w] IN
    /\ s.pc = "row" /\ s.page = {}
    /\ \E saved \in BOOLEAN :
         LET k == IF Advances(s) /\ saved THEN s.cand ELSE s.mark IN
         persist(w, CASE s.stage = 0 -> [s EXCEPT !.pc = "behind"]
                      [] s.stage = 1 /\ s.full -> [s EXCEPT !.pc = "boundary"]
                      [] s.stage = 1 /\ ~s.full ->
                            [s EXCEPT !.pc = "forward", !.stage = 2, !.ts = k.at, !.strict = TRUE,
                                      !.last = 0]
                      [] s.stage = 2 /\ s.full -> [s EXCEPT !.pc = "forward", !.pages = @ + 1]
                      [] s.stage = 2 /\ ~s.full -> [s EXCEPT !.pc = "drain"], saved)
    /\ UNCHANGED <<rows, dead, settled, cleaner, aborts, history>>

\* frontier: the newest committed row of any topic at or before the cutoff.
Frontier(s) ==
    LET S == {m \in Live : at[m] <= s.cutoff}
    IN  {[at |-> at[m], id |-> m] : m \in {n \in S : \A k \in S : k = n \/ Before(k, n)}}

\* A drained sweep claims the frontier when that is ahead; the probe may fail.
Drain(w) ==
    LET s == sweep[w] IN
    /\ s.pc = "drain"
    /\ \E c \in {s.cand} \cup {f \in Frontier(s) : after(s.cand, f.at, f.id)} :
         Set(w, [s EXCEPT !.pc = "finish", !.cand = c])
    /\ QueryFrame

Finish(w) ==
    /\ sweep[w].pc = "finish"
    /\ \E saved \in BOOLEAN : EndSweep(w, sweep[w], saved)
    /\ UNCHANGED <<rows, dead, settled, cleaner, aborts, history>>

\* A stop that cancels the context, a statement that fails, a handler that
\* returns the cancellation, or a crash: the sweep is over, having persisted
\* its candidate or not.
Abort(w) ==
    /\ sweep[w].pc # "idle"
    /\ aborts < MaxAborts
    /\ aborts' = aborts + 1
    /\ \E saved \in BOOLEAN : EndSweep(w, sweep[w], saved)
    /\ UNCHANGED <<rows, dead, settled, cleaner, history>>

(***************************************************************************)
(* cleanupOnce: the cutoff is fixed from the watermarks first (retention   *)
(* can only lower it), then batches of acknowledged rows of the served     *)
(* topics are selected and deleted.                                        *)
(***************************************************************************)
Eligible_ByWatermark(c) == {m \in Live : at[m] < c /\ topic[m] \in Served}
Eligible_Inclusive(c) == {m \in Live : at[m] <= c /\ done[m] /\ topic[m] \in Served}
Eligible(c) == {m \in Live : at[m] < c /\ done[m] /\ topic[m] \in Served}

CleanupStart(c) ==
    /\ cleaner.pc = "idle"
    /\ \A t \in Served : IsSet(marks[t])
    /\ \A t \in Topics : IsSet(marks[t]) => c <= marks[t].at
    /\ cleaner' = [pc |-> "select", cutoff |-> c, ids |-> {}]
    /\ UNCHANGED <<rows, dead, marks, settled, sweep, aborts, history>>

CleanupSelect ==
    /\ cleaner.pc = "select"
    /\ \E S \in SUBSET Eligible(cleaner.cutoff) :
         cleaner' = IF S = {} THEN [pc |-> "idle", cutoff |-> 0, ids |-> {}]
                              ELSE [cleaner EXCEPT !.pc = "delete", !.ids = S]
    /\ UNCHANGED <<rows, dead, marks, settled, sweep, aborts, history>>

CleanupDelete ==
    /\ cleaner.pc = "delete"
    /\ status' = [m \in Ids |-> IF m \in cleaner.ids THEN "gone" ELSE status[m]]
    /\ cleaner' = [cleaner EXCEPT !.pc = "select", !.ids = {}]
    /\ UNCHANGED <<topic, at, done, tries, waits, dead, marks, settled, sweep, aborts, history>>

(***************************************************************************)
(* The specification.                                                      *)
(***************************************************************************)
SweepStep(w) ==
    \/ StartSweep(w) \/ LookBehind(w) \/ Boundary(w) \/ Forward(w)
    \/ Skip(w) \/ RetryLater(w) \/ Call(w)
    \/ HandlerTakes(w) \/ HandlerFails(w) \/ Undecodable(w)
    \/ Complete(w) \/ Fail(w) \/ Park(w)
    \/ PageDone(w) \/ Drain(w) \/ Finish(w)

Next ==
    \/ \E m \in Ids, t \in Topics, a \in Stamps : Insert(m, t, a)
    \/ \E m \in Ids : Commit(m) \/ Rollback(m) \/ RetryDue(m)
    \/ Settle
    \/ \E w \in Workers : SweepStep(w) \/ Abort(w)
    \/ \E c \in Stamps : CleanupStart(c)
    \/ CleanupSelect \/ CleanupDelete

Spec == Init /\ [][Next]_vars

\* The scheduler sweeps again and again, a handler returns, the clock runs
\* and the scheduler's runs are not cut short for ever (aborts is bounded).
Fairness ==
    /\ \A w \in Workers : WF_vars(SweepStep(w))
    /\ \A m \in Ids : WF_vars(RetryDue(m))
    /\ WF_vars(Settle)

FairSpec == Spec /\ Fairness

(***************************************************************************)
(* Properties.                                                             *)
(***************************************************************************)
\* The tables and a worker's local state; the attempts column never counts
\* past the retry policy, whatever stale counts the relays write.
TypeOK ==
    /\ status \in [Ids -> {"free", "open", "live", "void", "gone"}]
    /\ topic \in [Ids -> Topics]
    /\ at \in [Ids -> Stamps]
    /\ done \in [Ids -> BOOLEAN]
    /\ tries \in [Ids -> 0..MaxAttempts]
    /\ waits \in [Ids -> BOOLEAN]
    /\ dead \subseteq Ids
    /\ marks \in [Topics -> Mark]
    /\ settled \in Stamps
    /\ sweep \in [Workers -> Sweep]
    /\ cleaner \in [pc : {"idle", "select", "delete"}, cutoff : Stamps, ids : SUBSET Ids]
    /\ aborts \in 0..MaxAborts
    /\ took \subseteq Ids
    /\ failures \in [Ids -> 0..MaxAttempts]
    /\ garbled \subseteq Ids

\* At least once: a row is removed only when it is acknowledged, and it is
\* acknowledged only when its handler took the message or it stands in the
\* dead letters (relay.go's completed_at, core.go's cleanupOnce), whatever
\* the watermarks say.
NoMessageLost ==
    \A m \in Ids :
        /\ status[m] = "gone" => done[m]
        /\ done[m] => m \in took \/ m \in dead

\* The count on the row never runs ahead of the handler's real failures, so
\* a message is parked only after MaxAttempts of them or for its payload,
\* however many crashes lost a count (attempt and park in relay.go).
RetryBudgetHonoured ==
    \A m \in Ids :
        /\ tries[m] > failures[m] => m \in garbled
        /\ m \in dead => failures[m] = MaxAttempts \/ m \in garbled

\* Head of line: when the handler is called on a message, every earlier
\* message of the topic that was committed when the sweep began is already
\* acknowledged, whatever the cleanup and late commits did to the pages in
\* between (sweep in relay.go: an error aborts, so the prefix is contiguous).
HeadOfLine ==
    \A w \in Workers : sweep[w].pc = "call" =>
        \A m \in sweep[w].seen : Before(m, sweep[w].row.id) => done[m]

\* A completed_at is final: the row never becomes pending again, and no
\* handler is called on it once it is written (single process).
NoRedelivery ==
    [][\A m \in Ids : done[m] =>
          /\ done'[m]
          /\ \A w \in Workers : sweep'[w].pc = "call" /\ sweep[w].pc # "call"
                                  => sweep'[w].row.id # m]_vars

\* The watermark of a topic only moves forward (single process): persist
\* compares with the watermark the sweep loaded.
WatermarkAdvances ==
    [][\A t \in Topics : marks'[t] # marks[t] => ~covers(marks[t], marks'[t].at, marks'[t].id)]_vars

\* cleanupOnce removes rows strictly before the stamp of every watermark.
CleanupBelowWatermarks ==
    [][\A m \in Ids : status'[m] = "gone" /\ status[m] # "gone" =>
          /\ \A t \in Served : IsSet(marks[t])
          /\ \A t \in Topics : IsSet(marks[t]) => at[m] < marks[t].at]_vars

\* What one process's scans and cleanups write is final: no acknowledged
\* message is delivered again, no watermark goes back, no row is removed that
\* a scan may still have to pass.
ScanIsFinal == NoRedelivery /\ WatermarkAdvances /\ CleanupBelowWatermarks

\* Every committed message of a served topic is acknowledged in the end,
\* including one that commits behind the watermark.
EventuallyHandled ==
    \A m \in Ids : (status[m] = "live" /\ topic[m] \in Served) ~> done[m]

\* message.go on a failing message: "only the head of a topic can be
\* failing", that is, a pending message with failed attempts has no pending
\* message of its topic before it.
OnlyHeadFailing ==
    \A m, n \in Live : topic[m] = topic[n] /\ ~done[m] /\ ~done[n] /\ tries[n] > 0
                          => ~Before(m, n)

(***************************************************************************)
(* The relay implements the outbox: a message is in it from its commit on. *)
(***************************************************************************)
BoxOf(m) == IF status[m] \in {"free", "open", "void"} THEN "none"
            ELSE IF status[m] = "gone" THEN "removed"
            ELSE IF done[m] THEN "handled" ELSE "pending"

boxBar == [m \in Ids |-> BoxOf(m)]
resolvedBar == took \cup dead

Promised == INSTANCE Outbox WITH box <- boxBar, resolved <- resolvedBar

\* Every step of the relay is a step of the outbox or changes nothing of it.
ImplementsOutbox == Promised!Spec

=============================================================================
