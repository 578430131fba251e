--------------------------- MODULE JobsRelayProofs ---------------------------
(***************************************************************************)
(* Proofs about JobsRelay for any number of processes, topics, messages,   *)
(* pages and attempts, and about DeadLetters for any number of calls and   *)
(* any chunks: nothing here depends on the bounds of the TLC runs.         *)
(***************************************************************************)
EXTENDS JobsRelay, DeadLetters, FiniteSetTheorems, TLAPS

(***************************************************************************)
(* The inductive invariant.  NoMessageLost is not inductive by itself: the *)
(* acknowledgement a sweep is about to write must already be earned, the   *)
(* rows of a page must be committed ones, and the rows the cleanup has     *)
(* selected must still be acknowledged when it deletes them.               *)
(***************************************************************************)
RowInv ==
    \A m \in Ids :
        /\ done[m] => status[m] \in {"live", "gone"}
        /\ status[m] = "gone" => done[m]
        /\ done[m] => m \in took \/ m \in dead
        /\ ~done[m] => tries[m] < MaxAttempts
        /\ tries[m] <= failures[m] \/ m \in garbled
        /\ m \in dead => failures[m] = MaxAttempts \/ m \in garbled
        /\ m \in took \/ m \in dead => status[m] \in {"live", "gone"}

InHand == {"call", "ack", "fail", "park"}

\* A row as some sweep read it.
ReadInv(r) ==
    /\ status[r.id] \in {"live", "gone"}
    /\ ~r.done => r.tries < MaxAttempts
    /\ r.tries <= failures[r.id] \/ r.id \in garbled

SweepInv(s) ==
    /\ s.pc = "behind" => s.stage = 0
    /\ s.pc = "boundary" => s.stage = 1
    /\ s.pc \in {"forward", "drain"} => s.stage = 2
    /\ s.pc \notin InHand \cup {"row"} => s.page = {}
    /\ \A r \in s.page : ReadInv(r) /\ (s.stage = 0 => ~r.done)
    /\ s.stage = 2 /\ s.pc \in InHand \cup {"row"} => s.pages < MaxPages
    /\ s.pc \in InHand =>
         /\ s.row \in s.page /\ ~s.row.done
         /\ s.pc = "ack" => s.row.id \in took
         /\ s.pc = "fail" => s.row.tries + 1 < MaxAttempts
         /\ s.pc \in {"fail", "park"} => s.row.tries + 1 <= failures[s.row.id] \/ s.row.id \in garbled
         /\ s.pc = "park" => failures[s.row.id] = MaxAttempts \/ s.row.id \in garbled

CleanerInv ==
    cleaner.pc = "delete" => \A m \in cleaner.ids : status[m] = "live" /\ done[m]

IInv == TypeOK /\ RowInv /\ CleanerInv /\ \A w \in Workers : SweepInv(sweep[w])

(***************************************************************************)
(* Lemmas.                                                                 *)
(***************************************************************************)

\* A page is part of the rows the query ranges over.
LEMMA SliceSubset == \A S, off : Slice(S, off) \subseteq S
  BY DEF Slice

\* What a step must keep for the sweeps it does not touch: committed rows
\* stay, and the history of takes, failures and decode errors only grows.
Grows ==
    /\ \A m \in Ids : status[m] \in {"live", "gone"} => status'[m] \in {"live", "gone"}
    /\ \A m \in Ids : failures[m] <= failures'[m]
    /\ took \subseteq took' /\ garbled \subseteq garbled'

\* Under such a step the invariant of a sweep in a given local state stays.
LEMMA SweepStable ==
    ASSUME TypeOK, TypeOK', Grows, NEW CONSTANT s \in Sweep, SweepInv(s)
    PROVE  SweepInv(s)'
<1>1. ASSUME NEW r \in s.page, ReadInv(r) PROVE ReadInv(r)'
  <2>1. r \in PageRow BY DEF Sweep
  <2>2. r.id \in Ids /\ r.tries \in Int
    BY <2>1, RelayAssumption DEF PageRow
  <2>3. failures[r.id] \in 0..MaxAttempts /\ failures'[r.id] \in 0..MaxAttempts
        /\ failures[r.id] <= failures'[r.id]
    BY <2>2 DEF TypeOK, Grows
  <2>4. r.tries <= failures'[r.id] \/ r.id \in garbled'
    BY <1>1, <2>2, <2>3, RelayAssumption DEF ReadInv, Grows
  <2>5. status'[r.id] \in {"live", "gone"}
    BY <1>1, <2>2 DEF ReadInv, Grows
  <2> QED BY <1>1, <2>4, <2>5 DEF ReadInv
<1>2. ASSUME s.pc \in InHand PROVE s.row \in PageRow
  BY <1>2 DEF SweepInv, Sweep
<1>3. \A r \in s.page : ReadInv(r)' /\ (s.stage = 0 => ~r.done)
  BY <1>1 DEF SweepInv
<1>4. s.pc \in InHand =>
         /\ s.pc \in {"fail", "park"} => s.row.tries + 1 <= failures'[s.row.id] \/ s.row.id \in garbled'
         /\ s.pc = "park" => failures'[s.row.id] = MaxAttempts \/ s.row.id \in garbled'
  <2> SUFFICES ASSUME s.pc \in InHand
               PROVE /\ s.pc \in {"fail", "park"} => s.row.tries + 1 <= failures'[s.row.id] \/ s.row.id \in garbled'
                     /\ s.pc = "park" => failures'[s.row.id] = MaxAttempts \/ s.row.id \in garbled'
    OBVIOUS
  <2>1. s.row.id \in Ids /\ s.row.tries \in Nat
    BY <1>2, RelayAssumption DEF PageRow
  <2>2. failures[s.row.id] \in 0..MaxAttempts /\ failures'[s.row.id] \in 0..MaxAttempts
        /\ failures[s.row.id] <= failures'[s.row.id]
    BY <2>1 DEF TypeOK, Grows
  <2> QED BY <2>1, <2>2, RelayAssumption DEF SweepInv, Grows
<1> QED BY <1>3, <1>4 DEF SweepInv, Grows

\* A step that only moves one sweep, and perhaps its watermark.
LEMMA SweepOnly ==
    ASSUME IInv, NEW w \in Workers, NEW CONSTANT s \in Sweep, Set(w, s), SweepInv(s),
           UNCHANGED <<rows, dead, settled, cleaner, history>>,
           marks' \in [Topics -> Mark], aborts' \in 0..MaxAborts
    PROVE  IInv'
<1>1. sweep' \in [Workers -> Sweep] /\ \A v \in Workers : sweep'[v] = IF v = w THEN s ELSE sweep[v]
  BY DEF IInv, TypeOK, Set
<1>2. TypeOK'
  BY <1>1 DEF IInv, TypeOK, rows, history
<1>3. RowInv' /\ CleanerInv'
  BY DEF IInv, RowInv, CleanerInv, rows, history
<1>4. ASSUME NEW v \in Workers PROVE SweepInv(sweep[v])'
  <2>1. SweepInv(sweep'[v])
    BY <1>1 DEF IInv
  <2> QED BY <2>1 DEF SweepInv, ReadInv, rows, history
<1> QED BY <1>2, <1>3, <1>4 DEF IInv

LEMMA IdleSweep == Idle \in Sweep /\ SweepInv(Idle)
  BY RelayAssumption
  DEF Idle, NoRow, Sweep, Steps, Mark, NoMark, Stamps, SweepInv, InHand

\* What is known of one sweep.
LEMMA SweepFacts ==
    ASSUME IInv, NEW w \in Workers
    PROVE  /\ sweep[w] \in Sweep /\ SweepInv(sweep[w])
           /\ TopicOf(w) \in Topics
  BY RelayAssumption DEF IInv, TypeOK, Workers, TopicOf

\* The end of a sweep, by whatever path, changes only the watermark.
LEMMA EndSweepInv ==
    ASSUME IInv, NEW w \in Workers, NEW saved \in BOOLEAN, EndSweep(w, sweep[w], saved),
           UNCHANGED <<rows, dead, settled, cleaner, history>>, aborts' \in 0..MaxAborts
    PROVE  IInv'
<1>1. marks' \in [Topics -> Mark]
  <2>1. sweep[w].cand \in Mark
    BY SweepFacts DEF Sweep
  <2> QED BY <2>1, SweepFacts DEF EndSweep, IInv, TypeOK
<1> QED BY <1>1, SweepOnly, IdleSweep DEF EndSweep

LEMMA AbortsType == ASSUME IInv, UNCHANGED aborts PROVE aborts' \in 0..MaxAborts
  BY DEF IInv, TypeOK

LEMMA QuerySweep ==
    ASSUME IInv, NEW w \in Workers, NEW CONSTANT s \in Sweep, Set(w, s), SweepInv(s), QueryFrame
    PROVE  IInv'
  BY SweepOnly DEF QueryFrame, IInv, TypeOK

\* Rows read now are committed and carry counts the history accounts for.
LEMMA ReadPageInv ==
    ASSUME IInv, NEW w \in Workers, NEW S, S \subseteq scope(w)
    PROVE  ReadPage(S) \subseteq PageRow /\ \A r \in ReadPage(S) : ReadInv(r) /\ r.done = done[r.id]
<1> SUFFICES ASSUME NEW m \in S
             PROVE  ReadRow(m) \in PageRow /\ ReadInv(ReadRow(m)) /\ ReadRow(m).done = done[ReadRow(m).id]
  BY DEF ReadPage
<1>1. m \in Ids /\ status[m] = "live"
  BY DEF scope, Live
<1>2. done[m] \in BOOLEAN /\ tries[m] \in 0..MaxAttempts /\ waits[m] \in BOOLEAN
  BY <1>1 DEF IInv, TypeOK
<1>3. ReadRow(m) \in PageRow
  BY <1>1, <1>2 DEF ReadRow, PageRow
<1> QED BY <1>1, <1>2, <1>3 DEF ReadRow, ReadInv, IInv, RowInv

LEMMA StartSweepInv == ASSUME IInv, NEW w \in Workers, StartSweep(w) PROVE IInv'
<1> DEFINE k == marks[TopicOf(w)]
           s == [Idle EXCEPT !.pc = IF IsSet(k) THEN "behind" ELSE "forward",
                             !.stage = IF IsSet(k) THEN 0 ELSE 2,
                             !.mark = k, !.cand = k, !.cutoff = settled, !.seen = scope(w)]
<1>1. k \in Mark /\ settled \in Stamps /\ scope(w) \subseteq Ids
  BY SweepFacts DEF IInv, TypeOK, scope, Live
<1>2. s \in Sweep
  <2>1. (IF IsSet(k) THEN "behind" ELSE "forward") \in Steps /\ (IF IsSet(k) THEN 0 ELSE 2) \in 0..2
    BY DEF Steps
  <2> HIDE DEF k
  <2> QED BY <1>1, <2>1, IdleSweep DEF Sweep
<1>3. SweepInv(s)
  BY DEF SweepInv, Idle, InHand
<1> QED BY <1>2, <1>3, QuerySweep DEF StartSweep

LEMMA LookBehindInv == ASSUME IInv, NEW w \in Workers, LookBehind(w) PROVE IInv'
<1> DEFINE s == sweep[w]
           S == Slice(Pending(w), 0)
<1>1. s \in Sweep /\ SweepInv(s) /\ s.pc = "behind"
  BY SweepFacts DEF LookBehind
<1>2. S \subseteq scope(w) /\ \A m \in S : ~done[m]
  BY SliceSubset DEF Pending
<1>3. ReadPage(S) \subseteq PageRow /\ \A r \in ReadPage(S) : ReadInv(r) /\ ~r.done
  BY <1>2, ReadPageInv DEF ReadPage, ReadRow
<1> HIDE DEF S
<1>4. CASE s.pages = MaxPages
  <2>1. [s EXCEPT !.pc = "finish"] \in Sweep /\ SweepInv([s EXCEPT !.pc = "finish"])
    BY <1>1 DEF Sweep, Steps, SweepInv, InHand
  <2> QED BY <1>4, <2>1, QuerySweep DEF LookBehind
<1>5. CASE s.pages # MaxPages /\ S = {}
  <2>1. PICK i \in Ids \cup {0} : i = s.mark.id
    BY <1>1 DEF Sweep, Mark, NoMark
  <2> DEFINE t == [s EXCEPT !.pc = "boundary", !.stage = 1, !.last = i]
  <2>2. t \in Sweep
    <3> HIDE DEF s
    <3>1. "boundary" \in Steps /\ 1 \in 0..2
      BY DEF Steps
    <3> QED BY <1>1, <3>1 DEF Sweep
  <2>3. SweepInv(t)
    BY <1>1 DEF Sweep, SweepInv, InHand
  <2> QED BY <1>5, <2>1, <2>2, <2>3, QuerySweep DEF LookBehind, S
<1>6. CASE s.pages # MaxPages /\ S # {}
  <2> DEFINE t == [s EXCEPT !.pc = "row", !.pages = @ + 1, !.page = ReadPage(S)]
  <2>1. s.pages + 1 \in 0..MaxPages
    BY <1>1, <1>6, RelayAssumption DEF Sweep
  <2>2. t \in Sweep
    BY <1>1, <1>3, <2>1 DEF Sweep, Steps
  <2>3. SweepInv(t)
    BY <1>1, <1>3 DEF SweepInv, InHand, Sweep
  <2> QED BY <1>6, <2>2, <2>3, QuerySweep DEF LookBehind, S
<1> QED BY <1>4, <1>5, <1>6

LEMMA BoundaryInv == ASSUME IInv, NEW w \in Workers, Boundary(w) PROVE IInv'
<1> DEFINE s == sweep[w]
           S == Slice({m \in scope(w) : at[m] = s.mark.at /\ m > s.last}, 0)
<1>1. s \in Sweep /\ SweepInv(s) /\ s.pc = "boundary"
  BY SweepFacts DEF Boundary
<1>2. S \subseteq scope(w)
  BY SliceSubset
<1>3. ReadPage(S) \subseteq PageRow /\ \A r \in ReadPage(S) : ReadInv(r)
  BY <1>2, ReadPageInv
<1>4. "finish" \in Steps /\ "row" \in Steps
  BY DEF Steps
<1> HIDE DEF S
<1>5. CASE s.pages = MaxPages
  <2>1. [s EXCEPT !.pc = "finish"] \in Sweep /\ SweepInv([s EXCEPT !.pc = "finish"])
    BY <1>1, <1>4 DEF Sweep, SweepInv, InHand
  <2> QED BY <1>5, <2>1, QuerySweep DEF Boundary
<1>6. CASE s.pages # MaxPages
  <2> DEFINE full == Cardinality(S) = Batch
             t == [s EXCEPT !.pc = "row", !.pages = @ + 1, !.page = ReadPage(S), !.full = full]
  <2>1. s.pages + 1 \in 0..MaxPages /\ full \in BOOLEAN
    BY <1>1, <1>6, RelayAssumption DEF Sweep
  <2>2. t \in Sweep
    <3> HIDE DEF s, full
    <3> QED BY <1>1, <1>3, <1>4, <2>1 DEF Sweep
  <2>3. SweepInv(t)
    <3> HIDE DEF full
    <3> QED BY <1>1, <1>3 DEF SweepInv, InHand, Sweep
  <2> QED BY <1>6, <2>2, <2>3, QuerySweep DEF Boundary, S
<1> QED BY <1>5, <1>6

LEMMA ForwardInv == ASSUME IInv, NEW w \in Workers, Forward(w) PROVE IInv'
<1> DEFINE s == sweep[w]
           S == scanForward(w)
<1>1. s \in Sweep /\ SweepInv(s) /\ s.pc = "forward"
  BY SweepFacts DEF Forward
<1>2. S \subseteq scope(w)
  BY SliceSubset DEF scanForward
<1>3. ReadPage(S) \subseteq PageRow /\ \A r \in ReadPage(S) : ReadInv(r)
  BY <1>2, ReadPageInv
<1>4. "finish" \in Steps /\ "row" \in Steps /\ "drain" \in Steps
  BY DEF Steps
<1> HIDE DEF S
<1>5. CASE s.pages = MaxPages
  <2>1. [s EXCEPT !.pc = "finish"] \in Sweep /\ SweepInv([s EXCEPT !.pc = "finish"])
    BY <1>1, <1>4 DEF Sweep, SweepInv, InHand
  <2> QED BY <1>5, <2>1, QuerySweep DEF Forward
<1>6. CASE s.pages # MaxPages /\ S = {}
  <2>1. [s EXCEPT !.pc = "drain"] \in Sweep /\ SweepInv([s EXCEPT !.pc = "drain"])
    BY <1>1, <1>4 DEF Sweep, SweepInv, InHand
  <2> QED BY <1>6, <2>1, QuerySweep DEF Forward, S
<1>7. CASE s.pages # MaxPages /\ S # {}
  <2> DEFINE full == Cardinality(S) = Batch
             t == [s EXCEPT !.pc = "row", !.page = ReadPage(S), !.strict = FALSE, !.full = full]
  <2>1. s.pages < MaxPages /\ full \in BOOLEAN
    BY <1>1, <1>7, RelayAssumption DEF Sweep
  <2>2. t \in Sweep
    <3> HIDE DEF s, full
    <3> QED BY <1>1, <1>3, <1>4, <2>1 DEF Sweep
  <2>3. SweepInv(t)
    <3> HIDE DEF full
    <3> QED BY <1>1, <1>3, <2>1 DEF SweepInv, InHand, Sweep
  <2> QED BY <1>7, <2>2, <2>3, QuerySweep DEF Forward, S
<1> QED BY <1>5, <1>6, <1>7

\* Moving the cursor over a row keeps the type and the invariant of the sweep.
LEMMA PassRowInv ==
    ASSUME IInv, NEW s \in Sweep, SweepInv(s), s.pc \in InHand \cup {"row"}, NEW r \in s.page
    PROVE  PassRow(s, r) \in Sweep /\ SweepInv(PassRow(s, r))
<1>1. r \in PageRow /\ r.id \in Ids /\ at[r.id] \in Stamps
  BY DEF Sweep, PageRow, IInv, TypeOK
<1> DEFINE m == r.id
           last == IF s.stage = 1 THEN m ELSE s.last
           off == IF s.stage # 2 THEN s.off ELSE IF at[m] = s.ts THEN s.off + 1 ELSE 1
           ts == IF s.stage # 2 THEN s.ts ELSE at[m]
           cand == IF s.stage # 0 /\ at[m] <= s.cutoff THEN [at |-> at[m], id |-> m] ELSE s.cand
           t == [s EXCEPT !.pc = "row", !.row = NoRow, !.page = s.page \ {r}, !.last = last,
                          !.off = off, !.ts = ts, !.cand = cand]
<1>2. PassRow(s, r) = t
  BY DEF PassRow
<1>3. last \in Ids \cup {0} /\ off \in Nat /\ ts \in Stamps \cup {-1} /\ cand \in Mark /\ "row" \in Steps
  BY <1>1 DEF Sweep, Mark, Steps
<1> HIDE DEF last, off, ts, cand
<1>4. t \in Sweep
  BY <1>3 DEF Sweep
<1>5. SweepInv(t)
  BY DEF SweepInv, InHand, Sweep
<1> QED BY <1>2, <1>4, <1>5

LEMMA SkipInv == ASSUME IInv, NEW w \in Workers, Skip(w) PROVE IInv'
<1>1. PICK r \in sweep[w].page : Set(w, PassRow(sweep[w], r)) /\ sweep[w].pc = "row"
  BY DEF Skip
<1>2. PassRow(sweep[w], r) \in Sweep /\ SweepInv(PassRow(sweep[w], r))
  BY <1>1, PassRowInv, SweepFacts
<1> QED BY <1>1, <1>2, QuerySweep DEF Skip

LEMMA RetryLaterInv == ASSUME IInv, NEW w \in Workers, RetryLater(w) PROVE IInv'
  BY EndSweepInv, AbortsType DEF RetryLater

LEMMA CallInv == ASSUME IInv, NEW w \in Workers, Call(w) PROVE IInv'
<1> DEFINE s == sweep[w]
<1>1. PICK r \in s.page : ~Passed(s, r) /\ Set(w, [s EXCEPT !.pc = "call", !.row = r]) /\ s.pc = "row"
  BY DEF Call
<1>2. s \in Sweep /\ SweepInv(s) /\ "call" \in Steps /\ r \in PageRow
  BY SweepFacts DEF Steps, Sweep
<1> DEFINE t == [s EXCEPT !.pc = "call", !.row = r]
<1>3. t \in Sweep
  <2> HIDE DEF s
  <2> QED BY <1>2 DEF Sweep
<1>4. SweepInv(t)
  <2> HIDE DEF s
  <2> QED BY <1>1, <1>2 DEF SweepInv, InHand, Sweep, Passed
<1> QED BY <1>1, <1>3, <1>4, QuerySweep DEF Call

\* A step that moves one sweep and also writes rows or history.
LEMMA StepOf ==
    ASSUME IInv, TypeOK', RowInv', CleanerInv', Grows,
           NEW w \in Workers, NEW CONSTANT s \in Sweep, Set(w, s), SweepInv(s)'
    PROVE  IInv'
<1>1. \A v \in Workers : sweep'[v] = IF v = w THEN s ELSE sweep[v]
  BY DEF IInv, TypeOK, Set
<1>2. ASSUME NEW v \in Workers PROVE SweepInv(sweep[v])'
  <2>1. CASE v = w
    <3>1. sweep'[v] = s BY <1>1, <2>1
    <3> QED BY <3>1 DEF SweepInv, ReadInv
  <2>2. CASE v # w
    <3>1. PICK t \in Sweep : t = sweep[v] BY SweepFacts
    <3>2. SweepInv(t) BY <3>1, SweepFacts
    <3>3. SweepInv(t)' BY <3>2, SweepStable DEF IInv
    <3>4. sweep'[v] = t BY <1>1, <2>2, <3>1
    <3> QED BY <3>3, <3>4 DEF SweepInv, ReadInv
  <2> QED BY <2>1, <2>2
<1> QED BY <1>2 DEF IInv

\* A step that leaves every sweep alone.
LEMMA StepOutside ==
    ASSUME IInv, TypeOK', RowInv', CleanerInv', Grows, UNCHANGED sweep
    PROVE  IInv'
<1>1. ASSUME NEW v \in Workers PROVE SweepInv(sweep[v])'
  <2>1. PICK t \in Sweep : t = sweep[v] BY SweepFacts
  <2>2. SweepInv(t) BY <2>1, SweepFacts
  <2>3. SweepInv(t)' BY <2>2, SweepStable DEF IInv
  <2>4. sweep'[v] = t BY <2>1
  <2> QED BY <2>3, <2>4 DEF SweepInv, ReadInv
<1> QED BY <1>1 DEF IInv

\* The row in a sweep's hand.
LEMMA RowFacts ==
    ASSUME IInv, NEW w \in Workers, sweep[w].pc \in InHand
    PROVE  LET r == sweep[w].row IN
           /\ r \in sweep[w].page /\ r \in PageRow /\ r.id \in Ids /\ r.tries \in 0..MaxAttempts
           /\ r.tries < MaxAttempts /\ ~r.done /\ ReadInv(r)
<1>1. sweep[w] \in Sweep /\ SweepInv(sweep[w])
  BY SweepFacts
<1>2. sweep[w].row \in sweep[w].page /\ sweep[w].row \in PageRow /\ ~sweep[w].row.done
  BY <1>1 DEF Sweep, SweepInv
<1>3. ReadInv(sweep[w].row)
  BY <1>1, <1>2 DEF SweepInv
<1> QED BY <1>2, <1>3 DEF PageRow, ReadInv

LEMMA HandlerTakesInv == ASSUME IInv, NEW w \in Workers, HandlerTakes(w) PROVE IInv'
<1>1. PICK s \in Sweep : s = sweep[w] /\ SweepInv(s) /\ s.pc = "call"
  BY SweepFacts DEF HandlerTakes
<1> DEFINE t == [s EXCEPT !.pc = "ack"]
<1>2. s.row \in s.page /\ s.row.id \in Ids /\ ReadInv(s.row) /\ ~s.row.done
  BY <1>1, RowFacts DEF InHand
<1>3. took' = took \cup {s.row.id} /\ UNCHANGED <<rows, dead, marks, settled, cleaner, aborts, failures, garbled>>
      /\ Set(w, t)
  BY <1>1 DEF HandlerTakes
<1>4. t \in Sweep
  <2>1. "ack" \in Steps BY DEF Steps
  <2> QED BY <2>1 DEF Sweep
<1>5. TypeOK'
  <2>1. sweep' \in [Workers -> Sweep] BY <1>3, <1>4 DEF Set, IInv, TypeOK
  <2> QED BY <1>2, <1>3, <2>1 DEF IInv, TypeOK, rows
<1>6. RowInv' /\ CleanerInv'
  BY <1>2, <1>3 DEF IInv, RowInv, CleanerInv, rows, ReadInv
<1>7. Grows
  BY <1>3, RelayAssumption DEF Grows, rows, IInv, TypeOK
<1>8. SweepInv(t)'
  <2>1. SweepInv(s)' BY <1>1, <1>5, <1>7, SweepStable DEF IInv
  <2> QED BY <1>1, <1>2, <1>3, <2>1 DEF SweepInv, InHand, Sweep, ReadInv
<1> QED BY <1>3, <1>4, <1>5, <1>6, <1>7, <1>8, StepOf

LEMMA UndecodableInv == ASSUME IInv, NEW w \in Workers, Undecodable(w) PROVE IInv'
<1>1. PICK s \in Sweep : s = sweep[w] /\ SweepInv(s) /\ s.pc = "call"
  BY SweepFacts DEF Undecodable
<1> DEFINE t == [s EXCEPT !.pc = "park"]
<1>2. s.row \in s.page /\ s.row.id \in Ids /\ ReadInv(s.row) /\ ~s.row.done
  BY <1>1, RowFacts DEF InHand
<1>3. garbled' = garbled \cup {s.row.id} /\ UNCHANGED <<rows, dead, marks, settled, cleaner, aborts, took, failures>>
      /\ Set(w, t)
  BY <1>1 DEF Undecodable
<1>4. t \in Sweep
  <2>1. "park" \in Steps BY DEF Steps
  <2> QED BY <2>1 DEF Sweep
<1>5. TypeOK'
  <2>1. sweep' \in [Workers -> Sweep] BY <1>3, <1>4 DEF Set, IInv, TypeOK
  <2> QED BY <1>2, <1>3, <2>1 DEF IInv, TypeOK, rows
<1>6. RowInv' /\ CleanerInv'
  BY <1>2, <1>3 DEF IInv, RowInv, CleanerInv, rows
<1>7. Grows
  BY <1>3, RelayAssumption DEF Grows, rows, IInv, TypeOK
<1>8. SweepInv(t)'
  <2>1. SweepInv(s)' BY <1>1, <1>5, <1>7, SweepStable DEF IInv
  <2> QED BY <1>1, <1>2, <1>3, <2>1 DEF SweepInv, InHand, Sweep, ReadInv
<1> QED BY <1>3, <1>4, <1>5, <1>6, <1>7, <1>8, StepOf

LEMMA HandlerFailsInv == ASSUME IInv, NEW w \in Workers, HandlerFails(w) PROVE IInv'
<1>1. PICK s \in Sweep : s = sweep[w] /\ SweepInv(s) /\ s.pc = "call"
  BY SweepFacts DEF HandlerFails
<1> DEFINE m == s.row.id
           n == s.row.tries + 1
           pc == IF n >= MaxAttempts THEN "park" ELSE "fail"
           t == [s EXCEPT !.pc = pc]
<1>2. /\ s.row \in s.page /\ m \in Ids /\ ReadInv(s.row) /\ ~s.row.done
      /\ s.row.tries \in 0..MaxAttempts /\ s.row.tries < MaxAttempts
  BY <1>1, RowFacts DEF InHand
<1>3. /\ failures' = [failures EXCEPT ![m] = IF @ < MaxAttempts THEN @ + 1 ELSE @]
      /\ UNCHANGED <<rows, dead, marks, settled, cleaner, aborts, took, garbled>>
      /\ Set(w, t)
  BY <1>1 DEF HandlerFails
<1>a. failures \in [Ids -> 0..MaxAttempts]
  BY DEF IInv, TypeOK
<1>b. /\ failures' \in [Ids -> 0..MaxAttempts]
      /\ \A k \in Ids : failures[k] <= failures'[k]
      /\ failures'[m] = IF failures[m] < MaxAttempts THEN failures[m] + 1 ELSE failures[m]
      /\ \A k \in Ids : failures[k] = MaxAttempts => failures'[k] = MaxAttempts
  <2> HIDE DEF m
  <2> QED BY <1>2, <1>3, <1>a, RelayAssumption
<1>4. t \in Sweep
  <2>1. pc \in Steps BY DEF Steps
  <2> HIDE DEF pc
  <2> QED BY <2>1 DEF Sweep
<1>5. TypeOK'
  <2>1. sweep' \in [Workers -> Sweep] BY <1>3, <1>4 DEF Set, IInv, TypeOK
  <2> QED BY <1>3, <1>b, <2>1 DEF IInv, TypeOK, rows
<1>6. RowInv' /\ CleanerInv'
  <2>1. \A k \in Ids : tries[k] \in 0..MaxAttempts /\ failures[k] \in 0..MaxAttempts /\ failures'[k] \in 0..MaxAttempts
    BY <1>b DEF IInv, TypeOK
  <2> HIDE DEF t, m
  <2>2. RowInv'
    BY <1>3, <1>b, <2>1, RelayAssumption DEF IInv, RowInv, rows
  <2> QED BY <1>3, <2>2 DEF IInv, CleanerInv, rows
<1>7. Grows
  BY <1>3, <1>b DEF Grows, rows
<1>8. SweepInv(t)'
  <2>1. SweepInv(s)' BY <1>1, <1>5, <1>7, SweepStable DEF IInv
  <2>2. n <= failures'[m] \/ m \in garbled'
    BY <1>2, <1>3, <1>a, <1>b, RelayAssumption DEF ReadInv
  <2>3. n >= MaxAttempts => failures'[m] = MaxAttempts \/ m \in garbled'
    <3>1. failures'[m] \in 0..MaxAttempts
      BY <1>2, <1>b
    <3> HIDE DEF m
    <3> QED BY <1>2, <2>2, <3>1, RelayAssumption
  <2>4. ~(n >= MaxAttempts) => n < MaxAttempts
    BY <1>2, RelayAssumption
  <2>5. t.pc = pc /\ t.row = s.row /\ t.page = s.page /\ t.stage = s.stage /\ t.pages = s.pages
    BY DEF Sweep
  <2>6. pc \in {"fail", "park"} /\ (pc = "park" => n >= MaxAttempts) /\ (pc = "fail" => n < MaxAttempts)
    BY <2>4
  <2> HIDE DEF t, pc
  <2> QED BY <1>1, <1>2, <2>1, <2>2, <2>3, <2>5, <2>6 DEF SweepInv, InHand
<1> QED BY <1>3, <1>4, <1>5, <1>6, <1>7, <1>8, StepOf

LEMMA CompleteInv == ASSUME IInv, NEW w \in Workers, Complete(w) PROVE IInv'
<1>1. PICK s \in Sweep : s = sweep[w] /\ SweepInv(s) /\ s.pc = "ack"
  BY SweepFacts DEF Complete
<1>2. s.row \in s.page /\ s.row.id \in Ids /\ s.row.id \in took
  BY <1>1, RowFacts DEF InHand, SweepInv
<1>3. PICK t \in Sweep : t = PassRow(s, s.row) /\ SweepInv(t)
  BY <1>1, <1>2, PassRowInv DEF InHand
<1>4. /\ done' = [done EXCEPT ![s.row.id] = @ \/ status[s.row.id] = "live"]
      /\ UNCHANGED <<status, topic, at, tries, waits, dead, marks, settled, cleaner, aborts, history>>
      /\ Set(w, t)
  BY <1>1, <1>3 DEF Complete
<1>5. TypeOK'
  <2>1. sweep' \in [Workers -> Sweep] BY <1>3, <1>4 DEF Set, IInv, TypeOK
  <2>2. done' \in [Ids -> BOOLEAN] BY <1>2, <1>4 DEF IInv, TypeOK
  <2> QED BY <1>4, <2>1, <2>2 DEF IInv, TypeOK, history
<1>6. \A k \in Ids : /\ done[k] => done'[k]
                     /\ done'[k] => done[k] \/ (k = s.row.id /\ status[k] = "live")
  BY <1>2, <1>4 DEF IInv, TypeOK
<1>7. RowInv' /\ CleanerInv'
  <2>1. RowInv'
    BY <1>2, <1>4, <1>6 DEF IInv, RowInv, history
  <2>2. CleanerInv'
    BY <1>4, <1>6 DEF IInv, CleanerInv, TypeOK
  <2> QED BY <2>1, <2>2
<1>8. Grows
  BY <1>4, RelayAssumption DEF Grows, IInv, TypeOK, history
<1>9. SweepInv(t)'
  BY <1>3, <1>5, <1>8, SweepStable DEF IInv
<1> QED BY <1>4, <1>5, <1>7, <1>8, <1>9, StepOf

LEMMA FailInv == ASSUME IInv, NEW w \in Workers, Fail(w) PROVE IInv'
<1>1. PICK s \in Sweep : s = sweep[w] /\ SweepInv(s) /\ s.pc = "fail"
  BY SweepFacts DEF Fail
<1> DEFINE m == s.row.id
           n == s.row.tries + 1
<1>2. /\ m \in Ids /\ s.row.tries \in 0..MaxAttempts /\ n < MaxAttempts
      /\ n <= failures[m] \/ m \in garbled
  BY <1>1, RowFacts DEF InHand, SweepInv
<1>3. /\ tries' = [tries EXCEPT ![m] = IF status[m] = "live" THEN n ELSE @]
      /\ \E backoff \in BOOLEAN : waits' = [waits EXCEPT ![m] = IF status[m] = "live" THEN backoff ELSE @]
      /\ UNCHANGED <<status, topic, at, done, dead, settled, cleaner, aborts, history>>
      /\ Set(w, Idle)
  BY <1>1 DEF Fail, EndSweep
<1>4. PICK t \in Sweep : t = Idle /\ SweepInv(t)
  BY IdleSweep
<1>5. TypeOK'
  <2>1. sweep' \in [Workers -> Sweep] BY <1>3, <1>4 DEF Set, IInv, TypeOK
  <2>2. n \in 0..MaxAttempts
    BY <1>2, RelayAssumption
  <2> HIDE DEF n, m
  <2>3. tries' \in [Ids -> 0..MaxAttempts]
    BY <1>2, <1>3, <2>2 DEF IInv, TypeOK
  <2>4. waits' \in [Ids -> BOOLEAN]
    BY <1>2, <1>3 DEF IInv, TypeOK
  <2>5. marks' \in [Topics -> Mark]
    <3>1. sweep[w].cand \in Mark BY SweepFacts DEF Sweep
    <3> QED BY <3>1, SweepFacts DEF Fail, EndSweep, IInv, TypeOK
  <2> QED BY <1>3, <2>1, <2>3, <2>4, <2>5 DEF IInv, TypeOK, history
<1>6. \A k \in Ids : tries'[k] = tries[k] \/ (k = m /\ tries'[k] = n)
  <2> HIDE DEF n, m
  <2> QED BY <1>2, <1>3 DEF IInv, TypeOK
<1>7. RowInv' /\ CleanerInv'
  <2> HIDE DEF n, m
  <2>1. RowInv'
    BY <1>2, <1>3, <1>6 DEF IInv, RowInv, history
  <2>2. CleanerInv'
    BY <1>3 DEF IInv, CleanerInv
  <2> QED BY <2>1, <2>2
<1>8. Grows
  BY <1>3, RelayAssumption DEF Grows, IInv, TypeOK, history
<1>9. SweepInv(t)'
  BY <1>4, <1>5, <1>8, SweepStable DEF IInv
<1>10. Set(w, t)
  BY <1>3, <1>4
<1> QED BY <1>5, <1>7, <1>8, <1>9, <1>10, StepOf

LEMMA ParkInv == ASSUME IInv, NEW w \in Workers, Park(w) PROVE IInv'
<1>1. PICK s \in Sweep : s = sweep[w] /\ SweepInv(s) /\ s.pc = "park"
  BY SweepFacts DEF Park
<1> DEFINE m == s.row.id
           n == s.row.tries + 1
<1>2. /\ s.row \in s.page /\ m \in Ids /\ s.row.tries \in 0..MaxAttempts /\ s.row.tries < MaxAttempts
      /\ n <= failures[m] \/ m \in garbled
      /\ failures[m] = MaxAttempts \/ m \in garbled
      /\ status[m] \in {"live", "gone"}
  BY <1>1, RowFacts DEF InHand, SweepInv, ReadInv
<1>3. PICK t \in Sweep : t = PassRow(s, s.row) /\ SweepInv(t)
  BY <1>1, <1>2, PassRowInv DEF InHand
<1>4. /\ dead' = dead \cup {m}
      /\ done' = [done EXCEPT ![m] = @ \/ status[m] = "live"]
      /\ tries' = [tries EXCEPT ![m] = IF status[m] = "live" THEN n ELSE @]
      /\ waits' = [waits EXCEPT ![m] = @ /\ status[m] # "live"]
      /\ UNCHANGED <<status, topic, at, marks, settled, cleaner, aborts, history>>
      /\ Set(w, t)
  BY <1>1, <1>3 DEF Park
<1>a. n \in 0..MaxAttempts
  BY <1>2, RelayAssumption
<1> HIDE DEF m, n
<1>5. TypeOK'
  <2>1. sweep' \in [Workers -> Sweep] BY <1>3, <1>4 DEF Set, IInv, TypeOK
  <2>2. done' \in [Ids -> BOOLEAN] /\ waits' \in [Ids -> BOOLEAN]
    BY <1>2, <1>4 DEF IInv, TypeOK
  <2>3. tries' \in [Ids -> 0..MaxAttempts]
    BY <1>2, <1>4, <1>a DEF IInv, TypeOK
  <2> QED BY <1>2, <1>4, <2>1, <2>2, <2>3 DEF IInv, TypeOK, history
<1>6. \A k \in Ids : /\ done[k] => done'[k]
                     /\ done'[k] => done[k] \/ (k = m /\ status[k] = "live")
                     /\ tries'[k] = tries[k] \/ (k = m /\ tries'[k] = n /\ done'[k])
  BY <1>2, <1>4 DEF IInv, TypeOK
<1>7. RowInv' /\ CleanerInv'
  <2>1. RowInv'
    BY <1>2, <1>4, <1>6 DEF IInv, RowInv, history
  <2>2. CleanerInv'
    BY <1>4, <1>6 DEF IInv, CleanerInv, TypeOK
  <2> QED BY <2>1, <2>2
<1>8. Grows
  BY <1>4, RelayAssumption DEF Grows, IInv, TypeOK, history
<1>9. SweepInv(t)'
  BY <1>3, <1>5, <1>8, SweepStable DEF IInv
<1> QED BY <1>4, <1>5, <1>7, <1>8, <1>9, StepOf

\* Advancing the watermark of a sweep changes nothing its invariant mentions.
LEMMA PersistInv ==
    ASSUME IInv, NEW w \in Workers, NEW CONSTANT s \in Sweep, SweepInv(s), NEW saved \in BOOLEAN,
           persist(w, s, saved), UNCHANGED <<rows, dead, settled, cleaner, aborts, history>>
    PROVE  IInv'
<1>1. s.cand \in Mark /\ TopicOf(w) \in Topics
  BY SweepFacts DEF Sweep
<1>2. marks' \in [Topics -> Mark] /\ aborts' \in 0..MaxAborts
  BY <1>1 DEF persist, IInv, TypeOK
<1>3. CASE Advances(s) /\ saved
  <2> DEFINE t == [s EXCEPT !.mark = s.cand]
  <2>1. t \in Sweep
    BY <1>1 DEF Sweep
  <2>2. SweepInv(t)
    BY DEF SweepInv, Sweep, InHand
  <2> QED BY <1>2, <1>3, <2>1, <2>2, SweepOnly DEF persist
<1>4. CASE ~(Advances(s) /\ saved)
  BY <1>2, <1>4, SweepOnly DEF persist
<1> QED BY <1>3, <1>4

LEMMA PageDoneInv == ASSUME IInv, NEW w \in Workers, PageDone(w) PROVE IInv'
<1>1. PICK s \in Sweep : s = sweep[w] /\ SweepInv(s) /\ s.pc = "row" /\ s.page = {}
  BY SweepFacts DEF PageDone
<1>2. PICK saved \in BOOLEAN :
         LET k == IF Advances(s) /\ saved THEN s.cand ELSE s.mark IN
         persist(w, CASE s.stage = 0 -> [s EXCEPT !.pc = "behind"]
                      [] s.stage = 1 /\ s.full -> [s EXCEPT !.pc = "boundary"]
                      [] s.stage = 1 /\ ~s.full ->
                            [s EXCEPT !.pc = "forward", !.stage = 2, !.ts = k.at, !.strict = TRUE,
                                      !.last = 0]
                      [] s.stage = 2 /\ s.full -> [s EXCEPT !.pc = "forward", !.pages = @ + 1]
                      [] s.stage = 2 /\ ~s.full -> [s EXCEPT !.pc = "drain"], saved)
  BY <1>1 DEF PageDone
<1>3. PICK a \in Stamps \cup {-1} : a = (IF Advances(s) /\ saved THEN s.cand ELSE s.mark).at
  BY DEF Sweep, Mark, NoMark
<1>4. UNCHANGED <<rows, dead, settled, cleaner, aborts, history>>
  BY DEF PageDone
<1>5. {"behind", "boundary", "forward", "drain"} \subseteq Steps /\ 2 \in 0..2
  BY DEF Steps
<1>6. CASE s.stage = 0
  <2> DEFINE t == [s EXCEPT !.pc = "behind"]
  <2>1. t \in Sweep BY <1>5 DEF Sweep
  <2>2. SweepInv(t) BY <1>1, <1>6 DEF SweepInv, InHand, Sweep
  <2>3. persist(w, t, saved) BY <1>2, <1>6
  <2> QED BY <1>4, <2>1, <2>2, <2>3, PersistInv
<1>7. CASE s.stage = 1 /\ s.full
  <2> DEFINE t == [s EXCEPT !.pc = "boundary"]
  <2>1. t \in Sweep BY <1>5 DEF Sweep
  <2>2. SweepInv(t) BY <1>1, <1>7 DEF SweepInv, InHand, Sweep
  <2>3. persist(w, t, saved) BY <1>2, <1>7
  <2> QED BY <1>4, <2>1, <2>2, <2>3, PersistInv
<1>8. CASE s.stage = 1 /\ ~s.full
  <2> DEFINE t == [s EXCEPT !.pc = "forward", !.stage = 2, !.ts = a, !.strict = TRUE, !.last = 0]
  <2>1. t \in Sweep BY <1>5 DEF Sweep
  <2>2. SweepInv(t) BY <1>1, <1>8 DEF SweepInv, InHand, Sweep
  <2>3. persist(w, t, saved) BY <1>2, <1>3, <1>8
  <2> QED BY <1>4, <2>1, <2>2, <2>3, PersistInv
<1>9. CASE s.stage = 2 /\ s.full
  <2> DEFINE t == [s EXCEPT !.pc = "forward", !.pages = @ + 1]
  <2>1. s.pages + 1 \in 0..MaxPages
    BY <1>1, <1>9, RelayAssumption DEF SweepInv, Sweep
  <2>2. t \in Sweep BY <1>5, <2>1 DEF Sweep
  <2>3. SweepInv(t) BY <1>1, <1>9 DEF SweepInv, InHand, Sweep
  <2>4. persist(w, t, saved) BY <1>2, <1>9
  <2> QED BY <1>4, <2>2, <2>3, <2>4, PersistInv
<1>10. CASE s.stage = 2 /\ ~s.full
  <2> DEFINE t == [s EXCEPT !.pc = "drain"]
  <2>1. t \in Sweep BY <1>5 DEF Sweep
  <2>2. SweepInv(t) BY <1>1, <1>10 DEF SweepInv, InHand, Sweep
  <2>3. persist(w, t, saved) BY <1>2, <1>10
  <2> QED BY <1>4, <2>1, <2>2, <2>3, PersistInv
<1>11. s.stage \in 0..2 /\ s.full \in BOOLEAN
  BY DEF Sweep
<1> QED BY <1>6, <1>7, <1>8, <1>9, <1>10, <1>11

LEMMA DrainInv == ASSUME IInv, NEW w \in Workers, Drain(w) PROVE IInv'
<1>1. PICK s \in Sweep : s = sweep[w] /\ SweepInv(s) /\ s.pc = "drain"
  BY SweepFacts DEF Drain
<1>2. Frontier(s) \subseteq Mark
  BY DEF Frontier, Live, Mark, IInv, TypeOK
<1>3. PICK c \in Mark : Set(w, [s EXCEPT !.pc = "finish", !.cand = c])
  BY <1>1, <1>2 DEF Drain, Sweep
<1> DEFINE t == [s EXCEPT !.pc = "finish", !.cand = c]
<1>4. "finish" \in Steps
  BY DEF Steps
<1>5. t \in Sweep
  BY <1>4 DEF Sweep
<1>6. SweepInv(t)
  BY <1>1 DEF SweepInv, InHand, Sweep
<1> QED BY <1>3, <1>5, <1>6, QuerySweep DEF Drain

LEMMA FinishInv == ASSUME IInv, NEW w \in Workers, Finish(w) PROVE IInv'
  BY EndSweepInv, AbortsType DEF Finish

LEMMA AbortInv == ASSUME IInv, NEW w \in Workers, Abort(w) PROVE IInv'
<1>1. aborts' \in 0..MaxAborts
  BY RelayAssumption DEF Abort, IInv, TypeOK
<1> QED BY <1>1, EndSweepInv DEF Abort

LEMMA SweepStepInv == ASSUME IInv, NEW w \in Workers, SweepStep(w) PROVE IInv'
  BY StartSweepInv, LookBehindInv, BoundaryInv, ForwardInv, SkipInv, RetryLaterInv, CallInv,
     HandlerTakesInv, HandlerFailsInv, UndecodableInv, CompleteInv, FailInv, ParkInv, PageDoneInv,
     DrainInv, FinishInv
  DEF SweepStep

(***************************************************************************)
(* Steps outside the sweeps.                                               *)
(***************************************************************************)
LEMMA InsertInv ==
    ASSUME IInv, NEW m \in Ids, NEW t \in Topics, NEW a \in Stamps, Insert(m, t, a)
    PROVE  IInv'
<1>1. TypeOK'
  BY DEF Insert, IInv, TypeOK, history
<1>2. \A k \in Ids : status'[k] = IF k = m THEN "open" ELSE status[k]
  BY DEF Insert, IInv, TypeOK
<1>3. RowInv'
  BY <1>2 DEF Insert, IInv, RowInv, history
<1>4. CleanerInv'
  BY <1>2 DEF Insert, IInv, CleanerInv, TypeOK
<1>5. Grows
  BY <1>2, RelayAssumption DEF Insert, Grows, IInv, TypeOK, history
<1> QED BY <1>1, <1>3, <1>4, <1>5, StepOutside DEF Insert

LEMMA EndTxInv ==
    ASSUME IInv, NEW m \in Ids, NEW o \in {"live", "void"}, EndTx(m, o)
    PROVE  IInv'
<1>1. TypeOK'
  BY DEF EndTx, IInv, TypeOK, history
<1>2. \A k \in Ids : status'[k] = IF k = m THEN o ELSE status[k]
  BY DEF EndTx, IInv, TypeOK
<1>3. RowInv'
  BY <1>2 DEF EndTx, IInv, RowInv, history
<1>4. CleanerInv'
  BY <1>2 DEF EndTx, IInv, CleanerInv, TypeOK
<1>5. Grows
  BY <1>2, RelayAssumption DEF EndTx, Grows, IInv, TypeOK, history
<1> QED BY <1>1, <1>3, <1>4, <1>5, StepOutside DEF EndTx

LEMMA TimeInv ==
    ASSUME IInv, Settle \/ \E m \in Ids : RetryDue(m)
    PROVE  IInv'
<1>1. TypeOK' /\ UNCHANGED sweep
  <2>1. CASE Settle
    BY <2>1, RelayAssumption DEF Settle, IInv, TypeOK, Stamps, rows, history
  <2>2. CASE \E m \in Ids : RetryDue(m)
    BY <2>2 DEF RetryDue, IInv, TypeOK, history
  <2> QED BY <2>1, <2>2
<1>2. UNCHANGED <<status, done, tries, dead, cleaner, took, failures, garbled>>
  BY DEF Settle, RetryDue, rows, history
<1>3. RowInv' /\ CleanerInv'
  BY <1>2 DEF IInv, RowInv, CleanerInv
<1>4. Grows
  BY <1>2, RelayAssumption DEF Grows, IInv, TypeOK
<1> QED BY <1>1, <1>3, <1>4, StepOutside

LEMMA CleanupInv ==
    ASSUME IInv, (\E c \in Stamps : CleanupStart(c)) \/ CleanupSelect \/ CleanupDelete
    PROVE  IInv'
<1>1. CASE (\E c \in Stamps : CleanupStart(c)) \/ CleanupSelect
  <2>1. /\ UNCHANGED <<rows, dead, marks, settled, sweep, aborts, history>>
        /\ cleaner' \in [pc : {"idle", "select", "delete"}, cutoff : Stamps, ids : SUBSET Ids]
        /\ cleaner'.pc = "delete" => cleaner'.ids \subseteq Eligible(cleaner.cutoff)
    <3>1. CASE \E c \in Stamps : CleanupStart(c)
      BY <3>1 DEF CleanupStart
    <3>2. CASE CleanupSelect
      <4>1. PICK S \in SUBSET Eligible(cleaner.cutoff) :
               cleaner' = IF S = {} THEN [pc |-> "idle", cutoff |-> 0, ids |-> {}]
                                    ELSE [cleaner EXCEPT !.pc = "delete", !.ids = S]
        BY <3>2 DEF CleanupSelect
      <4>2. S \subseteq Ids /\ 0 \in Stamps
        BY RelayAssumption DEF Eligible, Live, Stamps
      <4> QED BY <3>2, <4>1, <4>2 DEF CleanupSelect, IInv, TypeOK
    <3> QED BY <1>1, <3>1, <3>2
  <2>2. TypeOK'
    BY <2>1 DEF IInv, TypeOK, rows, history
  <2>3. RowInv'
    BY <2>1 DEF IInv, RowInv, rows, history
  <2>4. CleanerInv'
    BY <2>1 DEF CleanerInv, Eligible, Live, rows
  <2>5. Grows
    BY <2>1, RelayAssumption DEF Grows, IInv, TypeOK, rows, history
  <2> QED BY <2>1, <2>2, <2>3, <2>4, <2>5, StepOutside
<1>2. CASE CleanupDelete
  <2>1. \A m \in Ids : status'[m] = IF m \in cleaner.ids THEN "gone" ELSE status[m]
    BY <1>2 DEF CleanupDelete
  <2>2. TypeOK'
    BY <1>2 DEF CleanupDelete, IInv, TypeOK, history
  <2>3. \A m \in cleaner.ids : status[m] = "live" /\ done[m]
    BY <1>2 DEF CleanupDelete, IInv, CleanerInv
  <2>4. RowInv'
    BY <1>2, <2>1, <2>3 DEF CleanupDelete, IInv, RowInv, history
  <2>5. CleanerInv'
    BY <1>2 DEF CleanupDelete, CleanerInv, IInv, TypeOK
  <2>6. Grows
    BY <1>2, <2>1, RelayAssumption DEF CleanupDelete, Grows, IInv, TypeOK, history
  <2> QED BY <1>2, <2>2, <2>4, <2>5, <2>6, StepOutside DEF CleanupDelete
<1> QED BY <1>1, <1>2

LEMMA InitInv == Init => IInv
<1> SUFFICES ASSUME Init PROVE IInv
  OBVIOUS
<1>1. TypeOK
  BY RelayAssumption, IdleSweep DEF Init, TypeOK, Mark, Stamps
<1>2. RowInv /\ CleanerInv
  BY RelayAssumption DEF Init, RowInv, CleanerInv
<1>3. \A w \in Workers : SweepInv(sweep[w])
  BY IdleSweep DEF Init
<1> QED BY <1>1, <1>2, <1>3 DEF IInv

LEMMA StutterInv == ASSUME IInv, UNCHANGED vars PROVE IInv'
  BY DEF vars, rows, history, IInv, TypeOK, RowInv, CleanerInv, SweepInv, ReadInv

LEMMA NextInv == IInv /\ [Next]_vars => IInv'
<1> SUFFICES ASSUME IInv, [Next]_vars PROVE IInv'
  OBVIOUS
<1>1. CASE \E m \in Ids, t \in Topics, a \in Stamps : Insert(m, t, a)
  BY <1>1, InsertInv
<1>2. CASE \E m \in Ids : Commit(m) \/ Rollback(m)
  BY <1>2, EndTxInv DEF Commit, Rollback
<1>3. CASE Settle \/ \E m \in Ids : RetryDue(m)
  BY <1>3, TimeInv
<1>4. CASE \E w \in Workers : SweepStep(w) \/ Abort(w)
  BY <1>4, SweepStepInv, AbortInv
<1>5. CASE (\E c \in Stamps : CleanupStart(c)) \/ CleanupSelect \/ CleanupDelete
  BY <1>5, CleanupInv
<1>6. CASE UNCHANGED vars
  BY <1>6, StutterInv
<1> QED BY <1>1, <1>2, <1>3, <1>4, <1>5, <1>6 DEF Next

LEMMA Invariance == Spec => []IInv
  BY InitInv, NextInv, PTL DEF Spec

\* Type correctness of the relay, its cleanup and its history variables.
THEOREM TypeCorrect == Spec => []TypeOK
  BY Invariance, PTL DEF IInv

\* At least once, for any number of processes, crashes, pages and late
\* commits: no message is acknowledged or removed that its handler did not
\* take and that is not in the dead letters.
THEOREM AtLeastOnce == Spec => []NoMessageLost
<1>1. IInv => NoMessageLost
  BY DEF IInv, RowInv, NoMessageLost
<1> QED BY <1>1, Invariance, PTL

\* A message is parked only after MaxAttempts real failures of its handler,
\* or for a payload that does not decode, however often a count was lost.
THEOREM RetryBudget == Spec => []RetryBudgetHonoured
<1>1. IInv => RetryBudgetHonoured
  BY RelayAssumption DEF IInv, RowInv, RetryBudgetHonoured, TypeOK
<1> QED BY <1>1, Invariance, PTL

(***************************************************************************)
(* The relay implements the outbox.                                        *)
(***************************************************************************)

\* Steps after which no message is in another box and nothing is resolved.
LEMMA BoxSame ==
    ASSUME UNCHANGED <<status, done, took, dead>>
    PROVE  UNCHANGED Promised!vars
  BY DEF Promised!vars, boxBar, BoxOf, resolvedBar

LEMMA BoxFun == \A m \in Ids : boxBar[m] = BoxOf(m)
  BY DEF boxBar

LEMMA RefineInit == Init => Promised!Init
  BY DEF Init, Promised!Init, boxBar, BoxOf, resolvedBar

LEMMA RefineTake == ASSUME IInv, NEW w \in Workers, HandlerTakes(w) PROVE [Promised!Next]_(Promised!vars)
<1> DEFINE m == sweep[w].row.id
<1>1. m \in Ids /\ status[m] \in {"live", "gone"}
  BY RowFacts DEF HandlerTakes, InHand, ReadInv
<1>2. resolvedBar' = resolvedBar \cup {m} /\ boxBar' = boxBar
  BY DEF HandlerTakes, rows, resolvedBar, boxBar, BoxOf
<1>3. boxBar[m] # "none"
  BY <1>1 DEF boxBar, BoxOf
<1>4. Promised!Deliver(m)
  BY <1>2, <1>3 DEF Promised!Deliver
<1> QED BY <1>1, <1>4 DEF Promised!Next

LEMMA RefineComplete == ASSUME IInv, NEW w \in Workers, Complete(w) PROVE [Promised!Next]_(Promised!vars)
<1> DEFINE m == sweep[w].row.id
<1>1. m \in Ids /\ m \in took
  BY RowFacts, SweepFacts DEF Complete, InHand, SweepInv
<1>2. done' = [done EXCEPT ![m] = @ \/ status[m] = "live"] /\ UNCHANGED <<status, took, dead>>
  BY DEF Complete, history
<1> HIDE DEF m
<1>3. CASE status[m] = "live" /\ ~done[m]
  <2>1. boxBar' = [boxBar EXCEPT ![m] = "handled"]
    BY <1>1, <1>2, <1>3 DEF boxBar, BoxOf, IInv, TypeOK
  <2>2. boxBar[m] = "pending" /\ m \in resolvedBar /\ UNCHANGED resolvedBar
    BY <1>1, <1>2, <1>3 DEF boxBar, BoxOf, resolvedBar
  <2>3. Promised!Acknowledge(m)
    BY <2>1, <2>2 DEF Promised!Acknowledge
  <2> QED BY <1>1, <2>3 DEF Promised!Next
<1>4. CASE ~(status[m] = "live" /\ ~done[m])
  <2>1. done' = done
    BY <1>1, <1>2, <1>4 DEF IInv, TypeOK
  <2> QED BY <1>2, <2>1, BoxSame
<1> QED BY <1>3, <1>4

LEMMA RefinePark == ASSUME IInv, NEW w \in Workers, Park(w) PROVE [Promised!Next]_(Promised!vars)
<1> DEFINE m == sweep[w].row.id
<1>1. m \in Ids /\ status[m] \in {"live", "gone"}
  BY RowFacts DEF Park, InHand, ReadInv
<1>2. /\ done' = [done EXCEPT ![m] = @ \/ status[m] = "live"]
      /\ dead' = dead \cup {m} /\ UNCHANGED <<status, took>>
  BY DEF Park, history
<1> HIDE DEF m
<1>3. resolvedBar' = resolvedBar \cup {m}
  BY <1>2 DEF resolvedBar
<1>4. CASE status[m] = "live" /\ ~done[m]
  <2>1. boxBar' = [boxBar EXCEPT ![m] = "handled"]
    BY <1>1, <1>2, <1>4 DEF boxBar, BoxOf, IInv, TypeOK
  <2>2. boxBar[m] = "pending"
    BY <1>1, <1>4 DEF boxBar, BoxOf
  <2>3. Promised!Park(m)
    BY <1>3, <2>1, <2>2 DEF Promised!Park
  <2> QED BY <1>1, <2>3 DEF Promised!Next
<1>5. CASE ~(status[m] = "live" /\ ~done[m])
  <2>1. done' = done
    BY <1>1, <1>2, <1>5 DEF IInv, TypeOK
  <2>2. boxBar' = boxBar /\ boxBar[m] # "none"
    BY <1>1, <1>2, <2>1 DEF boxBar, BoxOf
  <2>3. Promised!Deliver(m)
    BY <1>3, <2>2 DEF Promised!Deliver
  <2> QED BY <1>1, <2>3 DEF Promised!Next
<1> QED BY <1>4, <1>5

LEMMA RefineCommit == ASSUME IInv, NEW m \in Ids, Commit(m) PROVE [Promised!Next]_(Promised!vars)
<1>1. ~done[m] /\ status[m] = "open"
  BY DEF Commit, EndTx, IInv, RowInv
<1>2. status' = [status EXCEPT ![m] = "live"] /\ UNCHANGED <<done, took, dead>>
  BY DEF Commit, EndTx, history
<1>3. boxBar' = [boxBar EXCEPT ![m] = "pending"] /\ boxBar[m] = "none" /\ UNCHANGED resolvedBar
  BY <1>1, <1>2 DEF boxBar, BoxOf, resolvedBar, IInv, TypeOK
<1>4. Promised!Put(m)
  BY <1>3 DEF Promised!Put
<1> QED BY <1>4 DEF Promised!Next

LEMMA RefineRollback == ASSUME IInv, NEW m \in Ids, Rollback(m) PROVE [Promised!Next]_(Promised!vars)
<1>1. status[m] = "open" /\ status' = [status EXCEPT ![m] = "void"] /\ UNCHANGED <<done, took, dead>>
  BY DEF Rollback, EndTx, history
<1>2. boxBar' = boxBar /\ UNCHANGED resolvedBar
  BY <1>1 DEF boxBar, BoxOf, resolvedBar, IInv, TypeOK
<1> QED BY <1>2 DEF Promised!vars

LEMMA RefineInsert ==
    ASSUME IInv, NEW m \in Ids, NEW t \in Topics, NEW a \in Stamps, Insert(m, t, a)
    PROVE  [Promised!Next]_(Promised!vars)
<1>1. status[m] = "free" /\ status' = [status EXCEPT ![m] = "open"] /\ UNCHANGED <<done, took, dead>>
  BY DEF Insert, history
<1>2. boxBar' = boxBar /\ UNCHANGED resolvedBar
  BY <1>1 DEF boxBar, BoxOf, resolvedBar, IInv, TypeOK
<1> QED BY <1>2 DEF Promised!vars

LEMMA RefineDelete == ASSUME IInv, CleanupDelete PROVE [Promised!Next]_(Promised!vars)
<1>1. \A m \in cleaner.ids : status[m] = "live" /\ done[m]
  BY DEF CleanupDelete, IInv, CleanerInv
<1>2. cleaner.ids \in SUBSET Ids
  BY DEF IInv, TypeOK
<1>3. /\ status' = [m \in Ids |-> IF m \in cleaner.ids THEN "gone" ELSE status[m]]
      /\ UNCHANGED <<done, took, dead>>
  BY DEF CleanupDelete, history
<1>4. boxBar' = [m \in Ids |-> IF m \in cleaner.ids THEN "removed" ELSE boxBar[m]]
  BY <1>3 DEF boxBar, BoxOf
<1>5. (\A m \in cleaner.ids : boxBar[m] = "handled") /\ UNCHANGED resolvedBar
  BY <1>1, <1>2, <1>3 DEF boxBar, BoxOf, resolvedBar
<1>6. Promised!Remove(cleaner.ids)
  BY <1>4, <1>5 DEF Promised!Remove
<1> QED BY <1>2, <1>6 DEF Promised!Next

\* The other steps of a sweep, the cleanup's reads and time change no box.
LEMMA RefineRest ==
    ASSUME NEW w \in Workers,
           \/ StartSweep(w) \/ LookBehind(w) \/ Boundary(w) \/ Forward(w) \/ Skip(w) \/ RetryLater(w)
           \/ Call(w) \/ HandlerFails(w) \/ Undecodable(w) \/ Fail(w) \/ PageDone(w) \/ Drain(w)
           \/ Finish(w) \/ Abort(w)
    PROVE  UNCHANGED Promised!vars
<1>1. UNCHANGED <<status, done, took, dead>>
  BY DEF StartSweep, LookBehind, Boundary, Forward, Skip, RetryLater, Call, HandlerFails, Undecodable,
         Fail, PageDone, Drain, Finish, Abort, QueryFrame, rows, history
<1> QED BY <1>1, BoxSame

LEMMA RefineNext == IInv /\ [Next]_vars => [Promised!Next]_(Promised!vars)
<1> SUFFICES ASSUME IInv, [Next]_vars PROVE [Promised!Next]_(Promised!vars)
  OBVIOUS
<1>1. CASE \E m \in Ids, t \in Topics, a \in Stamps : Insert(m, t, a)
  BY <1>1, RefineInsert
<1>2. CASE \E m \in Ids : Commit(m) \/ Rollback(m)
  BY <1>2, RefineCommit, RefineRollback
<1>3. CASE Settle \/ (\E m \in Ids : RetryDue(m)) \/ (\E c \in Stamps : CleanupStart(c)) \/ CleanupSelect
           \/ UNCHANGED vars
  <2>1. UNCHANGED <<status, done, took, dead>>
    BY <1>3 DEF Settle, RetryDue, CleanupStart, CleanupSelect, vars, rows, history
  <2> QED BY <2>1, BoxSame
<1>4. CASE \E w \in Workers : SweepStep(w) \/ Abort(w)
  <2>1. PICK w \in Workers : SweepStep(w) \/ Abort(w)
    BY <1>4
  <2>2. CASE HandlerTakes(w)
    BY <2>2, RefineTake
  <2>3. CASE Complete(w)
    BY <2>3, RefineComplete
  <2>4. CASE Park(w)
    BY <2>4, RefinePark
  <2>5. CASE ~(HandlerTakes(w) \/ Complete(w) \/ Park(w))
    BY <2>1, <2>5, RefineRest DEF SweepStep
  <2> QED BY <2>2, <2>3, <2>4, <2>5
<1>5. CASE CleanupDelete
  BY <1>5, RefineDelete
<1> QED BY <1>1, <1>2, <1>3, <1>4, <1>5 DEF Next

\* The relay, with its scans, retries, crashes and cleanup, implements the
\* outbox: pending, then resolved and acknowledged, then perhaps removed.
THEOREM OutboxRefined == Spec => ImplementsOutbox
  BY Invariance, RefineInit, RefineNext, PTL DEF Spec, ImplementsOutbox, Promised!Spec

(***************************************************************************)
(* One process.  What a sweep reads then stays as it was read, because only*)
(* it acknowledges rows of its topic and moves the topic's watermark.  The *)
(* code asks for a single process that runs the workers, and HeadOfLine and*)
(* ScanIsFinal are false without it.                                       *)
(***************************************************************************)
OneProcess == \A p, q \in Procs : p = q

Paging == InHand \cup {"row"}
IdsOf(page) == {r.id : r \in page}

\* The rows a sweep must not pass: committed when it began, not acknowledged.
Owed(s) == {m \in s.seen : ~done[m]}

\* How many rows of the topic stand before a row, from a stamp on.
Rank(w, ts, m) == Cardinality({n \in scope(w) : at[n] >= ts /\ Before(n, m)})

\* The page is of the sweep's topic and still as it was read, and the row in
\* hand is its first.
PageInv(w, s) ==
    /\ \A r \in s.page : topic[r.id] = TopicOf(w) /\ (r.done <=> done[r.id])
    /\ \A q, r \in s.page : q.id = r.id => q = r
    /\ s.pc \in InHand => IsHead(s.row, s.page)

\* The stored watermark is the one the sweep works with.
MarkInv(w, s) ==
    /\ s.pc # "idle" => s.mark = marks[TopicOf(w)]
    /\ s.pc # "idle" /\ s.stage < 2 => IsSet(s.mark)
    /\ s.stage < 2 => s.off = 0

SeenInv(w, s) == \A m \in s.seen : status[m] \in {"live", "gone"} /\ topic[m] = TopicOf(w)

\* Behind the watermark: what is owed there is on the page or after it.
BehindInv(s) ==
    s.stage = 0 /\ s.pc \in Paging \cup {"behind"} =>
        /\ s.cand = s.mark
        /\ \A r \in s.page : covers(s.mark, at[r.id], r.id)
        /\ \A m \in Owed(s) : covers(s.mark, at[m], m) =>
              m \in IdsOf(s.page) \/ \A q \in s.page : Before(q.id, m)

\* On the watermark's stamp: what is owed is on the page, beyond its last
\* row, of which there are some only if the page is full, or at a later stamp.
BoundaryScan(s) ==
    s.stage = 1 /\ s.pc \in Paging \cup {"boundary"} =>
        /\ s.cand.at = s.mark.at
        /\ \A r \in s.page : at[r.id] = s.mark.at
        /\ \A m \in Owed(s) :
              \/ m \in IdsOf(s.page)
              \/ at[m] > s.mark.at
              \/ /\ at[m] = s.mark.at /\ m > s.last
                 /\ \A q \in s.page : Before(q.id, m)
                 /\ s.pc = "boundary" \/ s.full

\* Forward: the offset never counts a row that is owed.
ForwardScan(w, s) ==
    s.stage = 2 /\ s.pc \in Paging \cup {"forward"} =>
        /\ s.cand.at <= s.ts /\ s.mark.at <= s.ts
        /\ s.strict => s.off = 0 /\ s.pc = "forward"
        /\ \A r \in s.page : r.id \in scope(w) /\ at[r.id] >= s.ts
        /\ \A m \in Owed(s) :
              \/ m \in IdsOf(s.page)
              \/ /\ at[m] >= s.ts /\ (s.strict => at[m] > s.ts)
                 /\ \A q \in s.page : Before(q.id, m)
                 /\ Rank(w, s.ts, m) >= s.off + Cardinality(IdsOf(s.page))

ScanInv(w, s) ==
    /\ PageInv(w, s) /\ MarkInv(w, s) /\ SeenInv(w, s)
    /\ BehindInv(s) /\ BoundaryScan(s) /\ ForwardScan(w, s)

\* The cleanup's cutoff lies at or before every watermark.
CutoffInv ==
    /\ cleaner.pc # "idle" => \A t \in Served : IsSet(marks[t]) /\ cleaner.cutoff <= marks[t].at
    /\ cleaner.pc = "delete" => \A m \in cleaner.ids : at[m] < cleaner.cutoff

TopicsInv == IsFiniteSet(Live) /\ \A t \in Topics \ Served : marks[t] = NoMark

OneInv == TopicsInv /\ CutoffInv /\ \A w \in Workers : ScanInv(w, sweep[w])

(***************************************************************************)
(* Ranks and slices of a finite set of rows.                               *)
(***************************************************************************)
LEMMA BeforeOrder ==
    ASSUME TypeOK, NEW m \in Ids, NEW n \in Ids
    PROVE  /\ m = n \/ Before(m, n) \/ Before(n, m)
           /\ ~Before(m, m)
           /\ Before(m, n) => ~Before(n, m)
           /\ at[m] <= at[n] \/ ~Before(m, n)
           /\ \A k \in Ids : Before(m, n) /\ Before(n, k) => Before(m, k)
  BY RelayAssumption DEF TypeOK, Stamps, Before

RankIn(S, m) == Cardinality({n \in S : Before(n, m)})

LEMMA RankOrder ==
    ASSUME TypeOK, NEW S, S \subseteq Ids, IsFiniteSet(S), NEW m \in S
    PROVE  /\ RankIn(S, m) \in Nat
           /\ RankIn(S, m) < Cardinality(S)
           /\ \A q \in S : /\ Before(q, m) => RankIn(S, q) < RankIn(S, m)
                           /\ RankIn(S, q) < RankIn(S, m) => Before(q, m)
                           /\ RankIn(S, q) = RankIn(S, m) => q = m
<1> DEFINE P(x) == {n \in S : Before(n, x)}
<1>1. ASSUME NEW x \in S PROVE IsFiniteSet(P(x)) /\ Cardinality(P(x)) \in Nat /\ Cardinality(P(x)) < Cardinality(S)
  <2>1. P(x) \in SUBSET S /\ x \notin P(x)
    BY <1>1, BeforeOrder
  <2>2. IsFiniteSet(P(x)) /\ Cardinality(P(x)) <= Cardinality(S) /\ Cardinality(S) # Cardinality(P(x))
    BY <2>1, FS_Subset
  <2>3. Cardinality(P(x)) \in Nat /\ Cardinality(S) \in Nat
    BY <2>2, FS_CardinalityType
  <2> QED BY <2>2, <2>3
<1>2. ASSUME NEW x \in S, NEW y \in S, Before(x, y) PROVE Cardinality(P(x)) < Cardinality(P(y))
  <2>1. P(x) \in SUBSET P(y) /\ x \in P(y) /\ x \notin P(x)
    BY <1>2, BeforeOrder
  <2>2. Cardinality(P(x)) <= Cardinality(P(y)) /\ Cardinality(P(y)) # Cardinality(P(x))
    BY <1>1, <2>1, FS_Subset
  <2>3. Cardinality(P(x)) \in Nat /\ Cardinality(P(y)) \in Nat
    BY <1>1
  <2> QED BY <2>2, <2>3
<1>3. \A x \in S : RankIn(S, x) = Cardinality(P(x))
  BY DEF RankIn
<1>4. ASSUME NEW q \in S
      PROVE  /\ Before(q, m) => RankIn(S, q) < RankIn(S, m)
             /\ RankIn(S, q) < RankIn(S, m) => Before(q, m)
             /\ RankIn(S, q) = RankIn(S, m) => q = m
  <2> HIDE DEF P
  <2>1. q = m \/ Before(q, m) \/ Before(m, q)
    BY BeforeOrder
  <2>2. RankIn(S, q) \in Nat /\ RankIn(S, m) \in Nat
    BY <1>1, <1>3
  <2>3. Before(q, m) => RankIn(S, q) < RankIn(S, m)
    BY <1>2, <1>3
  <2>4. Before(m, q) => RankIn(S, m) < RankIn(S, q)
    BY <1>2, <1>3
  <2> QED BY <2>1, <2>2, <2>3, <2>4
<1> HIDE DEF P
<1> QED BY <1>1, <1>3, <1>4

\* A page has at most Batch rows.
LEMMA SliceSize ==
    ASSUME TypeOK, NEW S, S \subseteq Ids, IsFiniteSet(S), NEW off \in Nat
    PROVE  /\ IsFiniteSet(Slice(S, off)) /\ Cardinality(Slice(S, off)) \in Nat
           /\ Cardinality(Slice(S, off)) <= Batch
<1> DEFINE T == Slice(S, off)
           b == off + Batch - 1
           f == [m \in T |-> RankIn(S, m)]
<1>1. ASSUME NEW m \in T PROVE m \in S /\ RankIn(S, m) \in off .. b
  <2>1. m \in S /\ off <= RankIn(S, m) /\ RankIn(S, m) < off + Batch
    BY DEF Slice, RankIn
  <2>2. RankIn(S, m) \in Nat
    BY <2>1, RankOrder
  <2> QED BY <2>1, <2>2, RelayAssumption
<1>2. b \in Int /\ ~(off > b) /\ b - off + 1 = Batch
  BY RelayAssumption
<1>3. \A x, y \in T : RankIn(S, x) = RankIn(S, y) => x = y
  BY <1>1, RankOrder
<1> HIDE DEF T, b
<1>4. f \in Injection(T, off .. b)
  BY <1>1, <1>3 DEF Injection, IsInjective
<1>5. IsFiniteSet(off .. b) /\ Cardinality(off .. b) = Batch
  BY <1>2, FS_Interval
<1> HIDE DEF f
<1>6. IsFiniteSet(T) /\ Cardinality(T) <= Cardinality(off .. b)
  BY <1>4, <1>5, FS_Injection
<1> QED BY <1>5, <1>6, FS_CardinalityType DEF T

\* A row beyond the first page means that the page is full.
LEMMA SliceFull ==
    ASSUME TypeOK, NEW S, S \subseteq Ids, IsFiniteSet(S), NEW m \in S, RankIn(S, m) >= Batch
    PROVE  Cardinality(Slice(S, 0)) = Batch
<1> DEFINE c == Cardinality(S) - 1
           f == [x \in S |-> RankIn(S, x)]
           T == Slice(S, 0)
           b == Batch - 1
           g == [x \in T |-> RankIn(S, x)]
<1>1. Cardinality(S) \in Nat
  BY FS_CardinalityType
<1>2. \A x \in S : RankIn(S, x) \in Nat /\ RankIn(S, x) < Cardinality(S)
  BY RankOrder
<1>3. c \in Nat /\ c >= Batch /\ c - 0 + 1 = Cardinality(S) /\ \A x \in S : RankIn(S, x) \in 0 .. c
  <2>1. RankIn(S, m) \in Nat /\ RankIn(S, m) < Cardinality(S) /\ Batch \in Nat
    BY <1>2, RelayAssumption
  <2>2. c \in Nat /\ c >= Batch /\ c - 0 + 1 = Cardinality(S)
    BY <1>1, <2>1
  <2> QED BY <1>1, <1>2, <2>2
<1>4. \A x, y \in S : RankIn(S, x) = RankIn(S, y) => x = y
  BY RankOrder
<1>5. \A x \in S : x \in T <=> RankIn(S, x) < Batch
  <2>1. \A x \in S : x \in T <=> 0 <= RankIn(S, x) /\ RankIn(S, x) < 0 + Batch
    BY DEF Slice, RankIn
  <2> QED BY <1>2, <2>1, RelayAssumption
<1>6. T \subseteq S
  BY SliceSubset
<1>7. b \in Int /\ ~(0 > b) /\ b - 0 + 1 = Batch /\ \A x \in T : RankIn(S, x) \in 0 .. b
  <2>1. Batch \in Nat \ {0} /\ \A x \in T : RankIn(S, x) \in Nat /\ RankIn(S, x) < Batch
    BY <1>2, <1>5, <1>6, RelayAssumption
  <2> HIDE DEF T
  <2> QED BY <2>1
<1>8. \A i \in 0 .. b : i \in 0 .. c /\ i < Batch
  BY <1>3, RelayAssumption
<1> HIDE DEF c, T, b
<1>9. f \in Injection(S, 0 .. c)
  BY <1>3, <1>4 DEF Injection, IsInjective
<1>10. IsFiniteSet(0 .. c) /\ Cardinality(0 .. c) = Cardinality(S)
  <2>1. c \in Int /\ ~(0 > c)
    BY <1>3
  <2> QED BY <1>3, <2>1, FS_Interval
<1>11. f \in Surjection(S, 0 .. c)
  <2> HIDE DEF f
  <2> QED BY <1>9, <1>10, FS_Injection
<1>12. \A i \in 0 .. b : \E x \in T : g[x] = i
  <2> TAKE i \in 0 .. b
  <2>1. PICK x \in S : f[x] = i
    BY <1>8, <1>11 DEF Surjection
  <2> QED BY <1>5, <1>8, <2>1
<1>13. g \in [T -> 0 .. b] /\ \A x, y \in T : g[x] = g[y] => x = y
  BY <1>4, <1>6, <1>7
<1>14. g \in Injection(T, 0 .. b) /\ g \in Surjection(T, 0 .. b)
  <2> HIDE DEF g
  <2> QED BY <1>12, <1>13 DEF Injection, Surjection, IsInjective
<1>15. IsFiniteSet(0 .. b) /\ Cardinality(0 .. b) = Batch
  BY <1>7, FS_Interval
<1> HIDE DEF g
<1>16. Cardinality(T) = Cardinality(0 .. b)
  BY <1>14, <1>15, FS_Injection
<1> QED BY <1>15, <1>16 DEF T

(***************************************************************************)
(* What other actors do to a sweep's topic: commits add rows, the cleanup  *)
(* removes acknowledged ones before the watermark.                         *)
(***************************************************************************)
Committed(m) == status[m] \in {"live", "gone"}

TopicKept(w) ==
    /\ marks'[TopicOf(w)] = marks[TopicOf(w)]
    /\ IsFiniteSet(Live')
    /\ \A m \in Ids : Committed(m) =>
          /\ Committed(m)' /\ at'[m] = at[m] /\ topic'[m] = topic[m]
          /\ topic[m] = TopicOf(w) => (done'[m] <=> done[m])
    /\ \A m \in scope(w) : at[m] >= marks[TopicOf(w)].at => m \in scope(w)'

LEMMA SweepRows ==
    ASSUME IInv, NEW s \in Sweep, SweepInv(s)
    PROVE  /\ \A r \in s.page : r \in PageRow /\ r.id \in Ids /\ Committed(r.id)
           /\ s.seen \subseteq Ids
           /\ s.pc \in InHand => s.row \in s.page
  BY DEF Sweep, PageRow, SweepInv, ReadInv, Committed

LEMMA ScanKept ==
    ASSUME IInv, IInv', IsFiniteSet(Live), NEW w \in Workers, NEW CONSTANT s \in Sweep, SweepInv(s),
           ScanInv(w, s), TopicKept(w)
    PROVE  ScanInv(w, s)'
<1>1. \A m, n \in Ids : Committed(m) /\ Committed(n) => (Before(m, n)' <=> Before(m, n))
  BY DEF TopicKept, Before
<1>2. \A r \in s.page : r.id \in Ids /\ Committed(r.id) /\ topic[r.id] = TopicOf(w)
  BY SweepRows DEF ScanInv, PageInv
<1>3. \A m \in s.seen : m \in Ids /\ Committed(m) /\ topic[m] = TopicOf(w)
  BY SweepRows DEF ScanInv, SeenInv, Committed
<1>4. PageInv(w, s)'
  <2>1. \A r \in s.page : topic'[r.id] = TopicOf(w) /\ (r.done <=> done'[r.id])
    BY <1>2 DEF TopicKept, ScanInv, PageInv
  <2>2. s.pc \in InHand => IsHead(s.row, s.page)'
    BY <1>1, <1>2, SweepRows DEF ScanInv, PageInv, IsHead
  <2> QED BY <2>1, <2>2 DEF ScanInv, PageInv
<1>5. MarkInv(w, s)'
  BY DEF ScanInv, MarkInv, TopicKept
<1>6. SeenInv(w, s)'
  BY <1>3 DEF TopicKept, Committed, SeenInv
<1>7. \A m \in Owed(s)' : m \in Owed(s)
  BY <1>3 DEF Owed, TopicKept
<1>8. \A m \in s.seen : at'[m] = at[m] /\ (\A q \in s.page : Before(q.id, m)' <=> Before(q.id, m))
  BY <1>1, <1>2, <1>3 DEF TopicKept
<1>9. \A r \in s.page : at'[r.id] = at[r.id]
  BY <1>2 DEF TopicKept
<1>10. Owed(s)' \subseteq s.seen
  BY DEF Owed
<1>11. BehindInv(s)'
  BY <1>7, <1>8, <1>9, <1>10 DEF ScanInv, BehindInv
<1>12. BoundaryScan(s)'
  BY <1>7, <1>8, <1>9, <1>10 DEF ScanInv, BoundaryScan
<1>13. ForwardScan(w, s)'
  <2> SUFFICES ASSUME s.stage = 2, s.pc \in Paging \cup {"forward"}
               PROVE  ForwardScan(w, s)'
    BY DEF ForwardScan
  <2>1. s.mark.at <= s.ts /\ s.mark = marks[TopicOf(w)] /\ s.mark.at \in Int /\ s.ts \in Int
    BY RelayAssumption DEF ScanInv, ForwardScan, MarkInv, Paging, InHand, Sweep, Mark, NoMark, Stamps
  <2>2. \A n \in scope(w) : n \in Ids /\ Committed(n) /\ at[n] \in Int /\ at'[n] = at[n]
    BY RelayAssumption DEF scope, Live, Committed, TopicKept, IInv, TypeOK, Stamps
  <2>3. \A n \in scope(w) : at[n] >= s.ts => n \in scope(w)'
    BY <2>1, <2>2 DEF TopicKept
  <2>4. \A r \in s.page : r.id \in scope(w)' /\ at'[r.id] >= s.ts
    BY <1>9, <2>3 DEF ScanInv, ForwardScan
  <2>5. ASSUME NEW m \in s.seen PROVE Rank(w, s.ts, m)' >= Rank(w, s.ts, m) /\ Rank(w, s.ts, m) \in Int /\ Rank(w, s.ts, m)' \in Int
    <3> DEFINE A == {n \in scope(w) : at[n] >= s.ts /\ Before(n, m)}
               B == {n \in scope(w)' : at'[n] >= s.ts /\ Before(n, m)'}
    <3>1. A \subseteq B
      BY <1>1, <1>3, <2>2, <2>3
    <3>2. IsFiniteSet(B)
      <4>1. B \in SUBSET (Live')
        BY DEF scope
      <4> QED BY <4>1, FS_Subset DEF TopicKept
    <3>3. IsFiniteSet(A) /\ Cardinality(A) <= Cardinality(B)
      BY <3>1, <3>2, FS_Subset
    <3>4. Cardinality(A) \in Nat /\ Cardinality(B) \in Nat
      BY <3>2, <3>3, FS_CardinalityType
    <3>5. Rank(w, s.ts, m) = Cardinality(A) /\ Rank(w, s.ts, m)' = Cardinality(B)
      BY DEF Rank
    <3> QED BY <3>3, <3>4, <3>5
  <2>6. ASSUME NEW m \in Owed(s)', m \notin IdsOf(s.page)
        PROVE  /\ at'[m] >= s.ts /\ (s.strict => at'[m] > s.ts)
               /\ \A q \in s.page : Before(q.id, m)'
               /\ Rank(w, s.ts, m)' >= s.off + Cardinality(IdsOf(s.page))
    <3>1. m \in Owed(s) /\ m \in s.seen
      BY <1>7, <1>10
    <3>2. /\ at[m] >= s.ts /\ (s.strict => at[m] > s.ts)
          /\ \A q \in s.page : Before(q.id, m)
          /\ Rank(w, s.ts, m) >= s.off + Cardinality(IdsOf(s.page))
      BY <2>6, <3>1 DEF ScanInv, ForwardScan
    <3>3. s.off + Cardinality(IdsOf(s.page)) \in Int
      <4>1. IdsOf(s.page) \in SUBSET Live
        BY DEF ScanInv, ForwardScan, IdsOf, scope
      <4>2. Cardinality(IdsOf(s.page)) \in Nat
        BY <4>1, FS_Subset, FS_CardinalityType
      <4> QED BY <4>2 DEF Sweep
    <3> QED BY <1>8, <2>5, <3>1, <3>2, <3>3
  <2>7. /\ s.cand.at <= s.ts /\ s.mark.at <= s.ts
        /\ s.strict => s.off = 0 /\ s.pc = "forward"
    BY DEF ScanInv, ForwardScan
  <2> QED BY <2>4, <2>6, <2>7 DEF ForwardScan
<1> QED BY <1>4, <1>5, <1>6, <1>11, <1>12, <1>13 DEF ScanInv

\* A step that leaves rows and watermarks alone.
LEMMA ScanFrame ==
    ASSUME UNCHANGED <<status, topic, at, done, marks>>, NEW w \in Workers, NEW CONSTANT s,
           ScanInv(w, s)
    PROVE  ScanInv(w, s)'
<1>1. scope(w)' = scope(w)
  BY DEF scope, Live
<1>2. \A m, n : Before(m, n)' = Before(m, n)
  BY DEF Before
<1>3. \A ts, m : Rank(w, ts, m)' = Rank(w, ts, m)
  BY <1>1, <1>2 DEF Rank
<1>4. PageInv(w, s)' /\ MarkInv(w, s)' /\ SeenInv(w, s)'
  BY <1>2 DEF ScanInv, PageInv, MarkInv, SeenInv, IsHead
<1>5. Owed(s)' = Owed(s)
  BY DEF Owed
<1>6. BehindInv(s)' /\ BoundaryScan(s)'
  BY <1>2, <1>5 DEF ScanInv, BehindInv, BoundaryScan
<1>7. ForwardScan(w, s)'
  BY <1>1, <1>2, <1>3, <1>5 DEF ScanInv, ForwardScan
<1> QED BY <1>4, <1>6, <1>7 DEF ScanInv

\* A watermark stays or moves on.
MarkMoves(w) ==
    \E k \in Mark :
        /\ marks' = [marks EXCEPT ![TopicOf(w)] = k]
        /\ k = marks[TopicOf(w)] \/ (IsSet(k) /\ after(marks[TopicOf(w)], k.at, k.id))

\* A step of one sweep keeps the invariant of all.
LEMMA OneStep ==
    ASSUME OneProcess, IInv, IInv', OneInv, NEW w \in Workers, NEW CONSTANT s \in Sweep, Set(w, s),
           ScanInv(w, s)', UNCHANGED <<status, topic, at, cleaner>>, MarkMoves(w),
           \A m \in Ids : topic[m] # TopicOf(w) => (done'[m] <=> done[m])
    PROVE  OneInv'
<1>1. PICK k \in Mark :
        /\ marks' = [marks EXCEPT ![TopicOf(w)] = k]
        /\ k = marks[TopicOf(w)] \/ (IsSet(k) /\ after(marks[TopicOf(w)], k.at, k.id))
  BY DEF MarkMoves
<1>2. TopicOf(w) \in Served /\ TopicOf(w) \in Topics
  BY RelayAssumption DEF Workers, TopicOf
<1>3. \A t \in Topics : marks'[t] = IF t = TopicOf(w) THEN k ELSE marks[t]
  BY <1>1 DEF IInv, TypeOK
<1>4. TopicsInv'
  BY <1>2, <1>3 DEF OneInv, TopicsInv, Live
<1>5. CutoffInv'
  <2>1. \A t \in Served : IsSet(marks[t]) /\ cleaner.cutoff <= marks[t].at => IsSet(marks'[t]) /\ cleaner.cutoff <= marks'[t].at
    <3> SUFFICES ASSUME NEW t \in Served, IsSet(marks[t]), cleaner.cutoff <= marks[t].at
                 PROVE  IsSet(marks'[t]) /\ cleaner.cutoff <= marks'[t].at
      OBVIOUS
    <3>1. t \in Topics
      BY RelayAssumption
    <3>2. cleaner.cutoff \in Int /\ marks[t] \in Mark
      BY <3>1, RelayAssumption DEF IInv, TypeOK, Stamps
    <3>3. marks[t].at \in Int /\ k.at \in Int
      BY <3>2, RelayAssumption DEF Mark, NoMark, Stamps
    <3> QED BY <1>1, <1>3, <3>1, <3>2, <3>3 DEF after, covers, IsSet
  <2> QED BY <2>1 DEF OneInv, CutoffInv
<1>6. ASSUME NEW v \in Workers PROVE ScanInv(v, sweep[v])'
  <2>1. sweep'[v] = IF v = w THEN s ELSE sweep[v]
    BY DEF Set, IInv, TypeOK
  <2>2. CASE v = w
    BY <2>1, <2>2
  <2>3. CASE v # w
    <3>1. TopicOf(v) # TopicOf(w) /\ TopicOf(v) \in Topics
      BY <2>3, RelayAssumption DEF OneProcess, Workers, TopicOf
    <3>2. TopicKept(v)
      <4>1. scope(v)' = scope(v) /\ Live' = Live
        BY DEF scope, Live
      <4>2. \A m \in Ids : Committed(m)' <=> Committed(m)
        BY DEF Committed
      <4> QED BY <1>3, <3>1, <4>1, <4>2 DEF TopicKept, OneInv, TopicsInv
    <3>3. sweep[v] \in Sweep /\ SweepInv(sweep[v]) /\ ScanInv(v, sweep[v]) /\ IsFiniteSet(Live)
      BY DEF IInv, TypeOK, OneInv, TopicsInv
    <3>4. PICK z \in Sweep : z = sweep[v]
      BY <3>3
    <3>5. ScanInv(v, z)'
      BY <3>2, <3>3, <3>4, ScanKept
    <3> QED BY <2>1, <2>3, <3>4, <3>5
  <2> QED BY <2>2, <2>3
<1> QED BY <1>4, <1>5, <1>6 DEF OneInv

LEMMA MarksStay ==
    ASSUME IInv, NEW w \in Workers, UNCHANGED marks
    PROVE  MarkMoves(w)
<1>1. marks[TopicOf(w)] \in Mark
  BY SweepFacts DEF IInv, TypeOK
<1>2. marks' = [marks EXCEPT ![TopicOf(w)] = marks[TopicOf(w)]]
  BY DEF IInv, TypeOK
<1> QED BY <1>1, <1>2 DEF MarkMoves

LEMMA OneQuery ==
    ASSUME OneProcess, IInv, IInv', OneInv, NEW w \in Workers, NEW CONSTANT s \in Sweep, Set(w, s),
           ScanInv(w, s), UNCHANGED <<rows, marks, cleaner>>
    PROVE  OneInv'
<1>1. UNCHANGED <<status, topic, at, done, marks, cleaner>>
  BY DEF rows
<1> QED BY <1>1, ScanFrame, OneStep, MarksStay

LEMMA RankNat ==
    ASSUME IsFiniteSet(Live), NEW w \in Workers
    PROVE  /\ IsFiniteSet(scope(w)) /\ scope(w) \subseteq Ids
           /\ \A ts, m : Rank(w, ts, m) \in Nat
<1>1. IsFiniteSet(scope(w)) /\ scope(w) \subseteq Ids
  BY FS_Subset DEF scope, Live
<1>2. ASSUME NEW ts, NEW m PROVE Rank(w, ts, m) \in Nat
  <2>1. {n \in scope(w) : at[n] >= ts /\ Before(n, m)} \in SUBSET scope(w)
    OBVIOUS
  <2> QED BY <1>1, <2>1, FS_Subset, FS_CardinalityType DEF Rank
<1> QED BY <1>1, <1>2

LEMMA NoIds == IdsOf({}) = {} /\ Cardinality(IdsOf({})) = 0
<1>1. IdsOf({}) = {}
  BY DEF IdsOf
<1> QED BY <1>1, FS_EmptySet

\* A sweep past its scans, or none: nothing is delivered any more.
LEMMA ScanOver ==
    ASSUME NEW w \in Workers, NEW s \in Sweep, NEW t \in Sweep, ScanInv(w, s),
           s.pc # "idle", t.pc \in {"drain", "finish"}, t.page = {}, t.mark = marks[TopicOf(w)],
           t.stage = s.stage, t.off = s.off, t.seen = s.seen
    PROVE  ScanInv(w, t)
  BY DEF ScanInv, PageInv, MarkInv, SeenInv, BehindInv, BoundaryScan, ForwardScan, Paging, InHand

LEMMA ScanIdle == ASSUME NEW w \in Workers PROVE ScanInv(w, Idle)
  BY DEF Idle, ScanInv, PageInv, MarkInv, SeenInv, BehindInv, BoundaryScan, ForwardScan, Paging, InHand

LEMMA ScanIdleNext == ASSUME NEW w \in Workers PROVE ScanInv(w, Idle)'
  BY DEF Idle, NoMark, NoRow, ScanInv, PageInv, MarkInv, SeenInv, BehindInv, BoundaryScan, ForwardScan, Paging,
         InHand

LEMMA StartSweepOne ==
    ASSUME OneProcess, IInv, IInv', OneInv, NEW w \in Workers, StartSweep(w)
    PROVE  OneInv'
<1> DEFINE k == marks[TopicOf(w)]
           s == [Idle EXCEPT !.pc = IF IsSet(k) THEN "behind" ELSE "forward",
                             !.stage = IF IsSet(k) THEN 0 ELSE 2,
                             !.mark = k, !.cand = k, !.cutoff = settled, !.seen = scope(w)]
<1>1. Set(w, s) /\ UNCHANGED <<rows, marks, cleaner>>
  BY DEF StartSweep, QueryFrame
<1>2. s \in Sweep
  BY <1>1 DEF Set, IInv, TypeOK
<1>3. ScanInv(w, s)
  <2>1. /\ s.page = {} /\ s.seen = scope(w) /\ s.mark = k /\ s.cand = k /\ s.off = 0 /\ s.ts = -1
        /\ s.strict = FALSE /\ s.pc = (IF IsSet(k) THEN "behind" ELSE "forward")
        /\ s.stage = (IF IsSet(k) THEN 0 ELSE 2)
    BY DEF Idle
  <2>2. \A m \in scope(w) : m \in Ids /\ status[m] = "live" /\ topic[m] = TopicOf(w) /\ at[m] \in Nat
    BY RelayAssumption DEF scope, Live, IInv, TypeOK, Stamps
  <2> HIDE DEF s, k
  <2>3. PageInv(w, s) /\ SeenInv(w, s) /\ BoundaryScan(s) /\ BehindInv(s)
    BY <2>1, <2>2 DEF PageInv, SeenInv, BoundaryScan, BehindInv, InHand, Paging
  <2>4. MarkInv(w, s)
    BY <2>1 DEF MarkInv, k
  <2>5. ForwardScan(w, s)
    <3>1. \A m \in Owed(s) : at[m] >= s.ts /\ Rank(w, s.ts, m) >= s.off + Cardinality(IdsOf(s.page))
      BY <2>1, <2>2, RankNat, NoIds DEF Owed, OneInv, TopicsInv
    <3>2. ~IsSet(k) => k.at <= s.ts
      BY <2>1 DEF IsSet
    <3> QED BY <2>1, <3>1, <3>2 DEF ForwardScan, Paging, InHand
  <2> QED BY <2>3, <2>4, <2>5 DEF ScanInv
<1> HIDE DEF s
<1>4. PICK z \in Sweep : z = s
  BY <1>2
<1> QED BY <1>1, <1>3, <1>4, OneQuery

\* What comes after a page, in the set the page was cut from.
LEMMA PageCut ==
    ASSUME TypeOK, NEW S, S \subseteq Ids, IsFiniteSet(S), NEW off \in Nat,
           NEW m \in S, m \notin Slice(S, off), RankIn(S, m) >= off
    PROVE  /\ RankIn(S, m) >= off + Batch
           /\ \A q \in Slice(S, off) : Before(q, m)
<1>1. RankIn(S, m) \in Nat
  BY RankOrder
<1>2. RankIn(S, m) >= off + Batch
  BY <1>1, RelayAssumption DEF Slice, RankIn
<1>3. ASSUME NEW q \in Slice(S, off) PROVE Before(q, m)
  <2>1. q \in S /\ RankIn(S, q) < off + Batch
    BY DEF Slice, RankIn
  <2>2. RankIn(S, q) \in Nat
    BY <2>1, RankOrder
  <2>3. RankIn(S, q) < RankIn(S, m)
    BY <1>1, <1>2, <2>1, <2>2, RelayAssumption
  <2> QED BY <2>1, <2>3, RankOrder
<1> QED BY <1>2, <1>3

\* A page as it has just been read.
LEMMA FreshPage ==
    ASSUME IInv, NEW w \in Workers, NEW S, S \subseteq scope(w)
    PROVE  /\ IdsOf(ReadPage(S)) = S
           /\ \A r \in ReadPage(S) : r.id \in S /\ topic[r.id] = TopicOf(w) /\ (r.done <=> done[r.id])
           /\ \A q, r \in ReadPage(S) : q.id = r.id => q = r
<1>1. \A m : ReadRow(m).id = m /\ ReadRow(m).done = done[m]
  BY DEF ReadRow
<1>2. \A r \in ReadPage(S) : \E m \in S : r = ReadRow(m)
  BY DEF ReadPage
<1>3. \A m \in S : ReadRow(m) \in ReadPage(S)
  BY DEF ReadPage
<1>4. \A m \in S : topic[m] = TopicOf(w)
  BY DEF scope
<1>5. IdsOf(ReadPage(S)) = S
  BY <1>1, <1>2, <1>3 DEF IdsOf
<1> QED BY <1>1, <1>2, <1>4, <1>5

LEMMA MarkInts == \A k \in Mark : k.at \in Int /\ k.id \in Int /\ k.at >= -1
<1>0. \A i \in Ids : i \in Int
  BY RelayAssumption
<1> SUFFICES ASSUME NEW k \in Mark PROVE k.at \in Int /\ k.id \in Int /\ k.at >= -1
  OBVIOUS
<1>1. CASE k \in [at : Stamps, id : Ids]
  <2>1. k.at \in Stamps /\ k.id \in Ids
    BY <1>1
  <2>2. k.id \in Int
    BY <1>0, <2>1
  <2>3. k.at \in Int /\ k.at >= -1
    BY <2>1, RelayAssumption DEF Stamps
  <2> QED BY <2>2, <2>3
<1>2. CASE k = NoMark
  BY <1>2 DEF NoMark
<1> QED BY <1>1, <1>2 DEF Mark

\* What is owed is still in its topic: only acknowledged rows are removed.
LEMMA OwedStands ==
    ASSUME IInv, NEW w \in Workers, NEW s \in Sweep, SeenInv(w, s)
    PROVE  /\ Owed(s) \subseteq scope(w)
           /\ \A m \in Owed(s) : m \in Ids /\ m \in Nat /\ at[m] \in Nat /\ ~done[m]
<1>1. ASSUME NEW m \in Owed(s) PROVE m \in Ids /\ ~done[m] /\ status[m] \in {"live", "gone"} /\ topic[m] = TopicOf(w)
  BY DEF Owed, Sweep, SeenInv
<1>2. \A m \in Ids : m \in Nat /\ at[m] \in Nat /\ (status[m] = "gone" => done[m])
  BY RelayAssumption DEF IInv, TypeOK, Stamps, RowInv
<1> QED BY <1>1, <1>2 DEF scope, Live

\* A sweep that has just loaded its page.
LEMMA PageLoaded ==
    ASSUME IInv, OneInv, NEW w \in Workers, NEW S, S \subseteq scope(w), NEW t \in Sweep,
           t.pc = "row", t.page = ReadPage(S)
    PROVE  PageInv(w, t) /\ IdsOf(t.page) = S /\ \A r \in t.page : r.id \in S
  BY FreshPage DEF PageInv, InHand

LEMMA LookBehindOne ==
    ASSUME OneProcess, IInv, IInv', OneInv, NEW w \in Workers, LookBehind(w)
    PROVE  OneInv'
<1> DEFINE s == sweep[w]
           P == Pending(w)
           S == Slice(P, 0)
<1>1. /\ s \in Sweep /\ SweepInv(s) /\ ScanInv(w, s) /\ s.pc = "behind" /\ s.stage = 0 /\ s.page = {}
      /\ s.mark = marks[TopicOf(w)] /\ IsSet(s.mark) /\ s.cand = s.mark /\ s.mark \in Mark
      /\ SeenInv(w, s) /\ s.off = 0
  BY SweepFacts DEF LookBehind, SweepInv, OneInv, ScanInv, MarkInv, BehindInv, Sweep, InHand
<1>2. UNCHANGED <<rows, marks, cleaner>>
  BY DEF LookBehind, QueryFrame
<1>3. P \subseteq scope(w) /\ P \subseteq Ids /\ IsFiniteSet(P) /\ S \subseteq P
  BY RankNat, FS_Subset, SliceSubset DEF Pending, OneInv, TopicsInv
<1>4. \A m \in Owed(s) : covers(s.mark, at[m], m) => m \in P
  BY <1>1, OwedStands DEF Pending
<1>5. TypeOK
  BY DEF IInv
<1>6. \A m \in P : m \notin S => RankIn(P, m) >= Batch /\ \A q \in S : Before(q, m)
  <2>1. \A m \in P : RankIn(P, m) \in Nat
    BY <1>3, <1>5, RankOrder
  <2> HIDE DEF P, S
  <2> SUFFICES ASSUME NEW m \in P, m \notin S PROVE RankIn(P, m) >= Batch /\ \A q \in S : Before(q, m)
    OBVIOUS
  <2>2. RankIn(P, m) >= 0 + Batch /\ \A q \in S : Before(q, m)
    BY <1>3, <1>5, <2>1, PageCut DEF S
  <2> QED BY <2>2, RelayAssumption
<1>7. \A r \in s.page : FALSE
  BY <1>1
<1> HIDE DEF P, S
<1>8. CASE s.pages = MaxPages
  <2>1. PICK t \in Sweep : t = [s EXCEPT !.pc = "finish"] /\ Set(w, t)
    BY <1>1, <1>8, IInv' DEF LookBehind, IInv, TypeOK, Set
  <2>2. ScanInv(w, t)
    BY <1>1, <2>1, ScanOver DEF Sweep
  <2> QED BY <1>2, <2>1, <2>2, OneQuery
<1>9. CASE s.pages # MaxPages /\ S = {}
  <2>1. PICK t \in Sweep : t = [s EXCEPT !.pc = "boundary", !.stage = 1, !.last = s.mark.id] /\ Set(w, t)
    BY <1>1, <1>9, IInv' DEF LookBehind, IInv, TypeOK, Set, S, P
  <2>2. P = {}
    <3> SUFFICES ASSUME NEW m \in P PROVE FALSE
      OBVIOUS
    <3>1. Cardinality(S) = Batch
      BY <1>3, <1>5, <1>6, <1>9, SliceFull DEF S
    <3> QED BY <1>9, <3>1, FS_EmptySet, RelayAssumption
  <2>3. /\ t.pc = "boundary" /\ t.stage = 1 /\ t.last = s.mark.id /\ t.page = {} /\ t.mark = s.mark
        /\ t.cand = s.cand /\ t.seen = s.seen /\ t.off = s.off
    BY <1>1, <2>1 DEF Sweep
  <2>4. \A m \in Owed(t) : at[m] > t.mark.at \/ (at[m] = t.mark.at /\ m > t.last)
    <3>1. Owed(t) = Owed(s)
      BY <2>3 DEF Owed
    <3>2. s.mark.at \in Int /\ s.mark.id \in Int
      BY <1>1, MarkInts
    <3>3. \A m \in Owed(s) : ~covers(s.mark, at[m], m) /\ m \in Nat /\ at[m] \in Nat
      BY <1>1, <1>4, <2>2, OwedStands
    <3> QED BY <1>1, <2>3, <3>1, <3>2, <3>3 DEF covers
  <2>5. PageInv(w, t) /\ MarkInv(w, t) /\ SeenInv(w, t)
    BY <1>1, <2>3 DEF PageInv, MarkInv, SeenInv, InHand
  <2>6. BehindInv(t) /\ BoundaryScan(t) /\ ForwardScan(w, t)
    BY <1>1, <2>3, <2>4 DEF BehindInv, BoundaryScan, ForwardScan, Paging, InHand
  <2> QED BY <1>2, <2>1, <2>5, <2>6, OneQuery DEF ScanInv
<1>10. CASE s.pages # MaxPages /\ S # {}
  <2>1. PICK t \in Sweep : t = [s EXCEPT !.pc = "row", !.pages = s.pages + 1, !.page = ReadPage(S)] /\ Set(w, t)
    BY <1>1, <1>10, IInv' DEF LookBehind, IInv, TypeOK, Set, S, P
  <2>2. /\ t.pc = "row" /\ t.stage = 0 /\ t.page = ReadPage(S) /\ t.mark = s.mark
        /\ t.cand = s.cand /\ t.seen = s.seen /\ t.off = s.off
    BY <1>1, <2>1 DEF Sweep
  <2>3. PageInv(w, t) /\ IdsOf(t.page) = S /\ \A r \in t.page : r.id \in S
    BY <1>3, <2>2, PageLoaded
  <2>4. MarkInv(w, t) /\ SeenInv(w, t)
    BY <1>1, <2>2 DEF MarkInv, SeenInv
  <2>5. Owed(t) = Owed(s)
    BY <2>2 DEF Owed
  <2>6. \A r \in t.page : covers(t.mark, at[r.id], r.id)
    BY <1>3, <2>2, <2>3 DEF P, Pending
  <2>7. \A m \in Owed(t) : covers(t.mark, at[m], m) => m \in IdsOf(t.page) \/ \A q \in t.page : Before(q.id, m)
    BY <1>4, <1>6, <2>2, <2>3, <2>5
  <2>8. BehindInv(t) /\ BoundaryScan(t) /\ ForwardScan(w, t)
    BY <1>1, <2>2, <2>6, <2>7 DEF BehindInv, BoundaryScan, ForwardScan, Paging, InHand
  <2> QED BY <1>2, <2>1, <2>3, <2>4, <2>8, OneQuery DEF ScanInv
<1> QED BY <1>8, <1>9, <1>10

LEMMA BoundaryOne ==
    ASSUME OneProcess, IInv, IInv', OneInv, NEW w \in Workers, Boundary(w)
    PROVE  OneInv'
<1> DEFINE s == sweep[w]
           P == {m \in scope(w) : at[m] = s.mark.at /\ m > s.last}
           S == Slice(P, 0)
<1>1. /\ s \in Sweep /\ SweepInv(s) /\ ScanInv(w, s) /\ s.pc = "boundary" /\ s.stage = 1 /\ s.page = {}
      /\ s.mark = marks[TopicOf(w)] /\ IsSet(s.mark) /\ s.cand.at = s.mark.at
      /\ SeenInv(w, s) /\ s.off = 0
  BY SweepFacts DEF Boundary, SweepInv, OneInv, ScanInv, MarkInv, BoundaryScan, Sweep, InHand
<1>2. UNCHANGED <<rows, marks, cleaner>>
  BY DEF Boundary, QueryFrame
<1>3. P \subseteq scope(w) /\ P \subseteq Ids /\ IsFiniteSet(P) /\ S \subseteq P
  BY RankNat, FS_Subset, SliceSubset DEF OneInv, TopicsInv
<1>4. \A m \in Owed(s) : at[m] > s.mark.at \/ m \in P
  <2>1. \A m \in Owed(s) : m \in scope(w) /\ (at[m] > s.mark.at \/ (at[m] = s.mark.at /\ m > s.last))
    BY <1>1, OwedStands DEF ScanInv, BoundaryScan, IdsOf
  <2> QED BY <2>1
<1>5. TypeOK
  BY DEF IInv
<1>6. \A m \in P : m \notin S => RankIn(P, m) >= Batch /\ \A q \in S : Before(q, m)
  <2>1. \A m \in P : RankIn(P, m) \in Nat
    BY <1>3, <1>5, RankOrder
  <2> HIDE DEF P, S
  <2> SUFFICES ASSUME NEW m \in P, m \notin S PROVE RankIn(P, m) >= Batch /\ \A q \in S : Before(q, m)
    OBVIOUS
  <2>2. RankIn(P, m) >= 0 + Batch /\ \A q \in S : Before(q, m)
    BY <1>3, <1>5, <2>1, PageCut DEF S
  <2> QED BY <2>2, RelayAssumption
<1>7. \A m \in P : m \notin S => Cardinality(S) = Batch
  <2> HIDE DEF P
  <2> QED BY <1>3, <1>5, <1>6, SliceFull
<1>8. \A m \in P : at[m] = s.mark.at /\ m > s.last
  OBVIOUS
<1>9. Boundary(w) => /\ s.pages = MaxPages => Set(w, [s EXCEPT !.pc = "finish"])
                     /\ s.pages # MaxPages =>
                          Set(w, [s EXCEPT !.pc = "row", !.pages = s.pages + 1, !.page = ReadPage(S),
                                           !.full = Cardinality(S) = Batch])
  BY DEF Boundary
<1> HIDE DEF P, S
<1>10. CASE s.pages = MaxPages
  <2>1. PICK t \in Sweep : t = [s EXCEPT !.pc = "finish"] /\ Set(w, t)
    BY <1>9, <1>10, IInv' DEF IInv, TypeOK, Set
  <2>2. ScanInv(w, t)
    BY <1>1, <2>1, ScanOver DEF Sweep
  <2> QED BY <1>2, <2>1, <2>2, OneQuery
<1>11. CASE s.pages # MaxPages
  <2>1. PICK t \in Sweep : t = [s EXCEPT !.pc = "row", !.pages = s.pages + 1, !.page = ReadPage(S),
                                         !.full = Cardinality(S) = Batch] /\ Set(w, t)
    BY <1>9, <1>11, IInv' DEF IInv, TypeOK, Set
  <2>2. /\ t.pc = "row" /\ t.stage = 1 /\ t.page = ReadPage(S) /\ t.mark = s.mark /\ t.last = s.last
        /\ t.cand = s.cand /\ t.seen = s.seen /\ t.off = s.off /\ (Cardinality(S) = Batch => t.full)
    BY <1>1, <2>1 DEF Sweep
  <2>3. PageInv(w, t) /\ IdsOf(t.page) = S /\ \A r \in t.page : r.id \in S
    BY <1>3, <2>2, PageLoaded
  <2>4. MarkInv(w, t) /\ SeenInv(w, t)
    BY <1>1, <2>2 DEF MarkInv, SeenInv
  <2>5. Owed(t) = Owed(s)
    BY <2>2 DEF Owed
  <2>6. \A r \in t.page : at[r.id] = t.mark.at
    BY <1>3, <1>8, <2>2, <2>3
  <2>7. \A m \in Owed(t) :
           \/ m \in IdsOf(t.page)
           \/ at[m] > t.mark.at
           \/ at[m] = t.mark.at /\ m > t.last /\ (\A q \in t.page : Before(q.id, m)) /\ t.full
    BY <1>4, <1>6, <1>7, <1>8, <2>2, <2>3, <2>5
  <2>8. BehindInv(t) /\ BoundaryScan(t) /\ ForwardScan(w, t)
    BY <1>1, <2>2, <2>6, <2>7 DEF BehindInv, BoundaryScan, ForwardScan, Paging, InHand
  <2> QED BY <1>2, <2>1, <2>3, <2>4, <2>8, OneQuery DEF ScanInv
<1> QED BY <1>10, <1>11

LEMMA ForwardOne ==
    ASSUME OneProcess, IInv, IInv', OneInv, NEW w \in Workers, Forward(w)
    PROVE  OneInv'
<1> DEFINE s == sweep[w]
           P == IF s.strict THEN {m \in scope(w) : at[m] > s.ts} ELSE {m \in scope(w) : at[m] >= s.ts}
           S == Slice(P, s.off)
<1>1. /\ s \in Sweep /\ SweepInv(s) /\ ScanInv(w, s) /\ s.pc = "forward" /\ s.stage = 2 /\ s.page = {}
      /\ s.mark = marks[TopicOf(w)] /\ s.cand.at <= s.ts /\ s.mark.at <= s.ts
      /\ s.strict => s.off = 0
      /\ SeenInv(w, s) /\ s.off \in Nat /\ s.ts \in Int
  BY SweepFacts, RelayAssumption
  DEF Forward, SweepInv, OneInv, ScanInv, MarkInv, ForwardScan, Sweep, InHand, Paging, Stamps
<1>2. UNCHANGED <<rows, marks, cleaner>>
  BY DEF Forward, QueryFrame
<1>3. P \subseteq scope(w) /\ P \subseteq Ids /\ IsFiniteSet(P) /\ S \subseteq P
  BY RankNat, FS_Subset, SliceSubset DEF OneInv, TopicsInv
<1>4. TypeOK /\ \A m \in scope(w) : m \in Ids /\ at[m] \in Int
  BY RelayAssumption DEF IInv, TypeOK, scope, Live, Stamps
<1>5. ASSUME NEW m \in Owed(s)
      PROVE  m \in P /\ at[m] >= s.ts /\ RankIn(P, m) >= s.off /\ RankIn(P, m) <= Rank(w, s.ts, m)
  <2>1. /\ at[m] >= s.ts /\ (s.strict => at[m] > s.ts)
        /\ Rank(w, s.ts, m) >= s.off + Cardinality(IdsOf(s.page)) /\ m \in scope(w)
    BY <1>1, NoIds, OwedStands DEF ScanInv, ForwardScan, Paging, IdsOf
  <2>2. m \in P
    BY <2>1
  <2>3. RankIn(P, m) \in Nat
    BY <1>3, <1>4, <2>2, RankOrder
  <2>4. Rank(w, s.ts, m) >= s.off /\ Rank(w, s.ts, m) \in Nat
    BY <1>1, <2>1, NoIds, RankNat DEF OneInv, TopicsInv
  <2>5. CASE s.strict
    <3> DEFINE A == {n \in P : Before(n, m)}
               B == {n \in scope(w) : at[n] >= s.ts /\ Before(n, m)}
    <3>1. A \in SUBSET B
      BY <1>1, <1>4, <2>5
    <3>2. IsFiniteSet(B)
      BY RankNat, FS_Subset DEF OneInv, TopicsInv
    <3>3. Cardinality(A) <= Cardinality(B)
      BY <3>1, <3>2, FS_Subset
    <3>4. RankIn(P, m) <= Rank(w, s.ts, m)
      BY <3>3 DEF RankIn, Rank
    <3> HIDE DEF P
    <3> QED BY <1>1, <2>1, <2>2, <2>3, <2>5, <3>4
  <2>6. CASE ~s.strict
    <3>1. {n \in P : Before(n, m)} = {n \in scope(w) : at[n] >= s.ts /\ Before(n, m)}
      BY <2>6
    <3>2. RankIn(P, m) = Rank(w, s.ts, m)
      BY <3>1 DEF RankIn, Rank
    <3> HIDE DEF P
    <3> QED BY <1>1, <2>1, <2>2, <2>3, <2>4, <3>2
  <2> QED BY <2>5, <2>6
<1>6. scanForward(w) = S
  BY <1>1 DEF scanForward
<1>7. \A m \in P : m \in scope(w) /\ at[m] >= s.ts
  BY <1>1, <1>4
<1>8. Forward(w) => /\ s.pages = MaxPages => Set(w, [s EXCEPT !.pc = "finish"])
                    /\ s.pages # MaxPages /\ S = {} => Set(w, [s EXCEPT !.pc = "drain"])
                    /\ s.pages # MaxPages /\ S # {} =>
                          Set(w, [s EXCEPT !.pc = "row", !.page = ReadPage(S), !.strict = FALSE,
                                           !.full = Cardinality(S) = Batch])
  BY <1>6 DEF Forward
<1> HIDE DEF P, S
<1>9. Cardinality(S) \in Nat /\ Cardinality(S) <= Batch
  BY <1>1, <1>3, <1>4, SliceSize DEF S
<1>10. ASSUME NEW m \in Owed(s), m \notin S
       PROVE  Rank(w, s.ts, m) >= s.off + Cardinality(S) /\ \A q \in S : Before(q, m)
  <2>1. RankIn(P, m) >= s.off + Batch /\ \A q \in S : Before(q, m)
    BY <1>1, <1>3, <1>4, <1>5, <1>10, PageCut DEF S
  <2>2. RankIn(P, m) \in Nat
    BY <1>3, <1>4, <1>5, RankOrder
  <2>3. Rank(w, s.ts, m) \in Nat
    BY RankNat DEF OneInv, TopicsInv
  <2> QED BY <1>1, <1>5, <1>9, <2>1, <2>2, <2>3, RelayAssumption
<1>11. CASE s.pages = MaxPages \/ S = {}
  <2>1. PICK t \in Sweep : Set(w, t) /\ (t = [s EXCEPT !.pc = "finish"] \/ t = [s EXCEPT !.pc = "drain"])
    BY <1>8, <1>11, IInv' DEF IInv, TypeOK, Set
  <2>2. ScanInv(w, t)
    BY <1>1, <2>1, ScanOver DEF Sweep
  <2> QED BY <1>2, <2>1, <2>2, OneQuery
<1>12. CASE s.pages # MaxPages /\ S # {}
  <2>1. PICK t \in Sweep : t = [s EXCEPT !.pc = "row", !.page = ReadPage(S), !.strict = FALSE,
                                         !.full = Cardinality(S) = Batch] /\ Set(w, t)
    BY <1>8, <1>12, IInv' DEF IInv, TypeOK, Set
  <2>2. /\ t.pc = "row" /\ t.stage = 2 /\ t.page = ReadPage(S) /\ t.mark = s.mark /\ t.strict = FALSE
        /\ t.cand = s.cand /\ t.seen = s.seen /\ t.off = s.off /\ t.ts = s.ts
    BY <1>1, <2>1 DEF Sweep
  <2>3. PageInv(w, t) /\ IdsOf(t.page) = S /\ \A r \in t.page : r.id \in S
    BY <1>3, <2>2, PageLoaded
  <2>4. MarkInv(w, t) /\ SeenInv(w, t)
    BY <1>1, <2>2 DEF MarkInv, SeenInv
  <2>5. Owed(t) = Owed(s)
    BY <2>2 DEF Owed
  <2>6. \A r \in t.page : r.id \in scope(w) /\ at[r.id] >= t.ts
    BY <1>3, <1>7, <2>2, <2>3
  <2>7. \A m \in Owed(t) :
           \/ m \in IdsOf(t.page)
           \/ /\ at[m] >= t.ts
              /\ \A q \in t.page : Before(q.id, m)
              /\ Rank(w, t.ts, m) >= t.off + Cardinality(IdsOf(t.page))
    BY <1>5, <1>10, <2>2, <2>3, <2>5
  <2>8. BehindInv(t) /\ BoundaryScan(t) /\ ForwardScan(w, t)
    BY <1>1, <2>2, <2>6, <2>7 DEF BehindInv, BoundaryScan, ForwardScan, Paging, InHand
  <2> QED BY <1>2, <2>1, <2>3, <2>4, <2>8, OneQuery DEF ScanInv
<1> QED BY <1>11, <1>12

(***************************************************************************)
(* Passing the head of a page.                                             *)
(***************************************************************************)
LEMMA StampInts == ASSUME IInv PROVE \A m \in Ids : at[m] \in Int
<1>1. \A a \in Stamps : a \in Int
  BY RelayAssumption DEF Stamps
<1> QED BY <1>1 DEF IInv, TypeOK

LEMMA SweepInts ==
    \A s \in Sweep : s.ts \in Int /\ s.off \in Nat /\ s.cand.at \in Int /\ s.mark.at \in Int
<1>1. \A a \in Stamps \cup {-1} : a \in Int
  BY RelayAssumption DEF Stamps
<1>2. \A s \in Sweep : s.ts \in Stamps \cup {-1} /\ s.off \in Nat /\ s.cand \in Mark /\ s.mark \in Mark
  BY DEF Sweep
<1> QED BY <1>1, <1>2, MarkInts

LEMMA PassForward ==
    ASSUME IInv, IsFiniteSet(Live), NEW w \in Workers, NEW s \in Sweep, SweepInv(s), ScanInv(w, s),
           s.stage = 2, s.pc \in Paging, NEW r \in s.page, IsHead(r, s.page), NEW t \in Sweep, t = PassRow(s, r),
           NEW m \in Owed(s), m \notin IdsOf(s.page)
    PROVE  /\ at[m] >= t.ts
           /\ \A q \in t.page : Before(q.id, m)
           /\ Rank(w, t.ts, m) >= t.off + Cardinality(IdsOf(t.page))
<1> DEFINE I == IdsOf(s.page)
<1>1. /\ r.id \in Ids /\ at[r.id] \in Int /\ at[r.id] >= s.ts /\ s.ts \in Int /\ s.off \in Nat /\ m \in Ids
      /\ at[m] \in Int
  <2>1. r.id \in Ids /\ m \in Ids
    BY SweepRows, OwedStands DEF ScanInv
  <2>2. at[r.id] >= s.ts
    BY DEF ScanInv, ForwardScan
  <2> QED BY <2>1, <2>2, StampInts, SweepInts
<1>2. /\ t.ts = at[r.id] /\ t.page = s.page \ {r}
      /\ t.off = IF at[r.id] = s.ts THEN s.off + 1 ELSE 1
  BY DEF PassRow, Sweep
<1>3. /\ \A q \in s.page : Before(q.id, m)
      /\ Rank(w, s.ts, m) >= s.off + Cardinality(I)
  BY DEF ScanInv, ForwardScan
<1>4. IdsOf(t.page) = I \ {r.id} /\ r.id \in I
  BY <1>2 DEF IdsOf, ScanInv, PageInv
<1>5. I \subseteq scope(w) /\ \A n \in I : \E q \in s.page : n = q.id
  BY DEF ScanInv, ForwardScan, IdsOf
<1>6. IsFiniteSet(I) /\ Cardinality(I) \in Nat
  BY <1>5, RankNat, FS_Subset, FS_CardinalityType
<1>7. Cardinality(IdsOf(t.page)) = Cardinality(I) - 1
  <2> HIDE DEF I
  <2> QED BY <1>4, <1>6, FS_RemoveElement
<1>8. at[m] >= at[r.id]
  BY <1>1, <1>3, BeforeOrder DEF IInv
<1>9. \A q \in t.page : Before(q.id, m)
  BY <1>2, <1>3
<1> HIDE DEF I
<1>10. CASE at[r.id] = s.ts
  BY <1>1, <1>2, <1>3, <1>6, <1>7, <1>8, <1>9, <1>10
<1>11. CASE at[r.id] # s.ts
  <2> DEFINE B == {n \in scope(w) : at[n] >= at[r.id] /\ Before(n, m)}
  <2>1. ASSUME NEW n \in I PROVE n \in B
    <3>1. PICK q \in s.page : n = q.id
      BY <1>5
    <3>2. q.id \in Ids /\ (q = r \/ Before(r.id, q.id))
      BY SweepRows DEF IsHead
    <3>3. at[q.id] \in Int /\ at[q.id] >= at[r.id]
      BY <1>1, <3>2, BeforeOrder, StampInts DEF IInv
    <3> QED BY <1>3, <1>5, <3>1, <3>3
  <2>2. IsFiniteSet(B) /\ I \in SUBSET B
    BY <2>1, RankNat, FS_Subset
  <2>3. Cardinality(I) <= Cardinality(B)
    BY <2>2, FS_Subset
  <2>4. Rank(w, t.ts, m) = Cardinality(B)
    BY <1>2 DEF Rank
  <2> HIDE DEF B
  <2>5. t.off + Cardinality(IdsOf(t.page)) = Cardinality(I)
    BY <1>2, <1>6, <1>7, <1>11
  <2> QED BY <1>2, <1>8, <1>9, <2>3, <2>4, <2>5
<1> QED BY <1>10, <1>11

LEMMA PassScan ==
    ASSUME IInv, IInv', IsFiniteSet(Live), NEW w \in Workers, NEW CONSTANT s \in Sweep, SweepInv(s), ScanInv(w, s),
           s.pc \in Paging, NEW CONSTANT r \in s.page, IsHead(r, s.page), NEW CONSTANT t \in Sweep, t = PassRow(s, r),
           UNCHANGED <<status, topic, at, marks>>, done'[r.id],
           \A m \in Ids : m # r.id => (done'[m] <=> done[m])
    PROVE  ScanInv(w, t)'
<1>1. /\ t.pc = "row" /\ t.page = s.page \ {r} /\ t.stage = s.stage /\ t.mark = s.mark /\ t.seen = s.seen
      /\ t.full = s.full /\ t.strict = s.strict
      /\ t.last = (IF s.stage = 1 THEN r.id ELSE s.last)
      /\ t.off = (IF s.stage # 2 THEN s.off ELSE IF at[r.id] = s.ts THEN s.off + 1 ELSE 1)
      /\ t.ts = (IF s.stage # 2 THEN s.ts ELSE at[r.id])
      /\ t.cand = (IF s.stage # 0 /\ at[r.id] <= s.cutoff THEN [at |-> at[r.id], id |-> r.id] ELSE s.cand)
  BY DEF PassRow, Sweep
<1>2. \A q \in s.page : q.id \in Ids /\ Committed(q.id) /\ (q # r => q.id # r.id)
  BY SweepRows DEF ScanInv, PageInv
<1>3. s.pc # "idle" /\ s.pc # "boundary" /\ s.pc # "behind" /\ s.pc # "forward"
  BY DEF Paging, InHand
<1>4. s.seen \subseteq Ids
  BY SweepRows
<1>5. scope(w)' = scope(w)
  BY DEF scope, Live
<1>6. \A m, n : Before(m, n)' = Before(m, n)
  BY DEF Before
<1>7. \A ts, m : Rank(w, ts, m)' = Rank(w, ts, m)
  BY <1>5, <1>6 DEF Rank
<1>8. \A m \in Owed(t)' : m \in Owed(s) /\ m # r.id
  BY <1>1, <1>4 DEF Owed
<1>9. \A m \in Owed(t)' : m \notin IdsOf(t.page) => m \notin IdsOf(s.page)
  BY <1>1, <1>8 DEF IdsOf
<1>10. PageInv(w, t)' /\ MarkInv(w, t)' /\ SeenInv(w, t)'
  <2>1. PageInv(w, t)'
    BY <1>1, <1>2 DEF ScanInv, PageInv, InHand
  <2>2. MarkInv(w, t)' /\ SeenInv(w, t)'
    BY <1>1, <1>3 DEF ScanInv, MarkInv, SeenInv
  <2> QED BY <2>1, <2>2
<1>11. BehindInv(t)'
  <2> SUFFICES ASSUME s.stage = 0 PROVE BehindInv(t)'
    BY <1>1 DEF BehindInv
  <2>1. /\ s.cand = s.mark
        /\ \A q \in s.page : covers(s.mark, at[q.id], q.id)
        /\ \A m \in Owed(s) : covers(s.mark, at[m], m) =>
              m \in IdsOf(s.page) \/ \A q \in s.page : Before(q.id, m)
    BY DEF ScanInv, BehindInv
  <2> QED BY <1>1, <1>6, <1>8, <1>9, <2>1 DEF BehindInv
<1>12. BoundaryScan(t)'
  <2> SUFFICES ASSUME s.stage = 1 PROVE BoundaryScan(t)'
    BY <1>1 DEF BoundaryScan
  <2>1. /\ s.cand.at = s.mark.at
        /\ \A q \in s.page : at[q.id] = s.mark.at
        /\ \A m \in Owed(s) :
              \/ m \in IdsOf(s.page)
              \/ at[m] > s.mark.at
              \/ /\ at[m] = s.mark.at /\ m > s.last
                 /\ \A q \in s.page : Before(q.id, m)
                 /\ s.full
    BY <1>3 DEF ScanInv, BoundaryScan
  <2>2. t.cand.at = t.mark.at
    BY <1>1, <2>1
  <2>3. \A m \in Owed(s) : at[m] = s.mark.at /\ Before(r.id, m) => m > r.id
    <3>1. at[r.id] = s.mark.at /\ r.id \in Nat
      BY <1>2, <2>1, RelayAssumption
    <3>2. \A m \in Owed(s) : m \in Nat /\ at[m] \in Nat
      BY OwedStands DEF ScanInv
    <3> QED BY <3>1, <3>2 DEF Before
  <2> QED BY <1>1, <1>6, <1>8, <1>9, <2>1, <2>2, <2>3 DEF BoundaryScan
<1>13. ForwardScan(w, t)'
  <2> SUFFICES ASSUME s.stage = 2 PROVE ForwardScan(w, t)'
    BY <1>1 DEF ForwardScan
  <2>1. /\ s.cand.at <= s.ts /\ s.mark.at <= s.ts /\ ~s.strict
        /\ \A q \in s.page : q.id \in scope(w) /\ at[q.id] >= s.ts
    BY <1>3 DEF ScanInv, ForwardScan
  <2>2. at[r.id] \in Int /\ s.ts \in Int /\ s.cand.at \in Int /\ s.mark.at \in Int
    BY <1>2, StampInts, SweepInts
  <2>3. t.cand.at <= t.ts /\ t.mark.at <= t.ts /\ ~t.strict
    BY <1>1, <2>1, <2>2
  <2>4. \A q \in t.page : q.id \in scope(w) /\ at[q.id] >= t.ts
    <3> SUFFICES ASSUME NEW q \in s.page, q # r PROVE at[q.id] >= at[r.id]
      BY <1>1, <2>1
    <3>1. Before(r.id, q.id) /\ q.id \in Ids /\ r.id \in Ids
      BY <1>2 DEF IsHead
    <3>2. at[q.id] \in Int
      BY <3>1, StampInts
    <3> QED BY <2>2, <3>1, <3>2, BeforeOrder DEF IInv
  <2>5. ASSUME NEW m \in Owed(t)', m \notin IdsOf(t.page)
        PROVE  /\ at[m] >= t.ts
               /\ \A q \in t.page : Before(q.id, m)
               /\ Rank(w, t.ts, m) >= t.off + Cardinality(IdsOf(t.page))
    BY <1>8, <1>9, <2>5, PassForward
  <2>6. \A m \in Owed(t)' :
           \/ m \in IdsOf(t.page)
           \/ /\ at'[m] >= t.ts /\ (t.strict => at'[m] > t.ts)
              /\ \A q \in t.page : Before(q.id, m)'
              /\ Rank(w, t.ts, m)' >= t.off + Cardinality(IdsOf(t.page))
    BY <1>6, <1>7, <2>3, <2>5
  <2>7. \A q \in t.page : q.id \in scope(w)' /\ at'[q.id] >= t.ts
    BY <1>5, <2>4
  <2> QED BY <2>3, <2>6, <2>7 DEF ForwardScan
<1> QED BY <1>10, <1>11, <1>12, <1>13 DEF ScanInv

\* The row in hand and what is known of it do not matter to the scan.
LEMMA HandScan ==
    ASSUME NEW w \in Workers, NEW s \in Sweep, NEW t \in Sweep, ScanInv(w, s), s.pc \in Paging, t.pc \in InHand,
           IsHead(t.row, s.page), t.page = s.page, t.stage = s.stage, t.mark = s.mark, t.cand = s.cand,
           t.seen = s.seen, t.off = s.off, t.ts = s.ts, t.full = s.full, t.strict = s.strict, t.last = s.last
    PROVE  ScanInv(w, t)
<1>1. Owed(t) = Owed(s)
  BY DEF Owed
<1>2. PageInv(w, t) /\ MarkInv(w, t) /\ SeenInv(w, t)
  BY DEF ScanInv, PageInv, MarkInv, SeenInv, Paging, InHand
<1>3. BehindInv(t) /\ BoundaryScan(t)
  BY <1>1 DEF ScanInv, BehindInv, BoundaryScan, Paging, InHand
<1>4. ForwardScan(w, t)
  BY <1>1 DEF ScanInv, ForwardScan, Paging, InHand
<1> QED BY <1>2, <1>3, <1>4 DEF ScanInv

LEMMA OneFacts ==
    ASSUME IInv, OneInv, NEW w \in Workers
    PROVE  /\ sweep[w] \in Sweep /\ SweepInv(sweep[w]) /\ ScanInv(w, sweep[w])
           /\ IsFiniteSet(Live) /\ TopicOf(w) \in Topics
           /\ sweep[w].pc # "idle" => sweep[w].mark = marks[TopicOf(w)]
  BY SweepFacts DEF OneInv, TopicsInv, ScanInv, MarkInv

LEMMA CallOne ==
    ASSUME OneProcess, IInv, IInv', OneInv, NEW w \in Workers, Call(w)
    PROVE  OneInv'
<1> DEFINE s == sweep[w]
<1>1. PICK r \in s.page : /\ IsHead(r, s.page) /\ ~Passed(s, r) /\ ~NotDue(r)
                         /\ Set(w, [s EXCEPT !.pc = "call", !.row = r])
  BY DEF Call
<1>2. s.pc = "row" /\ UNCHANGED <<rows, marks, cleaner>>
  BY DEF Call, QueryFrame
<1>3. PICK t \in Sweep : t = [s EXCEPT !.pc = "call", !.row = r] /\ Set(w, t)
  BY <1>1, IInv' DEF IInv, TypeOK, Set
<1>4. ScanInv(w, t)
  BY <1>1, <1>2, <1>3, OneFacts, HandScan, ZenonT(60) DEF Sweep, Paging, InHand
<1> QED BY <1>2, <1>3, <1>4, OneQuery

LEMMA HandlerOne ==
    ASSUME OneProcess, IInv, IInv', OneInv, NEW w \in Workers,
           HandlerTakes(w) \/ HandlerFails(w) \/ Undecodable(w)
    PROVE  OneInv'
<1> DEFINE s == sweep[w]
<1>1. s.pc = "call" /\ UNCHANGED <<rows, marks, cleaner>>
  BY DEF HandlerTakes, HandlerFails, Undecodable
<1>2. PICK pc \in {"ack", "fail", "park"} : Set(w, [s EXCEPT !.pc = pc])
  BY DEF HandlerTakes, HandlerFails, Undecodable
<1>3. PICK t \in Sweep : t = [s EXCEPT !.pc = pc] /\ Set(w, t)
  BY <1>2, IInv' DEF IInv, TypeOK, Set
<1>4. ScanInv(w, t)
  <2>1. IsHead(s.row, s.page)
    BY <1>1, OneFacts DEF ScanInv, PageInv, InHand
  <2> QED BY <1>1, <1>2, <1>3, <2>1, OneFacts, HandScan DEF Sweep, Paging, InHand
<1> QED BY <1>1, <1>3, <1>4, OneQuery

LEMMA SkipOne ==
    ASSUME OneProcess, IInv, IInv', OneInv, NEW w \in Workers, Skip(w)
    PROVE  OneInv'
<1>1. PICK s \in Sweep : s = sweep[w]
  BY OneFacts
<1>2. PICK r \in s.page : IsHead(r, s.page) /\ Passed(s, r) /\ Set(w, PassRow(s, r)) /\ s.pc = "row"
  BY <1>1 DEF Skip
<1>3. PICK t \in Sweep : t = PassRow(s, r) /\ Set(w, t)
  BY <1>2, IInv' DEF IInv, TypeOK, Set
<1>4. UNCHANGED <<status, topic, at, done, marks, cleaner>>
  BY DEF Skip, QueryFrame, rows
<1>5. done[r.id]
  BY <1>1, <1>2, OneFacts DEF Passed, ScanInv, PageInv
<1>6. ScanInv(w, t)'
  BY <1>1, <1>2, <1>3, <1>4, <1>5, OneFacts, PassScan DEF Paging
<1> QED BY <1>3, <1>4, <1>6, OneStep, MarksStay

LEMMA AckOne ==
    ASSUME OneProcess, IInv, IInv', OneInv, NEW w \in Workers, Complete(w) \/ Park(w)
    PROVE  OneInv'
<1>1. PICK s \in Sweep : s = sweep[w]
  BY OneFacts
<1>2. PICK r \in s.page : r = s.row /\ IsHead(r, s.page) /\ ~r.done /\ s.pc \in {"ack", "park"}
  BY <1>1, OneFacts DEF Complete, Park, SweepInv, ScanInv, PageInv, InHand
<1>3. /\ Set(w, PassRow(s, r)) /\ UNCHANGED <<status, topic, at, marks, cleaner>>
      /\ done' = [done EXCEPT ![r.id] = done[r.id] \/ status[r.id] = "live"]
  BY <1>1, <1>2 DEF Complete, Park
<1>4. PICK t \in Sweep : t = PassRow(s, r) /\ Set(w, t)
  BY <1>3, IInv' DEF IInv, TypeOK, Set
<1>5. r.id \in Ids /\ topic[r.id] = TopicOf(w) /\ status[r.id] = "live"
  BY <1>1, <1>2, OneFacts, SweepRows DEF ScanInv, PageInv, Committed, IInv, RowInv
<1>6. done'[r.id] /\ \A m \in Ids : m # r.id => done'[m] = done[m]
  BY <1>3, <1>5 DEF IInv, TypeOK
<1>7. ScanInv(w, t)'
  BY <1>1, <1>2, <1>3, <1>4, <1>6, OneFacts, PassScan DEF Paging, InHand
<1>8. \A m \in Ids : topic[m] # TopicOf(w) => (done'[m] <=> done[m])
  BY <1>5, <1>6
<1> QED BY <1>3, <1>4, <1>7, <1>8, OneStep, MarksStay

\* What persist does to the watermark.
LEMMA AdvanceMoves ==
    ASSUME IInv, OneInv, NEW w \in Workers, NEW s \in Sweep, s.mark = marks[TopicOf(w)], NEW saved \in BOOLEAN,
           marks' = IF Advances(s) /\ saved THEN [marks EXCEPT ![TopicOf(w)] = s.cand] ELSE marks
    PROVE  /\ MarkMoves(w)
           /\ marks'[TopicOf(w)] = IF Advances(s) /\ saved THEN s.cand ELSE s.mark
<1>1. s.cand \in Mark /\ TopicOf(w) \in Topics /\ marks \in [Topics -> Mark]
  BY SweepFacts DEF Sweep, IInv, TypeOK
<1>2. CASE Advances(s) /\ saved
  BY <1>1, <1>2 DEF MarkMoves, Advances
<1>3. CASE ~(Advances(s) /\ saved)
  BY <1>1, <1>3, MarksStay
<1> QED BY <1>2, <1>3

LEMMA EndOne ==
    ASSUME OneProcess, IInv, IInv', OneInv, NEW w \in Workers, sweep[w].pc # "idle", NEW saved \in BOOLEAN,
           EndSweep(w, sweep[w], saved), UNCHANGED <<status, topic, at, done, cleaner>>
    PROVE  OneInv' /\ MarkMoves(w)
<1>1. PICK s \in Sweep : s = sweep[w]
  BY OneFacts
<1>2. MarkMoves(w)
  BY <1>1, OneFacts, AdvanceMoves DEF EndSweep
<1>3. Idle \in Sweep /\ Set(w, Idle) /\ ScanInv(w, Idle)'
  BY IdleSweep, ScanIdleNext DEF EndSweep
<1>4. PICK z \in Sweep : z = Idle
  BY <1>3
<1> QED BY <1>2, <1>3, <1>4, OneStep

LEMMA SweepEndOne ==
    ASSUME OneProcess, IInv, IInv', OneInv, NEW w \in Workers,
           RetryLater(w) \/ Fail(w) \/ Finish(w) \/ Abort(w)
    PROVE  OneInv' /\ MarkMoves(w)
<1>1. sweep[w].pc # "idle" /\ UNCHANGED <<status, topic, at, done, cleaner>>
  BY DEF RetryLater, Fail, Finish, Abort, rows
<1>2. PICK saved \in BOOLEAN : EndSweep(w, sweep[w], saved)
  BY DEF RetryLater, Fail, Finish, Abort
<1> QED BY <1>1, <1>2, EndOne

LEMMA DrainOne ==
    ASSUME OneProcess, IInv, IInv', OneInv, NEW w \in Workers, Drain(w)
    PROVE  OneInv'
<1>1. PICK s \in Sweep : s = sweep[w] /\ s.pc = "drain" /\ s.page = {}
  BY OneFacts DEF Drain, SweepInv, InHand
<1>2. PICK c \in Mark : Set(w, [s EXCEPT !.pc = "finish", !.cand = c])
  <2>1. Frontier(s) \subseteq Mark
    BY DEF Frontier, Live, Mark, IInv, TypeOK
  <2> QED BY <1>1, <2>1 DEF Drain, Sweep
<1>3. PICK t \in Sweep : t = [s EXCEPT !.pc = "finish", !.cand = c] /\ Set(w, t)
  BY <1>2, IInv' DEF IInv, TypeOK, Set
<1>4. ScanInv(w, t)
  <2>1. /\ t.pc = "finish" /\ t.page = {} /\ t.mark = s.mark /\ t.stage = s.stage /\ t.off = s.off
        /\ t.seen = s.seen
    BY <1>1, <1>3 DEF Sweep
  <2> QED BY <1>1, <2>1, OneFacts, ScanOver
<1>5. UNCHANGED <<rows, marks, cleaner>>
  BY DEF Drain, QueryFrame
<1> QED BY <1>3, <1>4, <1>5, OneQuery

\* The end of a page that is not the last: persist moves the sweep's own
\* watermark with the stored one.
LEMMA PersistOne ==
    ASSUME OneProcess, IInv, IInv', OneInv, NEW w \in Workers, NEW CONSTANT s \in Sweep, s = sweep[w], s.pc = "row",
           NEW CONSTANT x \in Sweep, NEW CONSTANT saved \in BOOLEAN, persist(w, x, saved),
           x.pc # "idle", x.page = {}, x.mark = s.mark, x.cand = s.cand, x.seen = s.seen,
           x.stage < 2 => IsSet(s.mark) /\ s.cand.at = s.mark.at /\ x.off = 0,
           NEW CONSTANT k \in Mark, k = IF Advances(s) /\ saved THEN s.cand ELSE s.mark,
           NEW CONSTANT t \in Sweep, t = [x EXCEPT !.mark = k],
           BehindInv(t), BoundaryScan(t), ForwardScan(w, t), UNCHANGED <<rows, cleaner>>
    PROVE  OneInv' /\ MarkMoves(w)
<1>1. ScanInv(w, s) /\ s.mark = marks[TopicOf(w)] /\ TopicOf(w) \in Topics
  BY OneFacts
<1>2. UNCHANGED <<status, topic, at, done, cleaner>>
  BY DEF rows
<1>3. Advances(x) <=> Advances(s)
  BY DEF Advances
<1>4. marks' = IF Advances(s) /\ saved THEN [marks EXCEPT ![TopicOf(w)] = s.cand] ELSE marks
  BY <1>3 DEF persist
<1>5. MarkMoves(w) /\ marks'[TopicOf(w)] = k
  BY <1>1, <1>4, AdvanceMoves
<1>6. Set(w, t)
  <2>1. x = [x EXCEPT !.mark = x.mark]
    BY DEF Sweep
  <2> QED BY <1>3, <2>1 DEF persist
<1>7. /\ t.pc = x.pc /\ t.page = {} /\ t.mark = k /\ t.seen = s.seen /\ t.stage = x.stage /\ t.off = x.off
  BY DEF Sweep
<1>8. PageInv(w, t)' /\ SeenInv(w, t)'
  <2>1. PageInv(w, t)'
    <3>1. t.pc \notin InHand
      BY <1>7, IInv', <1>6 DEF IInv, SweepInv, Set, TypeOK
    <3> QED BY <1>7, <3>1 DEF PageInv
  <2>2. SeenInv(w, t)'
    BY <1>1, <1>2, <1>7 DEF ScanInv, SeenInv
  <2> QED BY <2>1, <2>2
<1>9. MarkInv(w, t)'
  BY <1>5, <1>7 DEF MarkInv, IsSet
<1>10. BehindInv(t)' /\ BoundaryScan(t)' /\ ForwardScan(w, t)'
  <2>1. Owed(t)' = Owed(t)
    BY <1>2 DEF Owed
  <2>2. \A m, n : Before(m, n)' = Before(m, n)
    BY <1>2 DEF Before
  <2>3. scope(w)' = scope(w)
    BY <1>2 DEF scope, Live
  <2>4. \A ts, m : Rank(w, ts, m)' = Rank(w, ts, m)
    BY <1>2, <2>2, <2>3 DEF Rank
  <2>5. BehindInv(t)' /\ BoundaryScan(t)'
    BY <1>2, <2>1, <2>2 DEF BehindInv, BoundaryScan
  <2>6. ForwardScan(w, t)'
    BY <1>2, <2>1, <2>2, <2>3, <2>4 DEF ForwardScan
  <2> QED BY <2>5, <2>6
<1>11. ScanInv(w, t)'
  BY <1>8, <1>9, <1>10 DEF ScanInv
<1> QED BY <1>2, <1>5, <1>6, <1>11, OneStep

LEMMA PageDoneOne ==
    ASSUME OneProcess, IInv, IInv', OneInv, NEW w \in Workers, PageDone(w)
    PROVE  OneInv' /\ MarkMoves(w)
<1>1. PICK s \in Sweep : s = sweep[w] /\ s.pc = "row" /\ s.page = {}
  BY OneFacts DEF PageDone
<1>2. PICK saved \in BOOLEAN :
         LET k == IF Advances(s) /\ saved THEN s.cand ELSE s.mark IN
         persist(w, CASE s.stage = 0 -> [s EXCEPT !.pc = "behind"]
                      [] s.stage = 1 /\ s.full -> [s EXCEPT !.pc = "boundary"]
                      [] s.stage = 1 /\ ~s.full ->
                            [s EXCEPT !.pc = "forward", !.stage = 2, !.ts = k.at, !.strict = TRUE,
                                      !.last = 0]
                      [] s.stage = 2 /\ s.full -> [s EXCEPT !.pc = "forward", !.pages = @ + 1]
                      [] s.stage = 2 /\ ~s.full -> [s EXCEPT !.pc = "drain"], saved)
  BY <1>1 DEF PageDone
<1>3. PICK k \in Mark : k = IF Advances(s) /\ saved THEN s.cand ELSE s.mark
  BY DEF Sweep
<1>4. ScanInv(w, s) /\ SweepInv(s) /\ s.stage \in 0..2 /\ s.full \in BOOLEAN /\ UNCHANGED <<rows, cleaner>>
  BY <1>1, OneFacts DEF Sweep, PageDone
<1>5. /\ k.at \in Int /\ k.at \in Stamps \cup {-1} /\ s.mark.at \in Int /\ s.cand.at \in Int /\ s.ts \in Int
      /\ s.off \in Nat
  BY MarkInts, SweepInts DEF Mark, NoMark
<1>6. /\ s.stage < 2 => IsSet(s.mark) /\ s.cand.at = s.mark.at /\ s.off = 0
      /\ s.stage = 0 => k = s.mark
      /\ s.stage = 1 => k.at = s.mark.at
      /\ s.stage = 2 => k.at <= s.ts /\ s.cand.at <= s.ts /\ s.mark.at <= s.ts /\ ~s.strict
  BY <1>1, <1>3, <1>4 DEF ScanInv, MarkInv, BehindInv, BoundaryScan, ForwardScan, Paging
<1>7. \A m \in Owed(s) :
         /\ m \notin IdsOf(s.page)
         /\ s.stage = 1 => at[m] > s.mark.at \/ (at[m] = s.mark.at /\ m > s.last /\ s.full)
         /\ s.stage = 2 => at[m] >= s.ts /\ Rank(w, s.ts, m) >= s.off
  <2>1. IdsOf(s.page) = {} /\ Cardinality(IdsOf(s.page)) = 0
    BY <1>1, NoIds
  <2>2. \A m \in Owed(s) : s.stage = 1 => at[m] > s.mark.at \/ (at[m] = s.mark.at /\ m > s.last /\ s.full)
    BY <1>1, <1>4, <2>1 DEF ScanInv, BoundaryScan, Paging
  <2>3. \A m \in Owed(s) : s.stage = 2 => at[m] >= s.ts /\ Rank(w, s.ts, m) >= s.off + 0
    BY <1>1, <1>4, <2>1 DEF ScanInv, ForwardScan, Paging
  <2> QED BY <1>5, <2>1, <2>2, <2>3
<1>8. \A ts, m : Rank(w, ts, m) \in Nat
  BY RankNat, OneFacts
<1>9. {"behind", "boundary", "forward", "drain"} \subseteq Steps /\ 2 \in 0..2 /\ 0 \in Ids \cup {0}
  BY DEF Steps
<1>10. CASE s.stage = 0
  <2>1. PICK x \in Sweep : x = [s EXCEPT !.pc = "behind"]
    BY <1>9 DEF Sweep
  <2>2. PICK t \in Sweep : t = [x EXCEPT !.mark = k]
    BY DEF Sweep
  <2>3. persist(w, x, saved)
    BY <1>2, <1>10, <2>1
  <2>4. x.pc = "behind" /\ x.page = {} /\ x.mark = s.mark /\ x.cand = s.cand /\ x.seen = s.seen /\ x.off = s.off
    BY <1>1, <2>1 DEF Sweep
  <2>5. t.pc = "behind" /\ t.stage = 0 /\ t.page = {} /\ t.mark = k /\ t.cand = s.cand
    BY <1>1, <1>10, <2>1, <2>2 DEF Sweep
  <2>6. s.cand = s.mark
    BY <1>1, <1>4, <1>10 DEF ScanInv, BehindInv, Paging
  <2>7. BehindInv(t) /\ BoundaryScan(t) /\ ForwardScan(w, t)
    BY <1>6, <1>10, <2>5, <2>6 DEF BehindInv, BoundaryScan, ForwardScan
  <2> QED BY <1>1, <1>3, <1>4, <1>6, <1>10, <2>2, <2>3, <2>4, <2>7, PersistOne
<1>11. CASE s.stage = 1 /\ s.full
  <2>1. PICK x \in Sweep : x = [s EXCEPT !.pc = "boundary"]
    BY <1>9 DEF Sweep
  <2>2. PICK t \in Sweep : t = [x EXCEPT !.mark = k]
    BY DEF Sweep
  <2>3. persist(w, x, saved)
    BY <1>2, <1>11, <2>1
  <2>4. x.pc = "boundary" /\ x.page = {} /\ x.mark = s.mark /\ x.cand = s.cand /\ x.seen = s.seen /\ x.off = s.off
    BY <1>1, <2>1 DEF Sweep
  <2>5. /\ t.pc = "boundary" /\ t.stage = 1 /\ t.page = {} /\ t.mark = k /\ t.cand = s.cand /\ t.last = s.last
        /\ t.seen = s.seen
    BY <1>1, <1>11, <2>1, <2>2 DEF Sweep
  <2>6. Owed(t) = Owed(s)
    BY <2>5 DEF Owed
  <2>7. BehindInv(t) /\ BoundaryScan(t) /\ ForwardScan(w, t)
    BY <1>6, <1>7, <1>11, <2>5, <2>6 DEF BehindInv, BoundaryScan, ForwardScan
  <2> QED BY <1>1, <1>3, <1>4, <1>6, <1>11, <2>2, <2>3, <2>4, <2>7, PersistOne
<1>12. CASE s.stage = 1 /\ ~s.full
  <2>1. PICK x \in Sweep : x = [s EXCEPT !.pc = "forward", !.stage = 2, !.ts = k.at, !.strict = TRUE, !.last = 0]
    BY <1>5, <1>9 DEF Sweep
  <2>2. PICK t \in Sweep : t = [x EXCEPT !.mark = k]
    BY DEF Sweep
  <2>3. persist(w, x, saved)
    BY <1>2, <1>3, <1>12, <2>1
  <2>4. /\ x.pc = "forward" /\ x.stage = 2 /\ x.page = {} /\ x.mark = s.mark /\ x.cand = s.cand /\ x.seen = s.seen
        /\ x.off = s.off
    BY <1>1, <2>1 DEF Sweep
  <2>5. /\ t.pc = "forward" /\ t.stage = 2 /\ t.page = {} /\ t.mark = k /\ t.cand = s.cand /\ t.seen = s.seen
        /\ t.ts = k.at /\ t.off = s.off
    BY <1>1, <1>12, <2>1, <2>2 DEF Sweep
  <2>6. Owed(t) = Owed(s)
    BY <2>5 DEF Owed
  <2>7. \A m \in Owed(t) : at[m] > t.ts /\ at[m] >= t.ts /\ Rank(w, t.ts, m) >= t.off + Cardinality(IdsOf(t.page))
    <3>1. \A m \in Owed(s) : at[m] \in Int
      BY <1>4, OwedStands DEF ScanInv
    <3> QED BY <1>5, <1>6, <1>7, <1>8, <1>12, <2>5, <2>6, <3>1, NoIds
  <2>8. t.cand.at <= t.ts /\ t.mark.at <= t.ts /\ t.off = 0
    BY <1>5, <1>6, <1>12, <2>5
  <2>9. BehindInv(t) /\ BoundaryScan(t) /\ ForwardScan(w, t)
    BY <2>5, <2>7, <2>8 DEF BehindInv, BoundaryScan, ForwardScan
  <2> QED BY <1>1, <1>3, <1>4, <2>2, <2>3, <2>4, <2>9, PersistOne
<1>13. CASE s.stage = 2 /\ s.full
  <2>1. s.pages + 1 \in 0..MaxPages
    BY <1>1, <1>4, <1>13, RelayAssumption DEF SweepInv, Sweep
  <2>2. PICK x \in Sweep : x = [s EXCEPT !.pc = "forward", !.pages = s.pages + 1]
    BY <1>9, <2>1 DEF Sweep
  <2>3. PICK t \in Sweep : t = [x EXCEPT !.mark = k]
    BY DEF Sweep
  <2>4. persist(w, x, saved)
    BY <1>2, <1>13, <2>2
  <2>5. /\ x.pc = "forward" /\ x.stage = 2 /\ x.page = {} /\ x.mark = s.mark /\ x.cand = s.cand /\ x.seen = s.seen
    BY <1>1, <1>13, <2>2 DEF Sweep
  <2>6. /\ t.pc = "forward" /\ t.stage = 2 /\ t.page = {} /\ t.mark = k /\ t.cand = s.cand /\ t.seen = s.seen
        /\ t.ts = s.ts /\ t.off = s.off /\ t.strict = s.strict
    BY <1>1, <1>13, <2>2, <2>3 DEF Sweep
  <2>7. Owed(t) = Owed(s)
    BY <2>6 DEF Owed
  <2>8. \A m \in Owed(t) : at[m] >= t.ts /\ Rank(w, t.ts, m) >= t.off + Cardinality(IdsOf(t.page))
    BY <1>5, <1>7, <1>13, <2>6, <2>7, NoIds
  <2>9. BehindInv(t) /\ BoundaryScan(t) /\ ForwardScan(w, t)
    BY <1>6, <1>13, <2>6, <2>8 DEF BehindInv, BoundaryScan, ForwardScan
  <2> QED BY <1>1, <1>3, <1>4, <2>3, <2>4, <2>5, <2>9, PersistOne
<1>14. CASE s.stage = 2 /\ ~s.full
  <2>1. PICK x \in Sweep : x = [s EXCEPT !.pc = "drain"]
    BY <1>9 DEF Sweep
  <2>2. PICK t \in Sweep : t = [x EXCEPT !.mark = k]
    BY DEF Sweep
  <2>3. persist(w, x, saved)
    BY <1>2, <1>14, <2>1
  <2>4. /\ x.pc = "drain" /\ x.stage = 2 /\ x.page = {} /\ x.mark = s.mark /\ x.cand = s.cand /\ x.seen = s.seen
    BY <1>1, <1>14, <2>1 DEF Sweep
  <2>5. t.pc = "drain"
    BY <2>1, <2>2 DEF Sweep
  <2>6. BehindInv(t) /\ BoundaryScan(t) /\ ForwardScan(w, t)
    BY <2>5 DEF BehindInv, BoundaryScan, ForwardScan, Paging, InHand
  <2> QED BY <1>1, <1>3, <1>4, <2>2, <2>3, <2>4, <2>6, PersistOne
<1> QED BY <1>4, <1>10, <1>11, <1>12, <1>13, <1>14

(***************************************************************************)
(* Steps outside the sweeps.                                               *)
(***************************************************************************)
LEMMA OutsideOne ==
    ASSUME IInv, IInv', OneInv, UNCHANGED <<marks, sweep, done>>, CutoffInv', IsFiniteSet(Live'),
           \A m \in Ids : Committed(m) => Committed(m)' /\ at'[m] = at[m] /\ topic'[m] = topic[m],
           \A w \in Workers : \A m \in scope(w) : at[m] >= marks[TopicOf(w)].at => status'[m] = "live"
    PROVE  OneInv'
<1>1. ASSUME NEW w \in Workers PROVE ScanInv(w, sweep[w])'
  <2>1. PICK s \in Sweep : s = sweep[w] /\ SweepInv(s) /\ ScanInv(w, s)
    BY OneFacts
  <2>2. TopicKept(w)
    <3>1. \A m \in scope(w) : m \in Ids /\ Committed(m) /\ topic[m] = TopicOf(w)
      BY DEF scope, Live, Committed
    <3>2. \A m \in scope(w) : at[m] >= marks[TopicOf(w)].at => m \in scope(w)'
      BY <3>1 DEF scope, Live
    <3> QED BY <3>2 DEF TopicKept
  <2>3. ScanInv(w, s)'
    BY <2>1, <2>2, OneFacts, ScanKept
  <2> QED BY <2>1, <2>3
<1>2. TopicsInv'
  BY DEF OneInv, TopicsInv
<1> QED BY <1>1, <1>2 DEF OneInv

LEMMA InsertOne ==
    ASSUME IInv, IInv', OneInv, NEW m \in Ids, NEW t \in Topics, NEW a \in Stamps, Insert(m, t, a)
    PROVE  OneInv'
<1>1. /\ status[m] = "free" /\ UNCHANGED <<marks, sweep, done, cleaner>>
      /\ \A n \in Ids : n # m => status'[n] = status[n] /\ at'[n] = at[n] /\ topic'[n] = topic[n]
      /\ status'[m] = "open"
  BY DEF Insert, IInv, TypeOK
<1>2. Live' = Live
  BY <1>1 DEF Live
<1>3. \A n \in Ids : Committed(n) => n # m /\ Committed(n)'
  BY <1>1 DEF Committed
<1>4. CutoffInv'
  BY <1>1 DEF OneInv, CutoffInv, IInv, CleanerInv, TypeOK
<1>5. \A w \in Workers : \A n \in scope(w) : status'[n] = "live"
  BY <1>1 DEF scope, Live
<1> QED BY <1>1, <1>2, <1>3, <1>4, <1>5, OutsideOne DEF OneInv, TopicsInv

LEMMA EndTxOne ==
    ASSUME IInv, IInv', OneInv, NEW m \in Ids, NEW o \in {"live", "void"}, EndTx(m, o)
    PROVE  OneInv'
<1>1. /\ status[m] = "open" /\ UNCHANGED <<marks, sweep, done, cleaner, at, topic>>
      /\ \A n \in Ids : n # m => status'[n] = status[n]
  BY DEF EndTx, IInv, TypeOK
<1>2. IsFiniteSet(Live')
  <2>1. Live' \in SUBSET (Live \cup {m})
    BY <1>1 DEF Live
  <2>2. IsFiniteSet(Live \cup {m})
    BY FS_AddElement DEF OneInv, TopicsInv
  <2> QED BY <2>1, <2>2, FS_Subset
<1>3. \A n \in Ids : Committed(n) => n # m /\ Committed(n)'
  BY <1>1 DEF Committed
<1>4. CutoffInv'
  BY <1>1 DEF OneInv, CutoffInv
<1>5. \A w \in Workers : \A n \in scope(w) : status'[n] = "live"
  BY <1>1 DEF scope, Live
<1> QED BY <1>1, <1>2, <1>3, <1>4, <1>5, OutsideOne

LEMMA StillOne ==
    ASSUME IInv, IInv', OneInv, UNCHANGED <<status, topic, at, done, marks, sweep>>, CutoffInv'
    PROVE  OneInv'
<1>1. Live' = Live /\ \A n \in Ids : Committed(n) => Committed(n)'
  BY DEF Live, Committed
<1>2. \A w \in Workers : \A n \in scope(w) : status'[n] = "live"
  BY DEF scope, Live
<1> QED BY <1>1, <1>2, OutsideOne DEF OneInv, TopicsInv

LEMMA TimeOne ==
    ASSUME IInv, IInv', OneInv, Settle \/ \E m \in Ids : RetryDue(m)
    PROVE  OneInv'
<1>1. UNCHANGED <<status, topic, at, done, marks, sweep, cleaner>>
  BY DEF Settle, RetryDue, rows
<1> QED BY <1>1, StillOne DEF OneInv, CutoffInv

LEMMA CleanupOne ==
    ASSUME IInv, IInv', OneInv, (\E c \in Stamps : CleanupStart(c)) \/ CleanupSelect
    PROVE  OneInv'
<1>1. UNCHANGED <<status, topic, at, done, marks, sweep>>
  BY DEF CleanupStart, CleanupSelect, rows
<1>2. CASE \E c \in Stamps : CleanupStart(c)
  <2>1. CutoffInv'
    BY <1>2, RelayAssumption DEF CleanupStart, CutoffInv, rows
  <2> QED BY <1>1, <2>1, StillOne
<1>3. CASE CleanupSelect
  <2>1. PICK S \in SUBSET Eligible(cleaner.cutoff) :
           cleaner' = IF S = {} THEN [pc |-> "idle", cutoff |-> 0, ids |-> {}]
                                ELSE [cleaner EXCEPT !.pc = "delete", !.ids = S]
    BY <1>3 DEF CleanupSelect
  <2>2. \A m \in S : at[m] < cleaner.cutoff
    BY DEF Eligible
  <2>3. CutoffInv'
    BY <1>1, <1>3, <2>1, <2>2 DEF CleanupSelect, OneInv, CutoffInv, IInv, TypeOK
  <2> QED BY <1>1, <2>3, StillOne
<1> QED BY <1>2, <1>3

LEMMA DeleteOne == ASSUME IInv, IInv', OneInv, CleanupDelete PROVE OneInv'
<1>1. /\ UNCHANGED <<topic, at, done, marks, sweep>> /\ cleaner.pc = "delete"
      /\ \A m \in Ids : status'[m] = IF m \in cleaner.ids THEN "gone" ELSE status[m]
      /\ cleaner' = [cleaner EXCEPT !.pc = "select", !.ids = {}]
  BY DEF CleanupDelete
<1>2. /\ \A m \in cleaner.ids : at[m] < cleaner.cutoff
      /\ \A t \in Served : IsSet(marks[t]) /\ cleaner.cutoff <= marks[t].at
  BY <1>1 DEF OneInv, CutoffInv
<1>3. IsFiniteSet(Live')
  <2>1. Live' \in SUBSET Live
    BY <1>1 DEF Live
  <2> QED BY <2>1, FS_Subset DEF OneInv, TopicsInv
<1>4. CutoffInv'
  BY <1>1, <1>2 DEF CutoffInv, IInv, TypeOK
<1>5. \A m \in Ids : Committed(m) => Committed(m)'
  BY <1>1 DEF Committed
<1>6. ASSUME NEW w \in Workers, NEW m \in scope(w), at[m] >= marks[TopicOf(w)].at PROVE status'[m] = "live"
  <2>1. m \in Ids /\ status[m] = "live"
    BY DEF scope, Live
  <2>2. TopicOf(w) \in Served /\ TopicOf(w) \in Topics
    BY RelayAssumption DEF Workers, TopicOf
  <2>3. marks[TopicOf(w)] \in Mark
    BY <2>2 DEF IInv, TypeOK
  <2>4. at[m] \in Int /\ marks[TopicOf(w)].at \in Int
    BY <2>1, <2>3, StampInts, MarkInts
  <2>5. cleaner.cutoff \in Int
    <3>1. \A a \in Stamps : a \in Int
      BY RelayAssumption DEF Stamps
    <3> QED BY <3>1 DEF IInv, TypeOK
  <2>6. m \notin cleaner.ids
    BY <1>2, <1>6, <2>2, <2>4, <2>5
  <2> QED BY <1>1, <2>1, <2>6
<1> QED BY <1>1, <1>3, <1>4, <1>5, <1>6, OutsideOne

LEMMA SweepStepOne ==
    ASSUME OneProcess, IInv, IInv', OneInv, NEW w \in Workers, SweepStep(w) \/ Abort(w)
    PROVE  OneInv'
  BY StartSweepOne, LookBehindOne, BoundaryOne, ForwardOne, SkipOne, CallOne, HandlerOne, AckOne, SweepEndOne,
     PageDoneOne, DrainOne
  DEF SweepStep

LEMMA InitOne == Init => OneInv
<1> SUFFICES ASSUME Init PROVE OneInv
  OBVIOUS
<1>1. TopicsInv
  <2>1. Live = {}
    BY DEF Init, Live
  <2> QED BY <2>1, FS_EmptySet DEF Init, TopicsInv
<1>2. CutoffInv
  BY DEF Init, CutoffInv
<1>3. \A w \in Workers : ScanInv(w, sweep[w])
  BY ScanIdle DEF Init
<1> QED BY <1>1, <1>2, <1>3 DEF OneInv

LEMMA NextOne == ASSUME OneProcess PROVE IInv /\ IInv' /\ OneInv /\ [Next]_vars => OneInv'
<1> SUFFICES ASSUME IInv, IInv', OneInv, [Next]_vars PROVE OneInv'
  OBVIOUS
<1>1. CASE \E m \in Ids, t \in Topics, a \in Stamps : Insert(m, t, a)
  BY <1>1, InsertOne
<1>2. CASE \E m \in Ids : Commit(m) \/ Rollback(m)
  BY <1>2, EndTxOne DEF Commit, Rollback
<1>3. CASE Settle \/ \E m \in Ids : RetryDue(m)
  BY <1>3, TimeOne
<1>4. CASE \E w \in Workers : SweepStep(w) \/ Abort(w)
  BY <1>4, SweepStepOne
<1>5. CASE (\E c \in Stamps : CleanupStart(c)) \/ CleanupSelect
  BY <1>5, CleanupOne
<1>6. CASE CleanupDelete
  BY <1>6, DeleteOne
<1>7. CASE UNCHANGED vars
  <2>1. UNCHANGED <<status, topic, at, done, marks, sweep, cleaner>>
    BY <1>7 DEF vars, rows
  <2> QED BY <2>1, StillOne DEF OneInv, CutoffInv
<1> QED BY <1>1, <1>2, <1>3, <1>4, <1>5, <1>6, <1>7 DEF Next

\* Head of line, for one process and any number of topics, rows, pages and
\* late commits: a handler is called on a message only when every earlier
\* message of its topic that was committed when the sweep began is
\* acknowledged.
THEOREM HeadFirst == ASSUME OneProcess PROVE Spec => []HeadOfLine
<1>1. IInv /\ OneInv => HeadOfLine
  <2> SUFFICES ASSUME IInv, OneInv, NEW w \in Workers, sweep[w].pc = "call",
                      NEW m \in sweep[w].seen, Before(m, sweep[w].row.id), ~done[m]
               PROVE  FALSE
    BY DEF HeadOfLine
  <2>1. PICK s \in Sweep : s = sweep[w] /\ SweepInv(s) /\ ScanInv(w, s)
    BY OneFacts
  <2>2. m \in Owed(s) /\ m \in Ids /\ s.row \in s.page /\ s.row.id \in Ids /\ IsHead(s.row, s.page)
    BY <2>1, SweepRows DEF Owed, ScanInv, PageInv, InHand, Sweep
  <2>3. TypeOK /\ Before(m, s.row.id) /\ ~Before(s.row.id, m)
    BY <2>1, <2>2, BeforeOrder DEF IInv
  <2>4. m \notin IdsOf(s.page)
    <3> SUFFICES ASSUME NEW q \in s.page, m = q.id PROVE FALSE
      BY DEF IdsOf
    <3> QED BY <2>2, <2>3, BeforeOrder DEF IsHead
  <2>5. at[m] \in Int /\ at[s.row.id] \in Int /\ at[m] <= at[s.row.id] /\ s.mark.at \in Int
    BY <2>2, <2>3, StampInts, SweepInts, BeforeOrder
  <2>6. s.stage \in 0..2
    BY DEF Sweep
  <2>7. CASE s.stage = 0
    <3>1. s.mark.id \in Int /\ m \in Int /\ s.row.id \in Int
      <4>1. \A i \in Ids : i \in Int
        BY RelayAssumption
      <4> QED BY <2>2, <4>1, MarkInts DEF Sweep
    <3>2. covers(s.mark, at[s.row.id], s.row.id)
      BY <2>1, <2>2, <2>7 DEF ScanInv, BehindInv, Paging, InHand
    <3>3. covers(s.mark, at[m], m)
      BY <2>3, <2>5, <3>1, <3>2 DEF covers, Before
    <3> QED BY <2>1, <2>2, <2>3, <2>4, <2>7, <3>3 DEF ScanInv, BehindInv, Paging, InHand
  <2>8. CASE s.stage = 1
    <3>1. at[s.row.id] = s.mark.at
      BY <2>1, <2>2, <2>8 DEF ScanInv, BoundaryScan, Paging, InHand
    <3> QED BY <2>1, <2>2, <2>3, <2>4, <2>5, <2>8, <3>1 DEF ScanInv, BoundaryScan, Paging, InHand
  <2>9. CASE s.stage = 2
    BY <2>1, <2>2, <2>3, <2>4, <2>9 DEF ScanInv, ForwardScan, Paging, InHand
  <2> QED BY <2>6, <2>7, <2>8, <2>9
<1> QED BY <1>1, Invariance, InitOne, NextOne, PTL DEF Spec

(***************************************************************************)
(* What the scans and the cleanup write is final.                          *)
(***************************************************************************)

\* Only Call starts a handler, and only on a row that is not acknowledged.
LEMMA CallsPending ==
    ASSUME IInv, IInv', OneInv, [Next]_vars, NEW v \in Workers, sweep'[v].pc = "call", sweep[v].pc # "call"
    PROVE  ~done[sweep'[v].row.id]
<1>1. ASSUME NEW w \in Workers, w # v, NEW s, Set(w, s) PROVE FALSE
  BY <1>1 DEF Set, IInv, TypeOK
<1>2. ASSUME NEW s, Set(v, s) PROVE sweep'[v] = s
  BY <1>2 DEF Set, IInv, TypeOK
<1>3. PICK w \in Workers : SweepStep(w) \/ Abort(w)
  <2>1. sweep' # sweep
    OBVIOUS
  <2> QED BY <2>1 DEF Next, vars, Insert, Commit, Rollback, EndTx, RetryDue, Settle, CleanupStart, CleanupSelect,
                      CleanupDelete
<1>4. \E s : Set(w, s)
  BY <1>3 DEF SweepStep, StartSweep, LookBehind, Boundary, Forward, Skip, RetryLater, Call, HandlerTakes,
              HandlerFails, Undecodable, Complete, Fail, Park, PageDone, persist, Drain, Finish, Abort, EndSweep
<1>5. w = v
  BY <1>1, <1>4
<1>6. PICK s \in Sweep : s = sweep[v] /\ SweepInv(s) /\ ScanInv(v, s)
  BY OneFacts
<1>7. CASE Call(v)
  <2>1. PICK r \in s.page : ~Passed(s, r) /\ Set(v, [s EXCEPT !.pc = "call", !.row = r])
    BY <1>6, <1>7 DEF Call
  <2>2. sweep'[v] = [s EXCEPT !.pc = "call", !.row = r]
    BY <1>2, <2>1
  <2>3. sweep'[v].row = r
    BY <2>2 DEF Sweep
  <2>4. ~r.done
    BY <1>6, <2>1 DEF Passed, SweepInv
  <2> QED BY <1>6, <2>3, <2>4 DEF ScanInv, PageInv
<1>8. CASE ~Call(v)
  <2>1. \A x : PassRow(s, x).pc = "row"
    BY DEF PassRow, Sweep
  <2>2. \A x \in Steps : [s EXCEPT !.pc = x].pc = x
    BY DEF Sweep
  <2>3. CASE Skip(v) \/ Complete(v) \/ Park(v)
    <3>1. \E x : Set(v, PassRow(s, x))
      BY <1>6, <2>3 DEF Skip, Complete, Park
    <3> QED BY <1>2, <2>1, <3>1
  <2>4. CASE HandlerTakes(v) \/ HandlerFails(v) \/ Undecodable(v)
    BY <1>6, <2>4 DEF HandlerTakes, HandlerFails, Undecodable
  <2>5. CASE RetryLater(v) \/ Fail(v) \/ Finish(v) \/ Abort(v)
    <3>1. Set(v, Idle)
      BY <2>5 DEF RetryLater, Fail, Finish, Abort, EndSweep
    <3> QED BY <1>2, <3>1 DEF Idle
  <2>6. CASE StartSweep(v)
    <3>1. PICK x \in {"behind", "forward"} : \E st, k, c, sc :
             Set(v, [Idle EXCEPT !.pc = x, !.stage = st, !.mark = k, !.cand = k, !.cutoff = c, !.seen = sc])
      BY <2>6 DEF StartSweep
    <3>2. sweep'[v].pc = x
      BY <1>2, <3>1 DEF Idle
    <3> QED BY <3>1, <3>2
  <2>7. CASE LookBehind(v)
    <3>1. PICK x \in {[s EXCEPT !.pc = "finish"], [s EXCEPT !.pc = "boundary", !.stage = 1, !.last = s.mark.id],
                      [s EXCEPT !.pc = "row", !.pages = s.pages + 1, !.page = ReadPage(Slice(Pending(v), 0))]} :
             Set(v, x)
      BY <1>6, <2>7 DEF LookBehind
    <3>2. x.pc # "call"
      BY <3>1 DEF Sweep
    <3> QED BY <1>2, <3>1, <3>2
  <2>8. CASE Boundary(v)
    BY <1>2, <1>6, <2>8, ZenonT(60) DEF Boundary, Sweep
  <2>9. CASE Forward(v)
    <3>1. PICK x \in {[s EXCEPT !.pc = "finish"], [s EXCEPT !.pc = "drain"],
                      [s EXCEPT !.pc = "row", !.page = ReadPage(scanForward(v)), !.strict = FALSE,
                                !.full = Cardinality(scanForward(v)) = Batch]} : Set(v, x)
      BY <1>6, <2>9 DEF Forward
    <3>2. x.pc # "call"
      BY <3>1 DEF Sweep
    <3> QED BY <1>2, <3>1, <3>2
  <2>10. CASE Drain(v)
    <3>1. PICK c : Set(v, [s EXCEPT !.pc = "finish", !.cand = c])
      BY <1>6, <2>10 DEF Drain
    <3>2. sweep'[v].pc = "finish"
      BY <1>2, <3>1 DEF Sweep
    <3> QED BY <3>2
  <2>11. CASE PageDone(v)
    <3>1. s.stage \in 0..2 /\ s.full \in BOOLEAN
      BY DEF Sweep
    <3>2. PICK saved \in BOOLEAN :
             LET k == IF Advances(s) /\ saved THEN s.cand ELSE s.mark IN
             persist(v, CASE s.stage = 0 -> [s EXCEPT !.pc = "behind"]
                          [] s.stage = 1 /\ s.full -> [s EXCEPT !.pc = "boundary"]
                          [] s.stage = 1 /\ ~s.full ->
                                [s EXCEPT !.pc = "forward", !.stage = 2, !.ts = k.at, !.strict = TRUE,
                                          !.last = 0]
                          [] s.stage = 2 /\ s.full -> [s EXCEPT !.pc = "forward", !.pages = @ + 1]
                          [] s.stage = 2 /\ ~s.full -> [s EXCEPT !.pc = "drain"], saved)
      BY <1>6, <2>11 DEF PageDone
    <3>3. PICK x \in {[s EXCEPT !.pc = "behind"], [s EXCEPT !.pc = "boundary"], [s EXCEPT !.pc = "drain"],
                      [s EXCEPT !.pc = "forward", !.pages = s.pages + 1],
                      [s EXCEPT !.pc = "forward", !.stage = 2,
                                !.ts = (IF Advances(s) /\ saved THEN s.cand ELSE s.mark).at,
                                !.strict = TRUE, !.last = 0]} : persist(v, x, saved)
      BY <3>1, <3>2
    <3>4. x.pc # "call" /\ \A k : [x EXCEPT !.mark = k].pc # "call"
      BY <3>3 DEF Sweep
    <3> QED BY <1>2, <3>3, <3>4 DEF persist
  <2> QED BY <1>3, <1>5, <1>8, <2>3, <2>4, <2>5, <2>6, <2>7, <2>8, <2>9, <2>10, <2>11 DEF SweepStep
<1> QED BY <1>7, <1>8

LEMMA MarkSteps ==
    ASSUME OneProcess, IInv, IInv', OneInv, [Next]_vars, NEW t \in Topics, marks'[t] # marks[t]
    PROVE  ~covers(marks[t], marks'[t].at, marks'[t].id)
<1>1. marks' # marks
  OBVIOUS
<1>2. PICK w \in Workers : SweepStep(w) \/ Abort(w)
  BY <1>1 DEF Next, vars, Insert, Commit, Rollback, EndTx, RetryDue, Settle, CleanupStart, CleanupSelect,
              CleanupDelete
<1>3. RetryLater(w) \/ Fail(w) \/ Finish(w) \/ Abort(w) \/ PageDone(w)
  BY <1>1, <1>2 DEF SweepStep, StartSweep, LookBehind, Boundary, Forward, Skip, Call, HandlerTakes, HandlerFails,
                    Undecodable, Complete, Park, Drain, QueryFrame
<1>4. MarkMoves(w)
  BY <1>3, SweepEndOne, PageDoneOne
<1>5. PICK k \in Mark :
        /\ marks' = [marks EXCEPT ![TopicOf(w)] = k]
        /\ k = marks[TopicOf(w)] \/ (IsSet(k) /\ after(marks[TopicOf(w)], k.at, k.id))
  BY <1>4 DEF MarkMoves
<1>6. t = TopicOf(w) /\ marks'[t] = k
  BY <1>5 DEF IInv, TypeOK
<1> QED BY <1>5, <1>6 DEF after

LEMMA DoneSteps == ASSUME IInv, [Next]_vars, NEW m \in Ids, done[m] PROVE done'[m]
<1>1. CASE \E w \in Workers : Complete(w) \/ Park(w)
  <2>1. PICK w \in Workers : Complete(w) \/ Park(w)
    BY <1>1
  <2>2. \E n : done' = [done EXCEPT ![n] = done[n] \/ status[n] = "live"]
    BY <2>1 DEF Complete, Park
  <2> QED BY <2>2 DEF IInv, TypeOK
<1>2. CASE ~ \E w \in Workers : Complete(w) \/ Park(w)
  <2>1. done' = done
    BY <1>2, ZenonT(60) DEF Next, vars, rows, Insert, Commit, Rollback, EndTx, RetryDue, Settle, CleanupStart, CleanupSelect,
                CleanupDelete, SweepStep, StartSweep, LookBehind, Boundary, Forward, Skip, RetryLater, Call,
                HandlerTakes, HandlerFails, Undecodable, Fail, PageDone, Drain, Finish, Abort, QueryFrame
  <2> QED BY <2>1
<1> QED BY <1>1, <1>2

LEMMA GoneSteps ==
    ASSUME IInv, OneInv, [Next]_vars, NEW m \in Ids, status'[m] = "gone", status[m] # "gone"
    PROVE  /\ \A t \in Served : IsSet(marks[t])
           /\ \A t \in Topics : IsSet(marks[t]) => at[m] < marks[t].at
<1>1. CASE CleanupDelete
  <2>1. m \in cleaner.ids /\ cleaner.pc = "delete"
    BY <1>1 DEF CleanupDelete
  <2>2. at[m] < cleaner.cutoff /\ \A t \in Served : IsSet(marks[t]) /\ cleaner.cutoff <= marks[t].at
    BY <2>1 DEF OneInv, CutoffInv
  <2>3. at[m] \in Int /\ cleaner.cutoff \in Int /\ \A t \in Topics : marks[t].at \in Int
    <3>1. \A a \in Stamps : a \in Int
      BY RelayAssumption DEF Stamps
    <3>2. \A t \in Topics : marks[t] \in Mark
      BY DEF IInv, TypeOK
    <3> QED BY <3>1, <3>2, MarkInts, StampInts DEF IInv, TypeOK
  <2>4. \A t \in Topics : IsSet(marks[t]) => t \in Served
    BY DEF OneInv, TopicsInv, IsSet, NoMark
  <2> QED BY <2>2, <2>3, <2>4, RelayAssumption
<1>2. CASE \E n \in Ids, t \in Topics, a \in Stamps : Insert(n, t, a)
  BY <1>2 DEF Insert, IInv, TypeOK
<1>3. CASE \E n \in Ids : Commit(n) \/ Rollback(n)
  BY <1>3 DEF Commit, Rollback, EndTx, IInv, TypeOK
<1>4. CASE UNCHANGED status
  BY <1>4
<1>5. (\E w \in Workers : SweepStep(w) \/ Abort(w)) => UNCHANGED status
  BY ZenonT(60) DEF SweepStep, StartSweep, LookBehind, Boundary, Forward, Skip, RetryLater, Call, HandlerTakes, HandlerFails,
         Undecodable, Complete, Fail, Park, PageDone, Drain, Finish, Abort, QueryFrame, rows
<1> QED BY <1>1, <1>2, <1>3, <1>4, <1>5
        DEF Next, vars, rows, RetryDue, Settle, CleanupStart, CleanupSelect

\* For one process, no acknowledged message is delivered again, no watermark
\* goes back, and no row is removed that a scan may still have to pass.
THEOREM ScansAreFinal == ASSUME OneProcess PROVE Spec => ScanIsFinal
<1>1. IInv /\ IInv' /\ OneInv /\ [Next]_vars
        => [\A m \in Ids : done[m] =>
               /\ done'[m]
               /\ \A w \in Workers : sweep'[w].pc = "call" /\ sweep[w].pc # "call"
                                       => sweep'[w].row.id # m]_vars
  BY DoneSteps, CallsPending
<1>2. IInv /\ IInv' /\ OneInv /\ [Next]_vars
        => [\A t \in Topics : marks'[t] # marks[t] => ~covers(marks[t], marks'[t].at, marks'[t].id)]_vars
  BY MarkSteps
<1>3. IInv /\ IInv' /\ OneInv /\ [Next]_vars
        => [\A m \in Ids : status'[m] = "gone" /\ status[m] # "gone" =>
               /\ \A t \in Served : IsSet(marks[t])
               /\ \A t \in Topics : IsSet(marks[t]) => at[m] < marks[t].at]_vars
  BY GoneSteps
<1>4. Spec => []OneInv
  BY Invariance, InitOne, NextOne, PTL DEF Spec
<1>5. Spec => NoRedelivery
  BY <1>1, <1>4, Invariance, PTL DEF Spec, NoRedelivery
<1>6. Spec => WatermarkAdvances
  BY <1>2, <1>4, Invariance, PTL DEF Spec, WatermarkAdvances
<1>7. Spec => CleanupBelowWatermarks
  BY <1>3, <1>4, Invariance, PTL DEF Spec, CleanupBelowWatermarks
<1> QED BY <1>5, <1>6, <1>7 DEF ScanIsFinal

-----------------------------------------------------------------------------
(* Dead letters.  A call holds the rows it deleted, which no other holds;  *)
(* it counts those that were still there, and goes on only if all were.    *)

TakeFields == {"at", "op", "seen", "ids", "left", "rows", "gone", "deleted", "made"}
IsTake(job) == job = [f \in TakeFields |-> job[f]]
TakesShape == calls = [c \in Takers |-> calls[c]] /\ \A c \in Takers : IsTake(calls[c])

\* What a call made of the rows it has been through, the first enqueued first, and those left are no older.
MadeOK(job, c) ==
  /\ \A m \in job.made : m.by = c /\ m.id \in Nat /\ m.id <= lastId /\ m.of \in job.ids \ job.rows
  /\ \A id \in job.ids \ job.rows : \E m \in job.made : m.of = id
  /\ \A m, n \in job.made : m.of = n.of => m = n
  /\ \A m, n \in job.made : m.id < n.id => CreatedAt[m.of] <= CreatedAt[n.of]
  /\ \A m \in job.made, id \in job.rows : CreatedAt[m.of] <= CreatedAt[id]

TakeOK(c) ==
  LET job == calls[c]
      kept == job.gone \cap DOMAIN parked
  IN  /\ job.at \in {"idle", "read", "delete", "count", "create", "commit", "failed", "done"}
      /\ job.op \in {"", "requeue", "discard"} /\ (job.at \in {"create", "commit"} => job.op # "")
      /\ job.ids \subseteq DeadIds /\ job.left \subseteq job.ids /\ job.rows \subseteq job.ids /\ job.seen \subseteq DeadIds
      /\ job.at \in {"idle", "read", "failed", "done"} => job.gone = {} /\ job.made = {} /\ job.deleted = 0
      /\ job.at \in {"idle", "failed", "done"} => job.ids = {}
      /\ job.at \in {"read", "delete", "count", "create", "commit"} => job.op # ""
      /\ job.at \in {"delete", "count"} => /\ job.rows = job.ids /\ job.made = {} /\ job.ids \subseteq Lettered
                                           /\ job.deleted = Cardinality(kept)
      /\ job.at = "read" => job.rows \subseteq Lettered
      /\ job.at = "delete" => job.gone = job.ids \ job.left
      /\ job.at \in {"count", "create", "commit"} => job.gone = job.ids
      /\ job.at \in {"create", "commit"} => job.ids \subseteq DOMAIN parked
      /\ job.at = "create" => job.op = "requeue" /\ MadeOK(job, c)
      /\ job.at = "commit" => IF job.op = "requeue" THEN job.rows = {} /\ MadeOK(job, c) ELSE job.made = {}

GoneApart == \A c, d \in Takers : c # d => calls[c].gone \cap calls[d].gone = {}
MessagesOK == \A m \in messages : m.by \in Takers /\ calls[m.by].at = "done" /\ m.id \in Nat /\ m.id <= lastId
TakenOK == \A t \in taken : t.op \in {"requeue", "discard"}

DeadInv ==
  /\ TakesShape /\ lastId \in Nat /\ DOMAIN parked \subseteq DeadIds
  /\ GoneApart /\ MessagesOK /\ TakenOK /\ TakenOnce
  /\ \A c \in Takers : TakeOK(c)

LEMMA TakeFacts ==
  ASSUME DeadInv, NEW c \in Takers
  PROVE  /\ IsTake(calls[c]) /\ TakeOK(c)
         /\ \A job : calls' = [calls EXCEPT ![c] = job] => calls'[c] = job /\ \A d \in Takers : d # c => calls'[d] = calls[d]
  BY DEF DeadInv, TakesShape

\* What a call has not begun or has ended.
LEMMA EndedOK ==
  ASSUME NEW c, NEW next \in {"idle", "failed", "done"}, NEW seen \in SUBSET DeadIds,
         (calls'[c] = [NoTake EXCEPT !.seen = seen] /\ next = "idle") \/ calls'[c] = [NoTake EXCEPT !.at = next]
  PROVE  TakeOK(c)' /\ calls'[c].gone = {} /\ calls'[c].at = next
<1>1. /\ calls'[c].at = next /\ calls'[c].op = "" /\ calls'[c].seen \subseteq DeadIds /\ calls'[c].ids = {} /\ calls'[c].left = {}
      /\ calls'[c].rows = {} /\ calls'[c].gone = {} /\ calls'[c].deleted = 0 /\ calls'[c].made = {}
  BY DEF NoTake
<1>2. QED
  BY <1>1 DEF TakeOK

LEMMA EndedIsTake ==
  ASSUME NEW next
  PROVE  IsTake([NoTake EXCEPT !.at = next])
  BY DEF IsTake, NoTake, TakeFields

LEMMA SeenIsTake ==
  ASSUME NEW seen
  PROVE  IsTake([NoTake EXCEPT !.seen = seen])
  BY DEF IsTake, NoTake, TakeFields

\* A step inside one call, before its commit: the others stand as before, if it took no row of theirs.
LEMMA LocalStep ==
  ASSUME DeadInv, NEW c \in Takers, NEW job, IsTake(job), calls' = [calls EXCEPT ![c] = job],
         UNCHANGED <<parked, unacked, messages, taken>>, lastId' \in Nat, lastId <= lastId', calls[c].at # "done",
         TakeOK(c)', \A d \in Takers : d # c => job.gone \cap calls[d].gone = {}
  PROVE  DeadInv'
<1>1. calls'[c] = job /\ \A d \in Takers : d # c => calls'[d] = calls[d]
  BY TakeFacts
<1>2. TakesShape'
  BY DEF DeadInv, TakesShape
<1>3. GoneApart'
  BY <1>1 DEF DeadInv, GoneApart
<1>4. MessagesOK'
  BY <1>1 DEF DeadInv, MessagesOK
<1>5. TakenOnce' /\ TakenOK' /\ (DOMAIN parked \subseteq DeadIds)'
  BY DEF DeadInv, TakenOnce, TakenOK
<1>6. ASSUME NEW d \in Takers, d # c PROVE TakeOK(d)'
  <2>1. TakeOK(d) /\ calls'[d] = calls[d]
    BY <1>1, <1>6 DEF DeadInv
  <2>2. MadeOK(calls[d], d) => MadeOK(calls[d], d)'
    <3>1. lastId \in Nat
      BY DEF DeadInv
    <3>2. QED
      BY <2>1, <3>1 DEF MadeOK
  <2>3. Lettered' = Lettered
    BY DEF Lettered
  <2>4. QED
    BY <2>1, <2>2, <2>3 DEF TakeOK
<1>7. QED
  BY <1>2, <1>3, <1>4, <1>5, <1>6 DEF DeadInv

LEMMA ParksStep ==
  ASSUME DeadInv, NEW id \in DeadIds, Parks(id)
  PROVE  DeadInv'
<1>1. /\ id \notin Lettered /\ DOMAIN parked' = DOMAIN parked \cup {id} /\ unacked' = unacked /\ messages' = messages
      /\ lastId' = lastId /\ calls' = calls /\ taken' = taken
  BY DEF Parks
<1>2. Lettered \subseteq Lettered' /\ \A t \in taken : t.id # id
  BY <1>1 DEF Lettered
<1>3. TakenOnce' /\ TakenOK' /\ (DOMAIN parked \subseteq DeadIds)' /\ TakesShape' /\ GoneApart' /\ MessagesOK'
  BY <1>1, <1>2 DEF DeadInv, TakenOnce, TakenOK, TakesShape, GoneApart, MessagesOK
<1>4. ASSUME NEW c \in Takers PROVE TakeOK(c)'
  <2>1. TakeOK(c)
    BY DEF DeadInv
  <2>2. calls[c].at \in {"delete", "count"} => calls[c].gone \cap DOMAIN parked' = calls[c].gone \cap DOMAIN parked
    <3>1. calls[c].at \in {"delete", "count"} => calls[c].gone \subseteq Lettered
      BY <2>1 DEF TakeOK
    <3>2. QED
      BY <3>1, <1>1
  <2>3. MadeOK(calls[c], c)' <=> MadeOK(calls[c], c)
    BY <1>1 DEF MadeOK
  <2>4. QED
    BY <1>1, <1>2, <2>1, <2>2, <2>3 DEF TakeOK
<1>5. QED
  BY <1>1, <1>3, <1>4 DEF DeadInv

LEMMA DeadStep ==
  ASSUME DeadInv, NEW c \in Takers, NEW limit, Dead(c, limit)
  PROVE  DeadInv'
<1>1. PICK seen \in SUBSET DOMAIN parked : calls' = [calls EXCEPT ![c] = [NoTake EXCEPT !.seen = seen]]
  BY DEF Dead, Goes
<1>2. calls[c].at = "idle" /\ UNCHANGED <<parked, unacked, messages, lastId, taken>>
  BY DEF Dead
<1>3. seen \in SUBSET DeadIds
  BY DEF DeadInv
<1>4. calls'[c] = [NoTake EXCEPT !.seen = seen]
  BY <1>1, TakeFacts
<1>6. TakeOK(c)' /\ calls'[c].gone = {}
  BY <1>3, <1>4, EndedOK
<1>7. QED
  <2>1. PICK job : job = calls'[c]
    OBVIOUS
  <2>2. IsTake(job) /\ calls' = [calls EXCEPT ![c] = job] /\ job.gone = {}
    BY <1>1, <1>4, <1>6, <2>1, SeenIsTake
  <2>3. lastId' \in Nat /\ lastId <= lastId' /\ calls[c].at # "done"
    BY <1>2 DEF DeadInv
  <2>4. QED
    BY <1>2, <1>6, <2>2, <2>3, LocalStep

LEMMA FailStep ==
  ASSUME DeadInv, NEW c \in Takers, calls' = [calls EXCEPT ![c] = [NoTake EXCEPT !.at = "failed"]], calls[c].at # "done",
         UNCHANGED <<parked, unacked, messages, lastId, taken>>
  PROVE  DeadInv'
<1>1. calls'[c] = [NoTake EXCEPT !.at = "failed"]
  BY TakeFacts
<1>2. TakeOK(c)' /\ calls'[c].gone = {}
  BY <1>1, EndedOK
<1>3. QED
  <2>1. PICK job : job = calls'[c]
    OBVIOUS
  <2>2. IsTake(job) /\ calls' = [calls EXCEPT ![c] = job] /\ job.gone = {}
    BY <1>1, <1>2, <2>1, EndedIsTake, ZenonT(60)
  <2>3. lastId' \in Nat /\ lastId <= lastId'
    BY DEF DeadInv
  <2>4. QED
    BY <1>2, <2>2, <2>3, LocalStep

LEMMA TakeDeadStep ==
  ASSUME DeadInv, NEW c \in Takers, NEW op \in {"requeue", "discard"}, NEW ids \in SUBSET DeadIds, takeDead(c, op, ids)
  PROVE  DeadInv'
<1> DEFINE job == [NoTake EXCEPT !.at = "read", !.op = op, !.ids = ids, !.left = ids]
<1>1. calls[c].at = "idle" /\ calls' = [calls EXCEPT ![c] = job] /\ UNCHANGED <<parked, unacked, messages, lastId, taken>>
  BY DEF takeDead, Goes
<1>2. /\ IsTake(job) /\ job.at = "read" /\ job.op = op /\ job.seen = {} /\ job.ids = ids /\ job.left = ids /\ job.rows = {}
      /\ job.gone = {} /\ job.deleted = 0 /\ job.made = {}
  BY DEF IsTake, NoTake, TakeFields
<1>3. calls'[c] = job
  BY <1>1, TakeFacts
<1> HIDE DEF job
<1>4. TakeOK(c)'
  BY <1>2, <1>3 DEF TakeOK
<1>5. QED
  <2>1. lastId' \in Nat /\ lastId <= lastId' /\ calls[c].at # "done"
    BY <1>1 DEF DeadInv
  <2>2. QED
    BY <1>1, <1>2, <1>4, <2>1, LocalStep

\* A chunk is of the ids left, and the sets are finite.
LEMMA ChunkFacts ==
  ASSUME DeadInv, NEW c \in Takers
  PROVE  /\ Chunk(calls[c]) \subseteq calls[c].left
         /\ \A S \in SUBSET DeadIds : IsFiniteSet(S) /\ Cardinality(S) \in Nat
<1>1. \A S \in SUBSET DeadIds : IsFiniteSet(S) /\ Cardinality(S) \in Nat
  BY DeadAssumption, FS_Subset, FS_CardinalityType
<1>2. QED
  BY <1>1 DEF Chunk

LEMMA ReadStep ==
  ASSUME DeadInv, NEW c \in Takers, ReadChunk(c)
  PROVE  DeadInv'
<1> DEFINE old == calls[c]
<1>0. PICK chunk, found : chunk = Chunk(old) /\ found = old.rows \cup (chunk \cap DOMAIN parked)
  OBVIOUS
<1>1. old.at = "read" /\ UNCHANGED <<parked, unacked, messages, lastId, taken>>
  BY DEF ReadChunk
<1>2. \/ calls' = [calls EXCEPT ![c] = [calls[c] EXCEPT !.rows = found, !.left = calls[c].left \ chunk]]
      \/ calls' = [calls EXCEPT ![c] = [NoTake EXCEPT !.at = "failed"]]
      \/ /\ ~ (Cardinality(found) < Cardinality(old.ids))
         /\ calls' = [calls EXCEPT ![c] = [calls[c] EXCEPT !.at = "delete", !.rows = found, !.left = calls[c].ids]]
  BY <1>0 DEF ReadChunk, Goes
<1>3. IsTake(old) /\ TakeOK(c) /\ chunk \subseteq old.left
  BY <1>0, TakeFacts, ChunkFacts
<1>4. /\ old.left \subseteq old.ids /\ old.rows \subseteq old.ids /\ old.ids \subseteq DeadIds /\ old.seen \subseteq DeadIds
      /\ old.gone = {} /\ old.made = {} /\ old.deleted = 0 /\ old.op \in {"requeue", "discard"}
  BY <1>1, <1>3 DEF TakeOK
<1>5. found \subseteq old.ids /\ found \subseteq old.rows \cup DOMAIN parked
  BY <1>0, <1>3, <1>4
<1>6. lastId' \in Nat /\ lastId <= lastId' /\ old.at # "done"
  BY <1>1 DEF DeadInv
<1>7. CASE calls' = [calls EXCEPT ![c] = [NoTake EXCEPT !.at = "failed"]]
  BY <1>1, <1>6, <1>7, FailStep
<1>8. CASE calls' = [calls EXCEPT ![c] = [calls[c] EXCEPT !.rows = found, !.left = calls[c].left \ chunk]]
  <2> DEFINE job == [calls[c] EXCEPT !.rows = found, !.left = calls[c].left \ chunk]
  <2>1. /\ IsTake(job) /\ job.at = "read" /\ job.op = old.op /\ job.seen = old.seen /\ job.ids = old.ids /\ job.left = old.left \ chunk
        /\ job.rows = found /\ job.gone = {} /\ job.deleted = 0 /\ job.made = {}
    BY <1>1, <1>3, <1>4 DEF IsTake, TakeFields
  <2>2. calls'[c] = job
    BY <1>8, TakeFacts
  <2> HIDE DEF job
  <2>6. found \subseteq Lettered'
    BY <1>1, <1>3, <1>5 DEF TakeOK, Lettered
  <2>3. TakeOK(c)'
    BY <1>4, <1>5, <2>1, <2>2, <2>6 DEF TakeOK
  <2>4. calls' = [calls EXCEPT ![c] = job]
    BY <1>8 DEF job
  <2>5. QED
    BY <1>1, <1>6, <2>1, <2>3, <2>4, LocalStep
<1>9. CASE /\ ~ (Cardinality(found) < Cardinality(old.ids))
           /\ calls' = [calls EXCEPT ![c] = [calls[c] EXCEPT !.at = "delete", !.rows = found, !.left = calls[c].ids]]
  <2> DEFINE job == [calls[c] EXCEPT !.at = "delete", !.rows = found, !.left = calls[c].ids]
  <2>1. /\ IsTake(job) /\ job.at = "delete" /\ job.op = old.op /\ job.seen = old.seen /\ job.ids = old.ids /\ job.left = old.ids
        /\ job.rows = found /\ job.gone = {} /\ job.deleted = 0 /\ job.made = {}
    BY <1>1, <1>3, <1>4 DEF IsTake, TakeFields
  <2>2. calls'[c] = job
    BY <1>9, TakeFacts
  <2>3. found = old.ids
    <3>1. IsFiniteSet(old.ids) /\ Cardinality(found) \in Nat /\ Cardinality(old.ids) \in Nat
      BY <1>4, <1>5, ChunkFacts
    <3>2. found # old.ids => Cardinality(found) < Cardinality(old.ids)
      BY <1>5, <3>1, FS_Subset
    <3>3. QED
      BY <1>9, <3>2
  <2>4. old.ids \subseteq Lettered
    BY <1>1, <1>3, <1>4, <2>3, <1>5 DEF TakeOK, Lettered
  <2> HIDE DEF job
  <2>5. Lettered' = Lettered /\ parked' = parked
    BY <1>1 DEF Lettered
  <2>6. job.gone \cap DOMAIN parked' = {} /\ Cardinality({}) = 0
    BY <2>1, FS_EmptySet
  <2>7. TakeOK(c)'
    BY <1>4, <2>1, <2>2, <2>3, <2>4, <2>5, <2>6 DEF TakeOK
  <2>8. calls' = [calls EXCEPT ![c] = job]
    BY <1>9 DEF job
  <2>9. QED
    BY <1>1, <1>6, <2>1, <2>7, <2>8, LocalStep
<1>10. QED
  BY <1>2, <1>7, <1>8, <1>9

LEMMA DeleteStep ==
  ASSUME DeadInv, NEW c \in Takers, DeleteChunk(c)
  PROVE  DeadInv'
<1> DEFINE old == calls[c]
<1>0. PICK chunk, gone, left, more, next : /\ chunk = Chunk(old) /\ gone = old.gone \cup chunk /\ left = old.left \ chunk
                                   /\ more = old.deleted + Cardinality(chunk \cap DOMAIN parked)
                                   /\ next = IF LastChunk(old) THEN "count" ELSE "delete"
  OBVIOUS
<1> DEFINE job == [calls[c] EXCEPT !.gone = gone, !.left = left, !.deleted = more, !.at = next]
<1>1. /\ old.at = "delete" /\ UNCHANGED <<parked, unacked, messages, lastId, taken>>
      /\ \A other \in Takers \ {c} : calls[other].gone \cap chunk = {}
  BY <1>0 DEF DeleteChunk
<1>2. calls' = [calls EXCEPT ![c] = job]
  BY <1>0 DEF DeleteChunk, Goes
<1>3. IsTake(old) /\ TakeOK(c) /\ chunk \subseteq old.left
  BY <1>0, TakeFacts, ChunkFacts
<1>4. /\ old.left \subseteq old.ids /\ old.rows = old.ids /\ old.ids \subseteq DeadIds /\ old.seen \subseteq DeadIds
      /\ old.gone = old.ids \ old.left /\ old.made = {} /\ old.op \in {"requeue", "discard"} /\ old.ids \subseteq Lettered
      /\ old.deleted = Cardinality(old.gone \cap DOMAIN parked)
  BY <1>1, <1>3 DEF TakeOK
<1>5. /\ IsTake(job) /\ job.at = next /\ job.op = old.op /\ job.seen = old.seen /\ job.ids = old.ids /\ job.left = left
      /\ job.rows = old.rows /\ job.gone = gone /\ job.deleted = more /\ job.made = old.made
  BY <1>3 DEF IsTake, TakeFields
<1>6. calls'[c] = job
  BY <1>2, TakeFacts
<1> HIDE DEF job
<1>7. gone = old.ids \ left /\ left \subseteq old.ids /\ (next = "count" => gone = old.ids) /\ next \in {"count", "delete"}
  BY <1>0, <1>3, <1>4 DEF LastChunk
<1>8. more = Cardinality(gone \cap DOMAIN parked)
  <2> DEFINE A == old.gone \cap DOMAIN parked
             B == chunk \cap DOMAIN parked
  <2>1. IsFiniteSet(A) /\ IsFiniteSet(B) /\ Cardinality(A) \in Nat /\ Cardinality(B) \in Nat
    BY <1>3, <1>4, ChunkFacts
  <2>2. A \cap B = {} /\ A \cup B = gone \cap DOMAIN parked
    BY <1>0, <1>3, <1>4
  <2>3. Cardinality(A \cup B) = Cardinality(A) + Cardinality(B) - Cardinality(A \cap B)
    BY <2>1, FS_Union
  <2>4. Cardinality(A \cap B) = 0
    BY <2>2, FS_EmptySet
  <2> HIDE DEF A, B
  <2>5. Cardinality(A \cup B) = Cardinality(A) + Cardinality(B)
    BY <2>1, <2>3, <2>4
  <2>6. QED
    BY <1>0, <1>4, <2>2, <2>5 DEF A, B
<1>9. TakeOK(c)'
  <2>1. Lettered' = Lettered /\ parked' = parked
    BY <1>1 DEF Lettered
  <2>2. QED
    BY <1>4, <1>5, <1>6, <1>7, <1>8, <2>1 DEF TakeOK
<1>10. \A d \in Takers : d # c => job.gone \cap calls[d].gone = {}
  <2>1. \A d \in Takers : d # c => old.gone \cap calls[d].gone = {}
    BY DEF DeadInv, GoneApart
  <2>2. QED
    BY <1>0, <1>1, <1>5, <2>1
<1>11. lastId' \in Nat /\ lastId <= lastId' /\ old.at # "done"
  BY <1>1 DEF DeadInv
<1>12. QED
  BY <1>1, <1>2, <1>5, <1>9, <1>10, <1>11, LocalStep

LEMMA CountStep ==
  ASSUME DeadInv, NEW c \in Takers, CountDeleted(c)
  PROVE  DeadInv'
<1> DEFINE old == calls[c]
<1>0. PICK next : next = IF old.op = "requeue" THEN "create" ELSE "commit"
  OBVIOUS
<1> DEFINE job == [calls[c] EXCEPT !.at = next]
<1>1. /\ old.at = "count" /\ UNCHANGED <<parked, unacked, messages, lastId, taken>>
      /\ \/ calls' = [calls EXCEPT ![c] = [NoTake EXCEPT !.at = "failed"]]
         \/ old.deleted = Cardinality(old.ids) /\ calls' = [calls EXCEPT ![c] = job]
  BY <1>0 DEF CountDeleted, Goes
<1>2. lastId' \in Nat /\ lastId <= lastId' /\ old.at # "done"
  BY <1>1 DEF DeadInv
<1>3. CASE calls' = [calls EXCEPT ![c] = [NoTake EXCEPT !.at = "failed"]]
  BY <1>1, <1>2, <1>3, FailStep
<1>4. CASE old.deleted = Cardinality(old.ids) /\ calls' = [calls EXCEPT ![c] = job]
  <2>1. IsTake(old) /\ TakeOK(c)
    BY TakeFacts
  <2>2. /\ old.left \subseteq old.ids /\ old.rows = old.ids /\ old.ids \subseteq DeadIds /\ old.seen \subseteq DeadIds
        /\ old.gone = old.ids /\ old.made = {} /\ old.op \in {"requeue", "discard"}
        /\ old.deleted = Cardinality(old.gone \cap DOMAIN parked)
    BY <1>1, <2>1 DEF TakeOK
  <2>3. /\ IsTake(job) /\ job.at = next /\ job.op = old.op /\ job.seen = old.seen /\ job.ids = old.ids /\ job.left = old.left
        /\ job.rows = old.rows /\ job.gone = old.gone /\ job.deleted = old.deleted /\ job.made = old.made
    BY <2>1 DEF IsTake, TakeFields
  <2>4. calls'[c] = job
    BY <1>4, TakeFacts
  <2> HIDE DEF job
  <2>5. old.ids \subseteq DOMAIN parked
    <3> DEFINE S == old.ids \cap DOMAIN parked
    <3>1. IsFiniteSet(old.ids) /\ Cardinality(old.ids) \in Nat /\ S \subseteq old.ids
      BY <2>2, ChunkFacts
    <3>2. Cardinality(S) = Cardinality(old.ids)
      BY <1>4, <2>2
    <3>3. PICK ids : ids = old.ids
      OBVIOUS
    <3>6. IsFiniteSet(ids) /\ S \in SUBSET ids /\ Cardinality(ids) = Cardinality(S)
      BY <3>1, <3>2, <3>3
    <3> HIDE DEF S
    <3>7. ids = S
      BY <3>6, FS_Subset
    <3>4. S = old.ids
      BY <3>3, <3>7
    <3>5. QED
      BY <3>4 DEF S
  <2>6. job.made = {} /\ job.rows = job.ids
    BY <2>2, <2>3
  <2>7. MadeOK(calls[c], c)'
    BY <2>4, <2>6 DEF MadeOK
  <2>8. TakeOK(c)'
    BY <1>0, <1>1, <2>2, <2>3, <2>4, <2>5, <2>6, <2>7 DEF TakeOK
  <2>9. \A d \in Takers : d # c => job.gone \cap calls[d].gone = {}
    BY <2>3 DEF DeadInv, GoneApart
  <2>10. calls' = [calls EXCEPT ![c] = job]
    BY <1>4
  <2>11. QED
    BY <1>1, <1>2, <2>3, <2>8, <2>9, <2>10, LocalStep
<1>5. QED
  BY <1>1, <1>3, <1>4

LEMMA RequeueStep ==
  ASSUME DeadInv, NEW c \in Takers, NEW row, Requeue(c, row)
  PROVE  DeadInv'
<1> DEFINE old == calls[c]
<1>0. PICK new, rest, made, next : /\ new = [id |-> lastId + 1, of |-> row, by |-> c] /\ rest = old.rows \ {row}
                                 /\ made = old.made \cup {new} /\ next = IF old.rows = {row} THEN "commit" ELSE "create"
  OBVIOUS
<1> DEFINE job == [calls[c] EXCEPT !.rows = rest, !.made = made, !.at = next]
<1>1. /\ old.at = "create" /\ row \in old.rows /\ Oldest(row, old.rows) /\ lastId' = lastId + 1
      /\ UNCHANGED <<parked, unacked, messages, taken>> /\ calls' = [calls EXCEPT ![c] = job]
  BY <1>0 DEF Requeue, Goes
<1>2. IsTake(old) /\ TakeOK(c) /\ lastId \in Nat
  BY TakeFacts DEF DeadInv
<1>3. /\ old.left \subseteq old.ids /\ old.rows \subseteq old.ids /\ old.ids \subseteq DeadIds /\ old.seen \subseteq DeadIds
      /\ old.gone = old.ids /\ old.op = "requeue" /\ old.ids \subseteq DOMAIN parked /\ MadeOK(old, c)
  BY <1>1, <1>2 DEF TakeOK
<1>4. /\ IsTake(job) /\ job.at = next /\ job.op = old.op /\ job.seen = old.seen /\ job.ids = old.ids /\ job.left = old.left
      /\ job.rows = rest /\ job.gone = old.gone /\ job.deleted = old.deleted /\ job.made = made
  BY <1>2 DEF IsTake, TakeFields
<1>5. calls'[c] = job
  BY <1>1, TakeFacts
<1> HIDE DEF job
<1>6. new.id = lastId + 1 /\ new.of = row /\ new.by = c /\ \A id \in DeadIds : CreatedAt[id] \in Nat
  BY <1>0, DeadAssumption
<1>7. \A id \in rest : CreatedAt[row] <= CreatedAt[id]
  <2>1. \A id \in rest : CreatedAt[row] < CreatedAt[id] \/ CreatedAt[row] = CreatedAt[id]
    BY <1>0, <1>1 DEF Oldest
  <2>2. row \in DeadIds /\ rest \subseteq DeadIds
    BY <1>0, <1>1, <1>3
  <2>3. QED
    BY <1>6, <2>1, <2>2
<1>8. MadeOK(calls[c], c)'
  <2>1. \A m \in made : m.by = c /\ m.id \in Nat /\ m.id <= lastId + 1 /\ m.of \in old.ids \ rest
    BY <1>0, <1>1, <1>2, <1>3, <1>6 DEF MadeOK
  <2>2. \A id \in old.ids \ rest : \E m \in made : m.of = id
    <3>1. ASSUME NEW id \in old.ids \ rest PROVE \E m \in made : m.of = id
      <4>1. CASE id = row
        BY <4>1, <1>0, <1>6
      <4>2. CASE id # row
        <5>1. id \in old.ids \ old.rows
          BY <4>2, <1>0, <3>1
        <5>2. QED
          BY <5>1, <1>0, <1>3 DEF MadeOK
      <4>3. QED
        BY <4>1, <4>2
    <3>2. QED
      BY <3>1
  <2>3. \A m \in old.made : m.of # row /\ m.id <= lastId /\ m.id \in Nat /\ CreatedAt[m.of] <= CreatedAt[row]
    BY <1>1, <1>3 DEF MadeOK
  <2>4. \A m, n \in made : m.of = n.of => m = n
    BY <2>3, <1>0, <1>3, <1>6 DEF MadeOK
  <2>5. \A m, n \in made : m.id < n.id => CreatedAt[m.of] <= CreatedAt[n.of]
    <3>1. ASSUME NEW m \in made, NEW n \in made, m.id < n.id PROVE CreatedAt[m.of] <= CreatedAt[n.of]
      <4>1. CASE m \in old.made /\ n \in old.made
        BY <3>1, <4>1, <1>3 DEF MadeOK
      <4>2. CASE m \in old.made /\ n = new
        BY <4>2, <2>3, <1>6
      <4>3. CASE m = new
        BY <3>1, <4>3, <2>1, <1>2, <1>6
      <4>4. QED
        BY <1>0, <4>1, <4>2, <4>3
    <3>2. QED
      BY <3>1
  <2>6. \A m \in made, id \in rest : CreatedAt[m.of] <= CreatedAt[id]
    BY <1>0, <1>3, <1>6, <1>7 DEF MadeOK
  <2>7. QED
    BY <1>1, <1>4, <1>5, <2>1, <2>2, <2>4, <2>5, <2>6 DEF MadeOK
<1>9. TakeOK(c)'
  BY <1>0, <1>1, <1>3, <1>4, <1>5, <1>8 DEF TakeOK
<1>10. \A d \in Takers : d # c => job.gone \cap calls[d].gone = {}
  BY <1>4 DEF DeadInv, GoneApart
<1>11. lastId' \in Nat /\ lastId <= lastId' /\ old.at # "done"
  BY <1>1, <1>2
<1>12. QED
  BY <1>1, <1>4, <1>9, <1>10, <1>11, LocalStep

LEMMA CommitStep ==
  ASSUME DeadInv, NEW c \in Takers, CommitTake(c)
  PROVE  DeadInv'
<1> DEFINE old == calls[c]
<1>0. PICK mine : mine = {[id |-> id, by |-> c, op |-> old.op] : id \in old.ids}
  OBVIOUS
<1>1. /\ old.at = "commit" /\ unacked' = unacked \ old.gone /\ messages' = messages \cup old.made
      /\ taken' = taken \cup mine /\ calls' = [calls EXCEPT ![c] = [NoTake EXCEPT !.at = "done"]] /\ lastId' = lastId
      /\ DOMAIN parked' = DOMAIN parked \ old.gone
  BY <1>0 DEF CommitTake, Goes, Restrict
<1>2. IsTake(old) /\ TakeOK(c)
  BY TakeFacts
<1>3. /\ old.gone = old.ids /\ old.ids \subseteq DOMAIN parked /\ old.op \in {"requeue", "discard"}
      /\ IF old.op = "requeue" THEN old.rows = {} /\ MadeOK(old, c) ELSE old.made = {}
  BY <1>1, <1>2 DEF TakeOK
<1>4. calls'[c] = [NoTake EXCEPT !.at = "done"] /\ \A d \in Takers : d # c => calls'[d] = calls[d]
  BY <1>1, TakeFacts
<1>5. TakeOK(c)' /\ calls'[c].gone = {} /\ calls'[c].at = "done" /\ IsTake(calls'[c])
  <2>1. TakeOK(c)' /\ calls'[c].gone = {} /\ calls'[c].at = "done"
    BY <1>4, EndedOK
  <2>2. QED
    BY <1>4, <2>1, EndedIsTake
<1>6. TakesShape'
  BY <1>1, <1>4, <1>5 DEF DeadInv, TakesShape
<1>7. GoneApart'
  BY <1>4, <1>5 DEF DeadInv, GoneApart
<1>8. \A m \in old.made : m.by = c /\ m.id \in Nat /\ m.id <= lastId /\ m.of \in old.ids
  BY <1>3 DEF MadeOK
<1>9. MessagesOK'
  BY <1>1, <1>4, <1>5, <1>8 DEF DeadInv, MessagesOK
<1>10. \A t \in mine : t.id \in old.ids /\ t.by = c /\ t.op = old.op
  BY <1>0
<1>11. \A id \in old.ids : \E t \in mine : t.id = id /\ t.by = c
  <2>1. \A id \in old.ids : [id |-> id, by |-> c, op |-> old.op] \in mine
    BY <1>0
  <2>2. QED
    BY <2>1
<1>12. \A s, t \in mine : s.id = t.id => s = t
  <2>1. \A t \in mine : t = [id |-> t.id, by |-> c, op |-> old.op]
    BY <1>0
  <2>2. QED
    BY <2>1
<1>13. TakenOK'
  BY <1>1, <1>3, <1>10 DEF DeadInv, TakenOK
<1>14. Lettered' = Lettered
  <2>1. {t.id : t \in taken'} = {t.id : t \in taken} \cup old.ids
    BY <1>1, <1>10, <1>11
  <2>2. QED
    BY <1>1, <1>3, <2>1 DEF Lettered
<1>15. /\ \A t \in taken : t.id \notin old.ids
       /\ \A m \in messages : m.by # c /\ m.of \notin old.ids
  BY <1>1, <1>3 DEF DeadInv, TakenOnce, MessagesOK
<1>16. TakenOnce'
  <2>1. \A s, t \in taken' : s.id = t.id => s = t
    BY <1>1, <1>10, <1>12, <1>15 DEF DeadInv, TakenOnce
  <2>2. \A t \in taken' : t.id \notin DOMAIN parked' \cup unacked'
    BY <1>1, <1>3, <1>10 DEF DeadInv, TakenOnce
  <2>3. \A t \in taken' : t.op = "requeue" <=> \E m \in messages' : m.of = t.id
    <3>1. ASSUME NEW t \in taken PROVE t.op = "requeue" <=> \E m \in messages' : m.of = t.id
      BY <1>1, <1>8, <1>15 DEF DeadInv, TakenOnce
    <3>2. ASSUME NEW t \in mine PROVE t.op = "requeue" <=> \E m \in messages' : m.of = t.id
      <4>1. t.id \in old.ids /\ t.op = old.op
        BY <1>10
      <4>2. CASE old.op = "requeue"
        <5>1. \E m \in old.made : m.of = t.id
          BY <1>3, <4>1, <4>2 DEF MadeOK
        <5>2. QED
          BY <4>1, <4>2, <5>1, <1>1
      <4>3. CASE old.op # "requeue"
        <5>1. messages' = messages
          BY <4>3, <1>1, <1>3
        <5>2. \A m \in messages : m.of # t.id
          BY <4>1, <1>15
        <5>3. QED
          BY <4>1, <4>3, <5>1, <5>2
      <4>4. QED
        BY <4>2, <4>3
    <3>3. QED
      BY <1>1, <3>1, <3>2
  <2>4. \A m \in messages' : \E t \in taken' : t.id = m.of /\ t.by = m.by
    <3>1. ASSUME NEW m \in messages PROVE \E t \in taken' : t.id = m.of /\ t.by = m.by
      BY <1>1 DEF DeadInv, TakenOnce
    <3>2. ASSUME NEW m \in old.made PROVE \E t \in taken' : t.id = m.of /\ t.by = m.by
      BY <1>1, <1>8, <1>11
    <3>3. QED
      BY <1>1, <3>1, <3>2
  <2>5. \A m, n \in messages' : m.of = n.of => m = n
    BY <1>1, <1>3, <1>8, <1>15 DEF DeadInv, TakenOnce, MadeOK
  <2>6. \A m, n \in messages' : m.by = n.by /\ m.id < n.id => CreatedAt[m.of] <= CreatedAt[n.of]
    BY <1>1, <1>3, <1>8, <1>15 DEF DeadInv, TakenOnce, MadeOK
  <2>7. QED
    BY <2>1, <2>2, <2>3, <2>4, <2>5, <2>6 DEF TakenOnce
<1>17. ASSUME NEW d \in Takers, d # c PROVE TakeOK(d)'
  <2>1. TakeOK(d) /\ calls'[d] = calls[d] /\ calls[d].gone \cap old.gone = {}
    BY <1>4, <1>17 DEF DeadInv, GoneApart
  <2>2. calls[d].gone \cap DOMAIN parked' = calls[d].gone \cap DOMAIN parked
    BY <1>1, <2>1
  <2>3. calls[d].at \in {"create", "commit"} => calls[d].ids \subseteq DOMAIN parked'
    BY <1>1, <2>1 DEF TakeOK
  <2>4. MadeOK(calls[d], d)' <=> MadeOK(calls[d], d)
    BY <1>1, <2>1 DEF MadeOK
  <2>5. QED
    BY <1>14, <2>1, <2>2, <2>3, <2>4 DEF TakeOK
<1>18. QED
  BY <1>1, <1>5, <1>6, <1>7, <1>9, <1>13, <1>16, <1>17 DEF DeadInv

LEMMA DeadInitially == DeadInit => DeadInv
<1> SUFFICES ASSUME DeadInit PROVE DeadInv
  OBVIOUS
<1>1. DOMAIN parked \subseteq DeadIds /\ lastId \in Nat /\ TakenOnce /\ TakenOK /\ MessagesOK
  BY DeadAssumption DEF DeadInit, TakenOnce, TakenOK, MessagesOK
<1>2. \A c \in Takers : calls[c] = NoTake
  BY DEF DeadInit
<1>3. TakesShape
  BY DEF DeadInit, TakesShape, IsTake, NoTake, TakeFields
<1>4. /\ NoTake.at = "idle" /\ NoTake.op = "" /\ NoTake.seen = {} /\ NoTake.ids = {} /\ NoTake.left = {} /\ NoTake.rows = {}
      /\ NoTake.gone = {} /\ NoTake.deleted = 0 /\ NoTake.made = {}
  BY DEF NoTake
<1>5. GoneApart /\ \A c \in Takers : TakeOK(c)
  BY <1>2, <1>4 DEF GoneApart, TakeOK
<1>6. QED
  BY <1>1, <1>3, <1>5 DEF DeadInv

LEMMA DeadInductive ==
  ASSUME DeadInv, [DeadNext]_deadVars
  PROVE  DeadInv'
<1>1. CASE UNCHANGED deadVars
  <2>1. /\ parked' = parked /\ unacked' = unacked /\ messages' = messages /\ lastId' = lastId /\ calls' = calls
        /\ taken' = taken
    BY <1>1 DEF deadVars
  <2>2. \A c \in Takers : MadeOK(calls[c], c)' <=> MadeOK(calls[c], c)
    BY <2>1 DEF MadeOK
  <2>3. \A c \in Takers : TakeOK(c)'
    BY <2>1, <2>2, ZenonT(60) DEF DeadInv, TakeOK, Lettered
  <2>4. TakesShape' /\ GoneApart' /\ MessagesOK' /\ TakenOK' /\ TakenOnce'
    BY <2>1 DEF DeadInv, TakesShape, GoneApart, MessagesOK, TakenOK, TakenOnce
  <2>5. QED
    BY <2>1, <2>3, <2>4 DEF DeadInv
<1>2. ASSUME NEW c \in Takers, NEW op \in {"requeue", "discard"}, NEW ids \in {calls[c].seen, DeadIds}, takeDead(c, op, ids)
      PROVE  DeadInv'
  <2>1. ids \in SUBSET DeadIds
    <3>1. TakeOK(c)
      BY TakeFacts
    <3>2. QED
      BY <3>1 DEF TakeOK
  <2>2. QED
    BY <1>2, <2>1, TakeDeadStep
<1>3. ASSUME NEW c \in Takers, Breaks(c)
      PROVE  DeadInv'
  BY <1>3, FailStep DEF Breaks, RollsBack, Goes
<1>4. CASE DeadNext
  BY <1>2, <1>3, <1>4, ParksStep, DeadStep, ReadStep, DeleteStep, CountStep, CommitStep, RequeueStep DEF DeadNext
<1>5. QED
  BY <1>1, <1>4

\* Dead letters (jobs/dead.go), for any calls, messages and chunk, whatever calls race, break and park: a parked message is
\* taken once, as one new message or none, its row completed, and a Requeue keeps the order of the first enqueueing.
THEOREM DeadLettersTakenOnce == DeadSpec => []TakenOnce
<1>1. DeadInv => TakenOnce
  BY DEF DeadInv
<1>2. QED
  BY <1>1, DeadInitially, DeadInductive, PTL DEF DeadSpec
=============================================================================
