----------------------------- MODULE DataProofs ------------------------------
(***************************************************************************)
(* Proofs about Store, for any callers, principals and rows, any number of *)
(* operations and of staged callbacks, and every dialect; about            *)
(* Migrations, for any processes, releases and index shapes, any number of *)
(* starts, and every server; about Patches, for any models, request        *)
(* types, bodies and queries, and every database; about Listing, for any   *)
(* rows, contents, queries and page sizes, and any number of changes; and  *)
(* about Upserts, for any batches, conflict targets, indexes and chunk     *)
(* sizes, on both engines.                                                 *)
(***************************************************************************)
EXTENDS Store, Migrations, Patches, Listing, Upserts, SequenceTheorems, FiniteSetTheorems, WellFoundedInduction, TLAPS

\* The fields of the records.
CallFields == {"at", "rid", "lock", "object", "answer", "tx", "flush"}
TxFields == {"open", "writes", "held", "pending", "edits"}
ObjectFields == {"rid", "version", "edits", "held"}
RowFields == {"owner", "slug", "edits", "version", "deleted"}
IsTx(t) == t = [f \in TxFields |-> t[f]]
IsObject(o) == o = [f \in ObjectFields |-> o[f]]
IsRow(r) == r = [f \in RowFields |-> r[f]] /\ r.version \in Nat \ {0}
IsCall(c) == c = [f \in CallFields |-> c[f]] /\ IsTx(c.tx) /\ IsObject(c.object)

\* Calls are records of these fields.
CallsShape == calls = [c \in Callers |-> calls[c]] /\ \A c \in Callers : IsCall(calls[c])


-----------------------------------------------------------------------------
(* Callbacks.  A caller's numbers grow: those it has called, then those of *)
(* its last commit that wait, or those its open transaction has staged.    *)

Numbers == Callers \X Nat
Grow(s, c) == s \in Seq(Numbers) /\ \A i \in 1..Len(s) : s[i][1] = c /\ \A j \in 1..i - 1 : s[j][2] < s[i][2]
Above(s, c, past) == \A i \in 1..Len(s), k \in 1..Len(past) : past[k][1] = c => past[k][2] < s[i][2]
Known(s, all) == \A i \in 1..Len(s) : s[i][2] <= Len(all) /\ \E j \in 1..Len(all) : all[j] = s[i]

\* What is staged in a transaction, what waits for its turn.
PendingOK(call, c) ==
  /\ call.tx.open \in BOOLEAN /\ (call.tx.open => call.flush = <<>>) /\ (~ call.tx.open => call.tx.pending = <<>>)
  /\ Grow(call.tx.pending, c) /\ Above(call.tx.pending, c, called)
  /\ \A i \in 1..Len(call.tx.pending) : call.tx.pending[i][2] <= Len(staged) + i
FlushOK(call, c) == Grow(call.flush, c) /\ Above(call.flush, c, called) /\ Known(call.flush, staged)
CalledOK == called \in Seq(Numbers) /\ Known(called, staged) /\ CallbacksFollowCommit
CallbacksInv ==
  /\ CallsShape /\ staged \in Seq(Numbers) /\ CalledOK
  /\ \A c \in Callers : PendingOK(calls[c], c) /\ FlushOK(calls[c], c)

-----------------------------------------------------------------------------
(* Writes.  An object is as old as the row its caller would find, or       *)
(* older; of the same version, it has the same edits.                      *)

ObjectOK(o, rows) ==
  /\ o.rid # 0 => /\ o.rid \in DOMAIN rows /\ o.version \in Nat \ {0} /\ o.version <= rows[o.rid].version
                  /\ o.version = rows[o.rid].version => o.edits = rows[o.rid].edits
  /\ o.held => o.rid \in DOMAIN rows /\ o.edits = rows[o.rid].edits

\* Neither an admin nor a store without a scope.
Restricted(c) == who[c] \notin {"admin", "system"}

\* Transactions alike but for what they staged.
SameTx(s, t) == s.open = t.open /\ s.writes = t.writes /\ s.held = t.held /\ s.edits = t.edits

\* A transaction has the rows it writes for itself; its writes are of later versions than the rows' and keep their edits.
TxOK(tx, c) ==
  /\ tx.open \in BOOLEAN /\ (~ tx.open => SameTx(tx, NoTx))
  /\ DOMAIN tx.writes \subseteq tx.held
  /\ \A rid \in DOMAIN tx.writes :
       /\ IsRow(tx.writes[rid])
       /\ rid \in DOMAIN records =>
            /\ tx.writes[rid].version > records[rid].version
            /\ Restricted(c) => records[rid].owner = who[c] /\ tx.writes[rid].owner = who[c]
  /\ \A save \in saved : save[1] \in DOMAIN tx.writes => save[2] \in tx.writes[save[1]].edits
  /\ \A edit \in tx.edits : edit[1] \in DOMAIN tx.writes /\ edit[2] \in tx.writes[edit[1]].edits

CallOK(call, c) ==
  /\ TxOK(call.tx, c)
  /\ ObjectOK(call.object, Overlay(call.tx.writes, records))
  /\ call.object.held => call.tx.open /\ call.object.rid \in call.tx.held
  /\ call.at = "upsert" => ~ call.tx.open /\ call.rid \in DOMAIN records /\ who[c] = "system"

RecordsOK ==
  /\ \A rid \in DOMAIN records : IsRow(records[rid])
  /\ \A save \in saved : save[1] \in DOMAIN records /\ save[2] \in records[save[1]].edits
HeldApart == \A c, d \in Callers : c # d => calls[c].tx.held \cap calls[d].tx.held = {}
WritesInv == CallsShape /\ RecordsOK /\ HeldApart /\ \A c \in Callers : CallOK(calls[c], c)

-----------------------------------------------------------------------------
\* No call, no transaction, no object.
LEMMA NothingYet ==
  /\ IsCall(NoCall) /\ IsTx(NoTx) /\ IsObject(NoObject)
  /\ NoCall.at = "idle" /\ NoCall.tx = NoTx /\ NoCall.object = NoObject /\ NoCall.flush = <<>>
  /\ NoTx.open = FALSE /\ NoTx.writes = <<>> /\ NoTx.held = {} /\ NoTx.pending = <<>> /\ NoTx.edits = {}
  /\ NoObject.rid = 0 /\ NoObject.held = FALSE
<1>1. IsTx(NoTx) /\ IsObject(NoObject)
  BY DEF NoTx, NoObject, IsTx, IsObject, TxFields, ObjectFields
<1>2. NoCall = [f \in CallFields |-> NoCall[f]]
  BY DEF NoCall, CallFields
<1>3. QED
  BY <1>1, <1>2 DEF IsCall, NoCall, NoTx, NoObject

\* A caller's call becomes another.
Moves(c, d) == calls' = [calls EXCEPT ![c] = d] /\ IsCall(d)
SameQueues(d, e) == d.tx.open = e.tx.open /\ d.tx.pending = e.tx.pending /\ d.flush = e.flush

\* A moved call and the others'.
LEMMA MovedCall ==
  ASSUME CallsShape, NEW c \in Callers, NEW d, Moves(c, d)
  PROVE  CallsShape' /\ calls'[c] = d /\ \A other \in Callers \ {c} : calls'[other] = calls[other]
BY DEF CallsShape, Moves

\* What a write does to the call.
LEMMA WritesEffect ==
  ASSUME CallsShape, NEW c \in Callers, NEW rid, NEW row, NEW object, NEW edits, IsObject(object), Writes(c, rid, row, object, edits)
  PROVE  \E d : /\ Moves(c, d) /\ SameQueues(d, calls[c])
                /\ d.at = "idle" /\ d.rid = calls[c].rid /\ d.object = object /\ d.answer = "ok"
                /\ IF InTx(c) THEN /\ d.tx.writes = Put(calls[c].tx.writes, rid, row)
                                   /\ d.tx.held = calls[c].tx.held \cup {rid} /\ d.tx.edits = calls[c].tx.edits \cup edits
                                   /\ UNCHANGED <<records, saved>>
                   ELSE d.tx = calls[c].tx /\ records' = Put(records, rid, row) /\ saved' = saved \cup edits
<1> DEFINE t == [calls[c].tx EXCEPT !.writes = Put(calls[c].tx.writes, rid, row), !.held = calls[c].tx.held \cup {rid},
                                    !.edits = calls[c].tx.edits \cup edits]
           d == [calls[c] EXCEPT !.tx = t, !.object = object, !.answer = "ok"]
           e == [calls[c] EXCEPT !.object = object, !.answer = "ok"]
<1>1. IsCall(calls[c]) /\ IsTx(calls[c].tx) /\ calls[c].at = "idle"
  BY DEF CallsShape, IsCall, Writes
<1>2. CASE InTx(c)
  <2>1. calls' = [calls EXCEPT ![c] = d] /\ UNCHANGED <<records, saved>>
    BY <1>2 DEF Writes
  <2>2. /\ IsTx(t) /\ t.open = calls[c].tx.open /\ t.pending = calls[c].tx.pending /\ t.writes = Put(calls[c].tx.writes, rid, row)
        /\ t.held = calls[c].tx.held \cup {rid} /\ t.edits = calls[c].tx.edits \cup edits
    BY <1>1 DEF IsTx, TxFields
  <2> HIDE DEF t
  <2>3. /\ d = [f \in CallFields |-> d[f]] /\ d.tx = t /\ d.object = object /\ d.at = calls[c].at /\ d.rid = calls[c].rid
        /\ d.answer = "ok" /\ d.flush = calls[c].flush
    BY <1>1 DEF IsCall, CallFields
  <2> HIDE DEF d
  <2>4. Moves(c, d) /\ SameQueues(d, calls[c])
    BY <2>1, <2>2, <2>3 DEF IsCall, Moves, SameQueues
  <2>5. QED
    BY <1>1, <1>2, <2>1, <2>2, <2>3, <2>4
<1>3. CASE ~ InTx(c)
  <2>1. calls' = [calls EXCEPT ![c] = e] /\ records' = Put(records, rid, row) /\ saved' = saved \cup edits
    BY <1>3 DEF Writes
  <2>2. /\ e = [f \in CallFields |-> e[f]] /\ e.tx = calls[c].tx /\ e.object = object /\ e.at = calls[c].at /\ e.rid = calls[c].rid
        /\ e.answer = "ok" /\ e.flush = calls[c].flush
    BY <1>1 DEF IsCall, CallFields
  <2> HIDE DEF e
  <2>3. Moves(c, e) /\ SameQueues(e, calls[c])
    BY <1>1, <2>1, <2>2 DEF IsCall, Moves, SameQueues
  <2>4. QED
    BY <1>1, <1>3, <2>1, <2>2, <2>3
<1>4. QED
  BY <1>2, <1>3

\* An answer leaves the rest of the call as it is.
LEMMA AnswersEffect ==
  ASSUME CallsShape, NEW c \in Callers, NEW at, NEW rid, NEW lock, NEW answer, Answers(c, at, rid, lock, answer)
  PROVE  \E d : /\ Moves(c, d) /\ SameQueues(d, calls[c]) /\ SameTx(d.tx, calls[c].tx)
                /\ d.at = at /\ d.rid = rid /\ d.object = calls[c].object /\ d.answer = answer
<1> DEFINE d == [calls[c] EXCEPT !.at = at, !.rid = rid, !.lock = lock, !.answer = answer]
<1>1. IsCall(calls[c]) /\ calls' = [calls EXCEPT ![c] = d]
  BY DEF CallsShape, Answers
<1>2. /\ d = [f \in CallFields |-> d[f]] /\ d.at = at /\ d.rid = rid /\ d.answer = answer
      /\ d.object = calls[c].object /\ d.tx = calls[c].tx /\ d.flush = calls[c].flush
  BY <1>1 DEF IsCall, CallFields
<1> HIDE DEF d
<1>3. QED
  BY <1>1, <1>2 DEF IsCall, Moves, SameQueues, SameTx

\* So does the answer of the second look of a write, and of an upsert's write.
LEMMA LooksEffect ==
  ASSUME CallsShape, NEW c \in Callers, NEW answer,
         calls' = [calls EXCEPT ![c] = [@ EXCEPT !.at = "idle", !.answer = answer]]
  PROVE  \E d : /\ Moves(c, d) /\ SameQueues(d, calls[c]) /\ SameTx(d.tx, calls[c].tx)
                /\ d.at = "idle" /\ d.rid = calls[c].rid /\ d.object = calls[c].object /\ d.answer = answer
<1> DEFINE d == [calls[c] EXCEPT !.at = "idle", !.answer = answer]
<1>1. IsCall(calls[c]) /\ calls' = [calls EXCEPT ![c] = d]
  BY DEF CallsShape
<1>2. /\ d = [f \in CallFields |-> d[f]] /\ d.at = "idle" /\ d.rid = calls[c].rid /\ d.answer = answer
      /\ d.object = calls[c].object /\ d.tx = calls[c].tx /\ d.flush = calls[c].flush
  BY <1>1 DEF IsCall, CallFields
<1> HIDE DEF d
<1>3. QED
  BY <1>1, <1>2 DEF IsCall, Moves, SameQueues, SameTx

\* What a read looks for is there.
Found(c, rid) == rid \in readScoped(c) \cap Live(c)

\* What a read makes of a call: it has an object, and the row when it locks it.
Got(d, c, rid, lock) ==
  /\ Moves(c, d) /\ SameQueues(d, calls[c])
  /\ d.at = "idle" /\ d.rid = rid /\ d.answer = (IF Found(c, rid) THEN "found" ELSE "not_found")
  /\ d.tx.writes = calls[c].tx.writes /\ d.tx.edits = calls[c].tx.edits
  /\ Found(c, rid) /\ lock => d.tx.held = calls[c].tx.held \cup {rid}
  /\ ~ (Found(c, rid) /\ lock) => d.tx.held = calls[c].tx.held
  /\ ~ Found(c, rid) => d.object = NoObject
  /\ Found(c, rid) => /\ d.object.rid = rid /\ d.object.version = View(c)[rid].version
                      /\ d.object.edits = View(c)[rid].edits /\ (d.object.held <=> lock)

\* A read does that.
LEMMA getEffect ==
  ASSUME CallsShape, NEW c \in Callers, NEW rid, NEW lock \in BOOLEAN, get(c, rid, lock)
  PROVE  \E d : Got(d, c, rid, lock)
<1> DEFINE found == Found(c, rid)
           t == [calls[c].tx EXCEPT !.held = IF found /\ lock THEN calls[c].tx.held \cup {rid} ELSE calls[c].tx.held]
           there == [rid |-> rid, version |-> View(c)[rid].version, edits |-> View(c)[rid].edits, held |-> lock]
           o == IF ~ found THEN NoObject ELSE there
           answer == IF found THEN "found" ELSE "not_found"
           d == [calls[c] EXCEPT !.object = o, !.tx = t, !.rid = rid, !.answer = answer]
<1>1. IsCall(calls[c]) /\ IsTx(calls[c].tx) /\ calls[c].at = "idle" /\ calls' = [calls EXCEPT ![c] = d]
  BY DEF CallsShape, IsCall, get, Found
<1>2. /\ IsObject(there) /\ there.rid = rid /\ there.version = View(c)[rid].version
      /\ there.edits = View(c)[rid].edits /\ (there.held <=> lock)
  BY DEF IsObject, ObjectFields
<1>3. IsObject(o) /\ (~ found => o = NoObject) /\ (found => o = there)
  BY <1>2, NothingYet
<1>4. /\ IsTx(t) /\ t.open = calls[c].tx.open /\ t.pending = calls[c].tx.pending /\ t.writes = calls[c].tx.writes
      /\ t.held = (IF found /\ lock THEN calls[c].tx.held \cup {rid} ELSE calls[c].tx.held) /\ t.edits = calls[c].tx.edits
  BY <1>1 DEF IsTx, TxFields
<1> HIDE DEF t, o, answer
<1>5. /\ d = [f \in CallFields |-> d[f]] /\ d.at = calls[c].at /\ d.rid = rid /\ d.answer = answer
      /\ d.object = o /\ d.tx = t /\ d.flush = calls[c].flush
  BY <1>1 DEF IsCall, CallFields
<1> HIDE DEF d, there, found
<1>6. Moves(c, d) /\ SameQueues(d, calls[c])
  BY <1>1, <1>3, <1>4, <1>5 DEF IsCall, Moves, SameQueues
<1>7. Got(d, c, rid, lock)
  BY <1>1, <1>2, <1>3, <1>4, <1>5, <1>6 DEF found, answer, Got
<1>8. QED
  BY <1>7

\* A transaction begins with nothing.
LEMMA RunInTxEffect ==
  ASSUME CallsShape, NEW c \in Callers, RunInTx(c)
  PROVE  \E d : /\ Moves(c, d) /\ d.at = "idle" /\ d.rid = calls[c].rid /\ d.object = NoObject /\ d.answer = calls[c].answer
                /\ d.flush = <<>>
                /\ d.tx.open = TRUE /\ d.tx.writes = <<>> /\ d.tx.held = {} /\ d.tx.pending = <<>> /\ d.tx.edits = {}
<1> DEFINE t == [NoTx EXCEPT !.open = TRUE]
           d == [calls[c] EXCEPT !.tx = t, !.object = NoObject]
<1>1. IsCall(calls[c]) /\ calls[c].at = "idle" /\ calls[c].flush = <<>> /\ calls' = [calls EXCEPT ![c] = d]
  BY DEF CallsShape, RunInTx
<1>2. IsTx(t) /\ t.open = TRUE /\ t.writes = <<>> /\ t.held = {} /\ t.pending = <<>> /\ t.edits = {}
  BY DEF NoTx, IsTx, TxFields
<1> HIDE DEF t
<1>3. /\ d = [f \in CallFields |-> d[f]] /\ d.at = calls[c].at /\ d.rid = calls[c].rid /\ d.answer = calls[c].answer
      /\ d.object = NoObject /\ d.tx = t /\ d.flush = calls[c].flush
  BY <1>1 DEF IsCall, CallFields
<1> HIDE DEF d
<1>4. QED
  BY <1>1, <1>2, <1>3, NothingYet, ZenonT(60) DEF IsCall, Moves

\* AfterCommit stages a callback under the next number.
LEMMA AfterCommitEffect ==
  ASSUME CallsShape, NEW c \in Callers, AfterCommit(c)
  PROVE  \E d : /\ Moves(c, d) /\ SameTx(d.tx, calls[c].tx) /\ d.at = "idle" /\ d.rid = calls[c].rid
                /\ d.object = calls[c].object /\ d.answer = calls[c].answer /\ d.flush = calls[c].flush
                /\ d.tx.pending = Append(calls[c].tx.pending, <<c, Len(staged) + Len(calls[c].tx.pending) + 1>>)
<1> DEFINE p == Append(calls[c].tx.pending, <<c, Len(staged) + Len(calls[c].tx.pending) + 1>>)
           t == [calls[c].tx EXCEPT !.pending = p]
           d == [calls[c] EXCEPT !.tx = t]
<1>1. IsCall(calls[c]) /\ IsTx(calls[c].tx) /\ calls[c].at = "idle" /\ calls' = [calls EXCEPT ![c] = d]
  BY DEF CallsShape, IsCall, AfterCommit
<1> HIDE DEF p
<1>2. IsTx(t) /\ t.pending = p /\ SameTx(t, calls[c].tx)
  BY <1>1 DEF IsTx, TxFields, SameTx
<1> HIDE DEF t
<1>3. /\ d = [f \in CallFields |-> d[f]] /\ d.at = calls[c].at /\ d.rid = calls[c].rid /\ d.answer = calls[c].answer
      /\ d.object = calls[c].object /\ d.tx = t /\ d.flush = calls[c].flush
  BY <1>1 DEF IsCall, CallFields
<1> HIDE DEF d
<1>4. QED
  BY <1>1, <1>2, <1>3 DEF IsCall, Moves, p

\* A commit ends the transaction; what it staged waits to run.
LEMMA CommitEffect ==
  ASSUME CallsShape, NEW c \in Callers, Commit(c)
  PROVE  \E d : /\ Moves(c, d) /\ d.tx = NoTx /\ d.flush = calls[c].tx.pending /\ d.at = "idle" /\ d.rid = calls[c].rid
                /\ d.answer = calls[c].answer /\ d.object.held = FALSE
                /\ d.object.rid = calls[c].object.rid /\ d.object.version = calls[c].object.version
                /\ d.object.edits = calls[c].object.edits
<1> DEFINE o == [calls[c].object EXCEPT !.held = FALSE]
           d == [calls[c] EXCEPT !.tx = NoTx, !.flush = calls[c].tx.pending, !.object = o]
<1>1. IsCall(calls[c]) /\ IsObject(calls[c].object) /\ calls[c].at = "idle" /\ calls' = [calls EXCEPT ![c] = d]
  BY DEF CallsShape, IsCall, Commit
<1>2. /\ IsObject(o) /\ o.held = FALSE /\ o.rid = calls[c].object.rid /\ o.version = calls[c].object.version
      /\ o.edits = calls[c].object.edits
  BY <1>1 DEF IsObject, ObjectFields
<1> HIDE DEF o
<1>3. /\ d = [f \in CallFields |-> d[f]] /\ d.at = calls[c].at /\ d.rid = calls[c].rid /\ d.answer = calls[c].answer
      /\ d.object = o /\ d.tx = NoTx /\ d.flush = calls[c].tx.pending
  BY <1>1 DEF IsCall, CallFields
<1> HIDE DEF d
<1>4. QED
  BY <1>1, <1>2, <1>3, NothingYet DEF IsCall, Moves

\* flush takes the first callback that waits.
LEMMA flushEffect ==
  ASSUME CallsShape, NEW c \in Callers, flush(c)
  PROVE  \E d : /\ Moves(c, d) /\ d.tx = calls[c].tx /\ d.at = calls[c].at /\ d.rid = calls[c].rid /\ d.object = calls[c].object
                /\ d.answer = calls[c].answer /\ d.flush = Tail(calls[c].flush)
<1> DEFINE d == [calls[c] EXCEPT !.flush = Tail(calls[c].flush)]
<1>1. IsCall(calls[c]) /\ calls' = [calls EXCEPT ![c] = d]
  BY DEF CallsShape, flush
<1>2. /\ d = [f \in CallFields |-> d[f]] /\ d.at = calls[c].at /\ d.rid = calls[c].rid /\ d.answer = calls[c].answer
      /\ d.object = calls[c].object /\ d.tx = calls[c].tx /\ d.flush = Tail(calls[c].flush)
  BY <1>1 DEF IsCall, CallFields
<1> HIDE DEF d
<1>3. QED
  BY <1>1, <1>2 DEF IsCall, Moves

-----------------------------------------------------------------------------
(* Callbacks.                                                              *)

\* Growing numbers with a greater one at the end still grow.
LEMMA GrowAppend ==
  ASSUME NEW c \in Callers, NEW s, NEW n \in Nat, Grow(s, c), \A i \in 1..Len(s) : s[i][2] < n
  PROVE  /\ Grow(Append(s, <<c, n>>), c) /\ Len(Append(s, <<c, n>>)) = Len(s) + 1
         /\ \A i \in 1..Len(s) : Append(s, <<c, n>>)[i] = s[i]
         /\ Append(s, <<c, n>>)[Len(s) + 1] = <<c, n>>
<1> DEFINE e == <<c, n>>
           t == Append(s, e)
<1>1. s \in Seq(Numbers) /\ e \in Numbers /\ e[1] = c /\ e[2] = n
  BY DEF Grow, Numbers
<1> HIDE DEF e
<1>2. /\ t \in Seq(Numbers) /\ Len(t) = Len(s) + 1 /\ \A i \in 1..Len(s) : t[i] = s[i]
      /\ t[Len(s) + 1] = e /\ Len(s) \in Nat
  BY <1>1, AppendProperties
<1> HIDE DEF t
<1>3. ASSUME NEW i \in 1..Len(t) PROVE t[i][1] = c /\ \A j \in 1..i - 1 : t[j][2] < t[i][2]
  <2>1. CASE i \in 1..Len(s)
    BY <1>2, <2>1 DEF Grow
  <2>2. CASE i = Len(s) + 1
    BY <1>1, <1>2, <2>2
  <2>3. QED
    BY <1>2, <2>1, <2>2
<1>4. Grow(t, c)
  BY <1>2, <1>3 DEF Grow
<1>5. QED
  BY <1>2, <1>4 DEF t, e

\* The first of growing numbers is below the rest, which grow.
LEMMA GrowTail ==
  ASSUME NEW c, NEW s, Grow(s, c), s # <<>>
  PROVE  /\ Grow(Tail(s), c) /\ Len(s) \in Nat /\ Len(Tail(s)) = Len(s) - 1 /\ Head(s) = s[1] /\ 1 \in 1..Len(s)
         /\ \A i \in 1..Len(Tail(s)) : i + 1 \in 1..Len(s) /\ Tail(s)[i] = s[i + 1] /\ s[1][2] < Tail(s)[i][2]
<1>1. s \in Seq(Numbers)
  BY DEF Grow
<1>2. /\ Tail(s) \in Seq(Numbers) /\ Len(s) \in Nat /\ Len(Tail(s)) = Len(s) - 1 /\ Head(s) = s[1]
      /\ \A i \in 1..Len(Tail(s)) : Tail(s)[i] = s[i + 1]
  BY <1>1, HeadTailProperties
<1>3. Len(s) > 0
  BY <1>1, <1>2, EmptySeq
<1> DEFINE t == Tail(s)
<1> HIDE DEF t
<1>4. ASSUME NEW i \in 1..Len(t) PROVE i + 1 \in 1..Len(s) /\ t[i] = s[i + 1] /\ s[1][2] < t[i][2] /\ t[i][1] = c
                                       /\ \A j \in 1..i - 1 : t[j][2] < t[i][2]
  <2>1. i + 1 \in 1..Len(s) /\ t[i] = s[i + 1] /\ \A j \in 1..i - 1 : t[j] = s[j + 1] /\ j + 1 \in 1..(i + 1) - 1
    BY <1>2, <1>3 DEF t
  <2>2. s[i + 1][1] = c /\ \A j \in 1..(i + 1) - 1 : s[j][2] < s[i + 1][2]
    BY <2>1 DEF Grow
  <2>3. 1 \in 1..(i + 1) - 1
    BY <1>2 DEF t
  <2>4. QED
    BY <2>1, <2>2, <2>3
<1>5. Grow(t, c)
  BY <1>2, <1>4 DEF Grow, t
<1>6. QED
  BY <1>2, <1>3, <1>4, <1>5 DEF t

\* A step that stages, commits and runs nothing.
LEMMA QuietStep ==
  ASSUME CallbacksInv, NEW c \in Callers, NEW d, Moves(c, d), SameQueues(d, calls[c]), UNCHANGED <<staged, called>>
  PROVE  CallbacksInv'
<1>1. CallsShape' /\ calls'[c] = d /\ \A other \in Callers \ {c} : calls'[other] = calls[other]
  BY MovedCall DEF CallbacksInv
<1>2. ASSUME NEW o \in Callers PROVE PendingOK(calls[o], o)' /\ FlushOK(calls[o], o)'
  <2>1. PendingOK(calls[o], o) /\ FlushOK(calls[o], o) /\ SameQueues(calls'[o], calls[o])
    BY <1>1 DEF CallbacksInv, SameQueues
  <2>2. QED
    BY <2>1 DEF PendingOK, FlushOK, SameQueues
<1>3. CalledOK'
  BY DEF CallbacksInv, CalledOK, CallbacksFollowCommit
<1>4. QED
  BY <1>1, <1>2, <1>3 DEF CallbacksInv

\* A transaction starts with nothing staged, and a rolled back one leaves nothing.
LEMMA EmptyStep ==
  ASSUME CallbacksInv, NEW c \in Callers, NEW d, Moves(c, d), d.tx.open \in BOOLEAN, d.tx.pending = <<>>, d.flush = <<>>,
         UNCHANGED <<staged, called>>
  PROVE  CallbacksInv'
<1>1. CallsShape' /\ calls'[c] = d /\ \A other \in Callers \ {c} : calls'[other] = calls[other]
  BY MovedCall DEF CallbacksInv
<1>2. ASSUME NEW o \in Callers PROVE PendingOK(calls[o], o)' /\ FlushOK(calls[o], o)'
  <2>1. CASE o = c
    <3>1. Grow(<<>>, c) /\ Above(<<>>, c, called) /\ Known(<<>>, staged) /\ Len(<<>>) = 0
      BY DEF Grow, Above, Known
    <3>2. QED
      BY <1>1, <2>1, <3>1 DEF PendingOK, FlushOK
  <2>2. CASE o # c
    <3>1. PendingOK(calls[o], o) /\ FlushOK(calls[o], o) /\ calls'[o] = calls[o]
      BY <1>1, <2>2 DEF CallbacksInv
    <3>2. QED
      BY <3>1 DEF PendingOK, FlushOK
  <2>3. QED
    BY <2>1, <2>2
<1>3. CalledOK'
  BY DEF CallbacksInv, CalledOK, CallbacksFollowCommit
<1>4. QED
  BY <1>1, <1>2, <1>3 DEF CallbacksInv

\* A callback staged has a number above all that were staged, and so above all that were called.
LEMMA AfterCommitStep ==
  ASSUME CallbacksInv, NEW c \in Callers, AfterCommit(c)
  PROVE  CallbacksInv'
<1> DEFINE p == calls[c].tx.pending
           n == Len(staged) + Len(p) + 1
           q == Append(p, <<c, n>>)
<1>1. PICK d : Moves(c, d) /\ d.tx.open = calls[c].tx.open /\ d.flush = calls[c].flush /\ d.tx.pending = q
  BY AfterCommitEffect DEF CallbacksInv, SameTx
<1>2. CallsShape' /\ calls'[c] = d /\ \A other \in Callers \ {c} : calls'[other] = calls[other]
  BY <1>1, MovedCall DEF CallbacksInv
<1>3. PendingOK(calls[c], c) /\ FlushOK(calls[c], c) /\ UNCHANGED <<staged, called>> /\ calls[c].tx.open
  BY DEF CallbacksInv, AfterCommit, InTx
<1>4. /\ staged \in Seq(Numbers) /\ Len(staged) \in Nat /\ p \in Seq(Numbers) /\ Len(p) \in Nat
      /\ called \in Seq(Numbers) /\ Known(called, staged)
  BY <1>3, LenProperties DEF CallbacksInv, CalledOK, PendingOK, Grow
<1>5. n \in Nat /\ n > Len(staged) /\ n = Len(staged) + (Len(p) + 1)
  BY <1>4
<1>6. ASSUME NEW i \in 1..Len(p) PROVE p[i][2] < n /\ p[i][2] \in Nat
  <2>1. p[i] \in Numbers /\ p[i][2] <= Len(staged) + i
    BY <1>3, <1>4, ElementOfSeq DEF PendingOK
  <2>2. p[i][2] \in Nat
    BY <2>1 DEF Numbers
  <2>3. QED
    BY <1>4, <2>1, <2>2, SMTT(30)
<1>7. /\ Grow(q, c) /\ Len(q) = Len(p) + 1 /\ q[Len(p) + 1] = <<c, n>> /\ \A i \in 1..Len(p) : q[i] = p[i]
  <2>1. Grow(p, c)
    BY <1>3 DEF PendingOK
  <2> HIDE DEF p, n
  <2>2. QED
    BY <1>5, <1>6, <2>1, GrowAppend
<1>8. <<c, n>>[2] = n
  OBVIOUS
<1>9. \A k \in 1..Len(called) : called[k][2] < n
  <2>1. SUFFICES ASSUME NEW k \in 1..Len(called) PROVE called[k][2] < n
    OBVIOUS
  <2>2. called[k] \in Numbers /\ called[k][2] <= Len(staged)
    BY <1>4, ElementOfSeq DEF Known
  <2>3. called[k][2] \in Nat
    BY <2>2 DEF Numbers
  <2>4. QED
    BY <1>4, <1>5, <2>2, <2>3
<1> HIDE DEF n, q
<1>10. Above(q, c, called)
  <2>1. SUFFICES ASSUME NEW i \in 1..Len(q), NEW k \in 1..Len(called), called[k][1] = c PROVE called[k][2] < q[i][2]
    BY DEF Above
  <2>2. CASE i \in 1..Len(p)
    BY <1>3, <1>7, <2>1, <2>2 DEF PendingOK, Above
  <2>3. CASE i = Len(p) + 1
    BY <1>7, <1>8, <1>9, <2>3
  <2> HIDE DEF p
  <2>4. i \in 1..Len(p) \/ i = Len(p) + 1
    BY <1>4, <1>7
  <2>5. QED
    BY <2>2, <2>3, <2>4
<1>11. \A i \in 1..Len(q) : q[i][2] <= Len(staged) + i
  <2>1. SUFFICES ASSUME NEW i \in 1..Len(q) PROVE q[i][2] <= Len(staged) + i
    OBVIOUS
  <2>2. CASE i \in 1..Len(p)
    BY <1>3, <1>7, <2>2 DEF PendingOK
  <2>3. CASE i = Len(p) + 1
    BY <1>4, <1>5, <1>7, <1>8, <2>3
  <2> HIDE DEF p
  <2>4. i \in 1..Len(p) \/ i = Len(p) + 1
    BY <1>4, <1>7
  <2>5. QED
    BY <2>2, <2>3, <2>4
<1>12. PendingOK(calls[c], c)' /\ FlushOK(calls[c], c)'
  BY <1>1, <1>2, <1>3, <1>7, <1>10, <1>11 DEF PendingOK, FlushOK
<1>13. ASSUME NEW o \in Callers, o # c PROVE PendingOK(calls[o], o)' /\ FlushOK(calls[o], o)'
  <2>1. PendingOK(calls[o], o) /\ FlushOK(calls[o], o) /\ calls'[o] = calls[o]
    BY <1>2, <1>13 DEF CallbacksInv
  <2>2. QED
    BY <1>3, <2>1 DEF PendingOK, FlushOK
<1>14. CalledOK'
  BY <1>3 DEF CallbacksInv, CalledOK, CallbacksFollowCommit
<1>15. QED
  BY <1>2, <1>3, <1>12, <1>13, <1>14 DEF CallbacksInv

\* A commit puts what the transaction staged at the end of all that was staged.
LEMMA CommitStep ==
  ASSUME CallbacksInv, NEW c \in Callers, Commit(c)
  PROVE  CallbacksInv'
<1> DEFINE p == calls[c].tx.pending
           all == staged \o p
<1>1. PICK d : Moves(c, d) /\ d.tx = NoTx /\ d.flush = p
  BY CommitEffect DEF CallbacksInv
<1>2. CallsShape' /\ calls'[c] = d /\ \A other \in Callers \ {c} : calls'[other] = calls[other]
  BY <1>1, MovedCall DEF CallbacksInv
<1>3. /\ PendingOK(calls[c], c) /\ FlushOK(calls[c], c) /\ called' = called /\ staged' = all
  BY DEF CallbacksInv, Commit
<1>4. /\ staged \in Seq(Numbers) /\ Len(staged) \in Nat /\ p \in Seq(Numbers) /\ Len(p) \in Nat /\ Grow(p, c)
  BY <1>3, LenProperties DEF CallbacksInv, PendingOK, Grow
<1>5. /\ all \in Seq(Numbers) /\ Len(all) = Len(staged) + Len(p)
      /\ \A i \in 1..Len(staged) + Len(p) : all[i] = IF i <= Len(staged) THEN staged[i] ELSE p[i - Len(staged)]
  BY <1>4, ConcatProperties
<1> HIDE DEF all
<1>6. \A i \in 1..Len(staged) : i \in 1..Len(all) /\ all[i] = staged[i]
  BY <1>4, <1>5
<1>7. Known(p, all)
  <2>1. SUFFICES ASSUME NEW i \in 1..Len(p) PROVE p[i][2] <= Len(all) /\ \E j \in 1..Len(all) : all[j] = p[i]
    BY DEF Known
  <2>2. p[i] \in Numbers /\ p[i][2] <= Len(staged) + i
    BY <1>3, <1>4, ElementOfSeq DEF PendingOK
  <2>3. p[i][2] \in Nat
    BY <2>2 DEF Numbers
  <2>4. Len(staged) + i \in 1..Len(all) /\ all[Len(staged) + i] = p[i]
    <3>1. /\ Len(staged) + i \in 1..Len(staged) + Len(p) /\ ~ (Len(staged) + i <= Len(staged))
          /\ (Len(staged) + i) - Len(staged) = i
      BY <1>4
    <3>2. QED
      BY <1>5, <3>1
  <2>5. p[i][2] <= Len(all)
    BY <1>4, <1>5, <2>2, <2>3, SMTT(30)
  <2>6. QED
    BY <2>4, <2>5
<1>8. ASSUME NEW s, s \in Seq(Numbers), Known(s, staged) PROVE Known(s, all)
  <2>1. SUFFICES ASSUME NEW i \in 1..Len(s) PROVE s[i][2] <= Len(all) /\ \E j \in 1..Len(all) : all[j] = s[i]
    BY DEF Known
  <2>2. s[i] \in Numbers /\ s[i][2] <= Len(staged) /\ \E j \in 1..Len(staged) : staged[j] = s[i]
    BY <1>8, ElementOfSeq DEF Known
  <2>3. s[i][2] \in Nat
    BY <2>2 DEF Numbers
  <2>4. s[i][2] <= Len(all)
    BY <1>4, <1>5, <2>2, <2>3
  <2>5. QED
    BY <1>6, <2>2, <2>4
<1>9. PendingOK(calls[c], c)' /\ FlushOK(calls[c], c)'
  <2>1. Grow(<<>>, c) /\ Above(<<>>, c, called) /\ Len(<<>>) = 0
    BY DEF Grow, Above
  <2>2. Above(p, c, called)
    BY <1>3 DEF PendingOK
  <2>3. PendingOK(calls[c], c)'
    <3>1. calls'[c].tx.open = FALSE /\ calls'[c].tx.pending = <<>>
      BY <1>1, <1>2, NothingYet
    <3>2. \A i \in 1..Len(<<>>) : FALSE
      OBVIOUS
    <3>3. Above(<<>>, c, called')
      BY <1>3, <2>1
    <3>4. QED
      BY <2>1, <3>1, <3>2, <3>3 DEF PendingOK
  <2> HIDE DEF p
  <2>4. QED
    BY <1>1, <1>2, <1>3, <1>4, <1>7, <2>2, <2>3 DEF FlushOK
<1>10. ASSUME NEW o \in Callers, o # c PROVE PendingOK(calls[o], o)' /\ FlushOK(calls[o], o)'
  <2>1. PendingOK(calls[o], o) /\ FlushOK(calls[o], o) /\ calls'[o] = calls[o]
    BY <1>2, <1>10 DEF CallbacksInv
  <2>2. calls[o].tx.pending \in Seq(Numbers) /\ calls[o].flush \in Seq(Numbers)
    BY <2>1 DEF PendingOK, FlushOK, Grow
  <2>3. ASSUME NEW i \in 1..Len(calls[o].tx.pending) PROVE calls[o].tx.pending[i][2] <= Len(all) + i
    <3>1. calls[o].tx.pending[i] \in Numbers /\ calls[o].tx.pending[i][2] <= Len(staged) + i
      BY <2>1, <2>2, ElementOfSeq DEF PendingOK
    <3>2. calls[o].tx.pending[i][2] \in Nat
      BY <3>1 DEF Numbers
    <3>3. ASSUME NEW x \in Nat, NEW y \in Nat, NEW z \in Nat, NEW j \in 1..z, NEW l \in Nat, x <= y + j PROVE x <= (y + l) + j
      BY <3>3
    <3>4. Len(calls[o].tx.pending) \in Nat
      BY <2>2, LenProperties
    <3> HIDE DEF p
    <3>5. QED
      BY <1>4, <1>5, <3>1, <3>2, <3>3, <3>4
  <2>4. Known(calls[o].flush, all)
    BY <1>8, <2>1, <2>2 DEF FlushOK
  <2>5. QED
    BY <1>3, <2>1, <2>3, <2>4 DEF PendingOK, FlushOK
<1>11. CalledOK'
  <2>1. Known(called, all) /\ called \in Seq(Numbers)
    BY <1>8 DEF CallbacksInv, CalledOK
  <2>2. CallbacksFollowCommit'
    BY <1>3, <2>1 DEF CallbacksInv, CalledOK, CallbacksFollowCommit, Known
  <2>3. QED
    BY <1>3, <2>1, <2>2 DEF CalledOK
<1>12. QED
  BY <1>2, <1>3, <1>5, <1>9, <1>10, <1>11 DEF CallbacksInv

\* A callback run is the first that waits, above all its caller has run.
LEMMA flushStep ==
  ASSUME CallbacksInv, NEW c \in Callers, flush(c)
  PROVE  CallbacksInv'
<1> DEFINE f == calls[c].flush
           more == Append(called, Head(f))
<1>1. PICK d : Moves(c, d) /\ d.tx = calls[c].tx /\ d.flush = Tail(f)
  BY flushEffect DEF CallbacksInv
<1>2. CallsShape' /\ calls'[c] = d /\ \A other \in Callers \ {c} : calls'[other] = calls[other]
  BY <1>1, MovedCall DEF CallbacksInv
<1>3. /\ PendingOK(calls[c], c) /\ FlushOK(calls[c], c) /\ called' = more /\ staged' = staged /\ f # <<>>
      /\ CalledOK /\ called \in Seq(Numbers)
  BY DEF CallbacksInv, CalledOK, flush
<1>4. /\ Grow(Tail(f), c) /\ Len(f) \in Nat /\ Len(Tail(f)) = Len(f) - 1 /\ Head(f) = f[1] /\ 1 \in 1..Len(f)
      /\ \A i \in 1..Len(Tail(f)) : i + 1 \in 1..Len(f) /\ Tail(f)[i] = f[i + 1] /\ f[1][2] < Tail(f)[i][2]
  BY <1>3, GrowTail DEF FlushOK
<1>5. f[1] \in Numbers /\ f[1][1] = c
  BY <1>3, <1>4, ElementOfSeq DEF FlushOK, Grow
<1>6. /\ more \in Seq(Numbers) /\ Len(more) = Len(called) + 1 /\ Len(called) \in Nat
      /\ more[Len(called) + 1] = f[1] /\ \A i \in 1..Len(called) : more[i] = called[i]
  BY <1>3, <1>4, <1>5, AppendProperties
<1> HIDE DEF more, f
<1>7. calls[c].tx.open = FALSE /\ calls[c].tx.pending = <<>>
  BY <1>3 DEF PendingOK, f
<1>8. /\ f[1][2] <= Len(staged) /\ \E j \in 1..Len(staged) : staged[j] = f[1]
      /\ \A k \in 1..Len(called) : called[k][1] = c => called[k][2] < f[1][2]
  BY <1>3, <1>4 DEF FlushOK, Known, Above, f
<1>9. Known(more, staged)
  <2>1. SUFFICES ASSUME NEW i \in 1..Len(more) PROVE more[i][2] <= Len(staged) /\ \E j \in 1..Len(staged) : staged[j] = more[i]
    BY DEF Known
  <2>2. CASE i \in 1..Len(called)
    BY <1>3, <1>6, <2>2 DEF CalledOK, Known
  <2>3. CASE i = Len(called) + 1
    BY <1>6, <1>8, <2>3
  <2>4. QED
    BY <1>6, <2>2, <2>3
<1>10. ASSUME NEW i \in 1..Len(more), NEW k \in 1..i - 1, more[k][1] = more[i][1] PROVE more[k][2] < more[i][2]
  <2>1. k \in 1..Len(called)
    BY <1>6
  <2>2. CASE i \in 1..Len(called)
    BY <1>3, <1>6, <1>10, <2>1, <2>2 DEF CalledOK, CallbacksFollowCommit
  <2>3. CASE i = Len(called) + 1
    BY <1>5, <1>6, <1>8, <1>10, <2>1, <2>3
  <2>4. QED
    BY <1>6, <2>2, <2>3
<1>11. CalledOK'
  BY <1>3, <1>6, <1>9, <1>10 DEF CalledOK, CallbacksFollowCommit, Known
<1>12. Above(Tail(f), c, more)
  <2>1. SUFFICES ASSUME NEW i \in 1..Len(Tail(f)), NEW k \in 1..Len(more), more[k][1] = c PROVE more[k][2] < Tail(f)[i][2]
    BY DEF Above
  <2>2. CASE k \in 1..Len(called)
    BY <1>3, <1>4, <1>6, <2>1, <2>2 DEF FlushOK, Above, f
  <2>3. CASE k = Len(called) + 1
    BY <1>4, <1>6, <2>3
  <2>4. QED
    BY <1>6, <2>2, <2>3
<1>13. Known(Tail(f), staged)
  BY <1>3, <1>4 DEF FlushOK, Known, f
<1>14. PendingOK(calls[c], c)' /\ FlushOK(calls[c], c)'
  <2>1. Grow(<<>>, c) /\ Above(<<>>, c, more) /\ Len(<<>>) = 0
    BY DEF Grow, Above
  <2>2. PendingOK(calls[c], c)'
    BY <1>1, <1>2, <1>3, <1>7, <2>1 DEF PendingOK
  <2>3. QED
    BY <1>1, <1>2, <1>3, <1>4, <1>12, <1>13, <2>2 DEF FlushOK
<1>15. ASSUME NEW o \in Callers, o # c PROVE PendingOK(calls[o], o)' /\ FlushOK(calls[o], o)'
  <2>1. PendingOK(calls[o], o) /\ FlushOK(calls[o], o) /\ calls'[o] = calls[o]
    BY <1>2, <1>15 DEF CallbacksInv
  <2>2. ASSUME NEW s, Above(s, o, called) PROVE Above(s, o, more)
    <3>1. SUFFICES ASSUME NEW i \in 1..Len(s), NEW k \in 1..Len(more), more[k][1] = o PROVE more[k][2] < s[i][2]
      BY DEF Above
    <3>2. k \in 1..Len(called) /\ more[k] = called[k]
      BY <1>5, <1>6, <1>15, <3>1
    <3>3. QED
      BY <2>2, <3>1, <3>2 DEF Above
  <2>3. Above(calls[o].tx.pending, o, more) /\ Above(calls[o].flush, o, more)
    BY <2>1, <2>2 DEF PendingOK, FlushOK
  <2>4. QED
    BY <1>3, <2>1, <2>3 DEF PendingOK, FlushOK
<1>16. QED
  BY <1>2, <1>3, <1>11, <1>14, <1>15 DEF CallbacksInv

-----------------------------------------------------------------------------
(* Writes.                                                                 *)

\* No other transaction has the row.
Loose(c, rid) == \A other \in Callers \ {c} : rid \notin calls[other].tx.held

\* What a caller may do to the committed rows: put later versions of rows no other transaction has.
RecordsMove(c) ==
  /\ RecordsOK' /\ DOMAIN records \subseteq DOMAIN records'
  /\ \A rid \in DOMAIN records' :
       \/ rid \in DOMAIN records /\ records'[rid] = records[rid]
       \/ Loose(c, rid) /\ (rid \in DOMAIN records => records'[rid].version > records[rid].version)
  /\ \A save \in saved' : save \in saved \/ Loose(c, save[1])

\* What a write puts in place of a row: a later version, with its edits; the fence held.
Good(c, rid, row, object, edits) ==
  /\ IsRow(row) /\ IsObject(object)
  /\ \A edit \in edits : edit[1] = rid /\ edit[2] \in row.edits
  /\ object.held = calls[c].object.held /\ object.rid = calls[c].object.rid
  /\ ObjectOK(object, Put(View(c), rid, row))
  /\ rid \in DOMAIN View(c) =>
       /\ row.version > View(c)[rid].version /\ View(c)[rid].edits \subseteq row.edits
       /\ Restricted(c) => View(c)[rid].owner = who[c] /\ row.owner = who[c]

\* The rows a caller finds.
LEMMA ViewIs ==
  ASSUME NEW c
  PROVE  /\ DOMAIN View(c) = DOMAIN calls[c].tx.writes \cup DOMAIN records
         /\ \A rid \in DOMAIN calls[c].tx.writes : View(c)[rid] = calls[c].tx.writes[rid]
         /\ \A rid \in DOMAIN records : rid \notin DOMAIN calls[c].tx.writes => View(c)[rid] = records[rid]
BY DEF View, Overlay

\* They are rows.
LEMMA ViewRows ==
  ASSUME WritesInv, NEW c \in Callers, NEW rid \in DOMAIN View(c)
  PROVE  IsRow(View(c)[rid]) /\ View(c)[rid].version \in Nat \ {0}
<1>1. CallOK(calls[c], c) /\ TxOK(calls[c].tx, c) /\ RecordsOK
  BY DEF WritesInv, CallOK
<1>2. IsRow(View(c)[rid])
  <2>1. CASE rid \in DOMAIN calls[c].tx.writes
    BY <1>1, <2>1, ViewIs DEF TxOK
  <2>2. CASE rid \notin DOMAIN calls[c].tx.writes
    BY <1>1, <2>2, ViewIs DEF RecordsOK
  <2>3. QED
    BY <2>1, <2>2
<1>3. QED
  BY <1>2 DEF IsRow

\* An object stays as old as its row or older while the row only gets later versions, and the edits of one that is held stay.
LEMMA ObjectStays ==
  ASSUME NEW o, NEW f, NEW g, ObjectOK(o, f),
         o.rid \in DOMAIN f => /\ o.rid \in DOMAIN g /\ f[o.rid].version \in Nat /\ g[o.rid].version \in Nat
                               /\ \/ g[o.rid] = f[o.rid]
                                  \/ g[o.rid].version > f[o.rid].version /\ (o.held => g[o.rid].edits = f[o.rid].edits)
  PROVE  ObjectOK(o, g)
<1>1. CASE o.rid \in DOMAIN f
  <2>1. CASE g[o.rid] = f[o.rid]
    BY <1>1, <2>1 DEF ObjectOK
  <2>2. CASE g[o.rid].version > f[o.rid].version /\ (o.held => g[o.rid].edits = f[o.rid].edits)
    BY <1>1, <2>2 DEF ObjectOK
  <2>3. QED
    BY <1>1, <2>1, <2>2
<1>2. CASE o.rid \notin DOMAIN f
  BY <1>2 DEF ObjectOK
<1>3. QED
  BY <1>1, <1>2

\* A caller does not disturb another.
LEMMA OthersStay ==
  ASSUME WritesInv, NEW c \in Callers, RecordsMove(c), who' = who, NEW o \in Callers, o # c, calls'[o] = calls[o]
  PROVE  CallOK(calls[o], o)'
<1> DEFINE w == calls[o].tx.writes
           f == Overlay(w, records)
           g == Overlay(w, records')
<1>1. CallOK(calls[o], o) /\ TxOK(calls[o].tx, o) /\ RecordsOK /\ RecordsOK'
  BY DEF WritesInv, CallOK, RecordsMove
<1>2. ASSUME NEW rid \in calls[o].tx.held PROVE ~ Loose(c, rid)
  BY DEF Loose
<1>3. ASSUME NEW rid \in DOMAIN w PROVE ~ Loose(c, rid) /\ (rid \in DOMAIN records' => rid \in DOMAIN records /\ records'[rid] = records[rid])
  BY <1>1, <1>2 DEF TxOK, RecordsMove
<1>4. TxOK(calls[o].tx, o)'
  <2>1. ASSUME NEW save \in saved', save[1] \in DOMAIN w PROVE save[2] \in w[save[1]].edits
    <3>1. save \in saved
      BY <1>3, <2>1 DEF RecordsMove
    <3>2. QED
      BY <1>1, <2>1, <3>1 DEF TxOK
  <2>2. ASSUME NEW rid \in DOMAIN w
        PROVE  /\ IsRow(w[rid])
               /\ rid \in DOMAIN records' =>
                    /\ w[rid].version > records'[rid].version
                    /\ who'[o] \notin {"admin", "system"} => records'[rid].owner = who'[o] /\ w[rid].owner = who'[o]
    BY <1>1, <1>3 DEF TxOK, Restricted
  <2>3. QED
    BY <1>1, <2>1, <2>2 DEF TxOK, Restricted
<1>5. ObjectOK(calls[o].object, g)
  <2> DEFINE ob == calls[o].object
  <2>1. ObjectOK(ob, f)
    BY <1>1 DEF CallOK
  <2>2. ASSUME ob.rid \in DOMAIN f
        PROVE  /\ ob.rid \in DOMAIN g /\ f[ob.rid].version \in Nat /\ g[ob.rid].version \in Nat
               /\ \/ g[ob.rid] = f[ob.rid]
                  \/ g[ob.rid].version > f[ob.rid].version /\ (ob.held => g[ob.rid].edits = f[ob.rid].edits)
    <3>1. CASE ob.rid \in DOMAIN w
      <4>1. f[ob.rid] = w[ob.rid] /\ g[ob.rid] = w[ob.rid] /\ ob.rid \in DOMAIN g
        BY <3>1 DEF Overlay
      <4>2. w[ob.rid].version \in Nat
        BY <1>1, <3>1 DEF TxOK, IsRow
      <4>3. QED
        BY <4>1, <4>2
    <3>2. CASE ob.rid \notin DOMAIN w
      <4>1. ob.rid \in DOMAIN records /\ ob.rid \in DOMAIN records'
        BY <2>2, <3>2 DEF RecordsMove, Overlay
      <4>2. f[ob.rid] = records[ob.rid] /\ g[ob.rid] = records'[ob.rid] /\ ob.rid \in DOMAIN g
        BY <3>2, <4>1 DEF Overlay
      <4>3. records[ob.rid].version \in Nat /\ records'[ob.rid].version \in Nat
        BY <1>1, <4>1 DEF RecordsOK, IsRow
      <4>4. \/ records'[ob.rid] = records[ob.rid]
            \/ Loose(c, ob.rid) /\ records'[ob.rid].version > records[ob.rid].version
        BY <4>1 DEF RecordsMove
      <4>5. Loose(c, ob.rid) => ~ ob.held
        BY <1>1, <1>2 DEF CallOK
      <4> HIDE DEF f, g
      <4>6. QED
        BY <4>2, <4>3, <4>4, <4>5
    <3>3. QED
      BY <3>1, <3>2
  <2> HIDE DEF f, g, ob
  <2>3. ObjectOK(ob, g)
    BY <2>1, <2>2, ObjectStays
  <2>4. QED
    BY <2>3 DEF ob
<1>6. QED
  BY <1>1, <1>4, <1>5 DEF CallOK, RecordsMove

\* What a step leaves, from what it leaves of the rows and of the caller.
LEMMA StepHolds ==
  ASSUME WritesInv, NEW c \in Callers, NEW d, Moves(c, d), who' = who, RecordsMove(c), CallOK(d, c)',
         \A rid \in d.tx.held : rid \in calls[c].tx.held \/ Loose(c, rid)
  PROVE  WritesInv'
<1>1. CallsShape' /\ calls'[c] = d /\ \A other \in Callers \ {c} : calls'[other] = calls[other]
  BY MovedCall DEF WritesInv
<1>2. ASSUME NEW o \in Callers PROVE CallOK(calls[o], o)'
  <2>1. CASE o = c
    BY <1>1, <2>1
  <2>2. CASE o # c
    BY <1>1, <2>2, OthersStay
  <2>3. QED
    BY <2>1, <2>2
<1>3. HeldApart'
  <2>1. ASSUME NEW o \in Callers, o # c PROVE d.tx.held \cap calls[o].tx.held = {}
    BY <2>1 DEF WritesInv, HeldApart, Loose
  <2>2. QED
    BY <1>1, <2>1 DEF WritesInv, HeldApart
<1>4. QED
  BY <1>1, <1>2, <1>3 DEF WritesInv, RecordsMove

\* Nothing moves.
LEMMA RecordsRest ==
  ASSUME WritesInv, NEW c, UNCHANGED <<records, saved>>
  PROVE  RecordsMove(c) /\ RecordsOK'
BY DEF WritesInv, RecordsMove, RecordsOK

\* A step that leaves rows, object and writes as they are.
LEMMA SameStep ==
  ASSUME WritesInv, NEW c \in Callers, NEW d, Moves(c, d), UNCHANGED <<who, records, saved>>,
         SameTx(d.tx, calls[c].tx), d.object = calls[c].object,
         d.at = "upsert" => ~ d.tx.open /\ d.rid \in DOMAIN records /\ who[c] = "system"
  PROVE  WritesInv'
<1>1. CallOK(calls[c], c) /\ RecordsMove(c)
  BY RecordsRest DEF WritesInv
<1>2. TxOK(d.tx, c)'
  <2>1. TxOK(calls[c].tx, c)
    BY <1>1 DEF CallOK
  <2>2. QED
    BY <2>1 DEF TxOK, SameTx, Restricted
<1>3. CallOK(d, c)'
  BY <1>1, <1>2 DEF CallOK, SameTx
<1>4. \A rid \in d.tx.held : rid \in calls[c].tx.held
  BY DEF SameTx
<1>5. QED
  BY <1>1, <1>3, <1>4, StepHolds

\* A read gives an object as its row is, and takes a row no other transaction has.
LEMMA getStep ==
  ASSUME WritesInv, NEW c \in Callers, NEW rid, NEW lock \in BOOLEAN, get(c, rid, lock)
  PROVE  WritesInv'
<1> DEFINE found == Found(c, rid)
<1>0. CallsShape
  BY DEF WritesInv
<1>1. PICK d : Got(d, c, rid, lock)
  BY <1>0, getEffect
<1>2. CallOK(calls[c], c) /\ TxOK(calls[c].tx, c) /\ RecordsMove(c) /\ UNCHANGED <<who, records, saved>>
  BY RecordsRest DEF WritesInv, CallOK, get
<1>3. lock => calls[c].tx.open /\ Loose(c, rid)
  BY DEF get, InTx, Free, Loose
<1>4. found => rid \in DOMAIN View(c)
  BY DEF Found, readScoped
<1>5. TxOK(d.tx, c)'
  <2>1. calls[c].tx.held \subseteq d.tx.held /\ d.tx.open = calls[c].tx.open
    BY <1>1 DEF Got, SameQueues
  <2>2. ~ d.tx.open => SameTx(d.tx, NoTx)
    BY <1>1, <1>2, <1>3, <2>1 DEF Got, TxOK, SameTx
  <2>3. QED
    BY <1>1, <1>2, <2>1, <2>2 DEF Got, TxOK, Restricted
<1>6. ObjectOK(d.object, View(c))
  <2>1. CASE found
    <3>1. View(c)[rid].version \in Nat \ {0}
      BY <1>4, <2>1, ViewRows
    <3>2. QED
      BY <1>1, <1>4, <2>1, <3>1 DEF Got, ObjectOK
  <2>2. CASE ~ found
    BY <1>1, <2>2, NothingYet DEF Got, ObjectOK
  <2>3. QED
    BY <2>1, <2>2
<1>7. d.object.held => d.tx.open /\ d.object.rid \in d.tx.held
  BY <1>1, <1>3, NothingYet DEF Got, SameQueues
<1>8. CallOK(d, c)'
  <2>1. View(c) = Overlay(d.tx.writes, records')
    BY <1>1, <1>2 DEF Got, View
  <2>2. QED
    BY <1>1, <1>5, <1>6, <1>7, <2>1 DEF Got, CallOK
<1>9. \A r \in d.tx.held : r \in calls[c].tx.held \/ Loose(c, r)
  BY <1>1, <1>3 DEF Got
<1>10. QED
  BY <1>1, <1>2, <1>8, <1>9, StepHolds DEF Got

\* A transaction starts with nothing; a rolled back one leaves nothing.
LEMMA NothingStep ==
  ASSUME WritesInv, NEW c \in Callers, NEW d, Moves(c, d), UNCHANGED <<who, records, saved>>,
         d.tx.open \in BOOLEAN, d.tx.writes = <<>>, d.tx.held = {}, d.tx.edits = {}, d.object = NoObject, d.at = "idle"
  PROVE  WritesInv'
<1>1. RecordsMove(c)
  BY RecordsRest
<1>2. DOMAIN <<>> = {}
  OBVIOUS
<1>3. TxOK(d.tx, c)'
  BY <1>2, NothingYet DEF TxOK, SameTx
<1>4. CallOK(d, c)'
  BY <1>3, NothingYet DEF CallOK, ObjectOK
<1>5. QED
  BY <1>1, <1>4, StepHolds

\* A commit moves the rows the transaction has to the versions it wrote.
LEMMA CommitHolds ==
  ASSUME WritesInv, NEW c \in Callers, Commit(c)
  PROVE  WritesInv'
<1> DEFINE t == calls[c].tx
           w == t.writes
           o == calls[c].object
<1>1. PICK d : /\ Moves(c, d) /\ d.tx = NoTx /\ d.at = "idle" /\ d.object.held = FALSE
               /\ d.object.rid = o.rid /\ d.object.version = o.version /\ d.object.edits = o.edits
  BY CommitEffect DEF WritesInv
<1>2. /\ CallOK(calls[c], c) /\ TxOK(t, c) /\ RecordsOK /\ HeldApart
      /\ records' = View(c) /\ saved' = saved \cup t.edits /\ who' = who
  BY DEF WritesInv, CallOK, Commit
<1>3. ASSUME NEW rid \in DOMAIN w PROVE Loose(c, rid) /\ rid \in DOMAIN records' /\ records'[rid] = w[rid] /\ IsRow(w[rid])
  BY <1>2, ViewIs DEF TxOK, HeldApart, Loose
<1>4. ASSUME NEW rid \in DOMAIN records PROVE rid \in DOMAIN records' /\ (rid \notin DOMAIN w => records'[rid] = records[rid])
  BY <1>2, ViewIs
<1>5. DOMAIN records' = DOMAIN w \cup DOMAIN records
  BY <1>2, ViewIs
<1>6. RecordsOK'
  <2>1. ASSUME NEW rid \in DOMAIN records' PROVE IsRow(records'[rid])
    BY <1>2, <1>3, <1>4, <1>5 DEF RecordsOK
  <2>2. ASSUME NEW save \in saved' PROVE save[1] \in DOMAIN records' /\ save[2] \in records'[save[1]].edits
    <3>1. CASE save \in saved
      <4>1. save[1] \in DOMAIN records /\ save[2] \in records[save[1]].edits
        BY <1>2, <3>1 DEF RecordsOK
      <4>2. CASE save[1] \in DOMAIN w
        BY <1>2, <1>3, <3>1, <4>2 DEF TxOK
      <4>3. CASE save[1] \notin DOMAIN w
        BY <1>4, <4>1, <4>3
      <4>4. QED
        BY <4>2, <4>3
    <3>2. CASE save \in t.edits
      BY <1>2, <1>3, <3>2 DEF TxOK
    <3>3. QED
      BY <1>2, <3>1, <3>2
  <2>3. QED
    BY <2>1, <2>2 DEF RecordsOK
<1>7. RecordsMove(c)
  <2>1. ASSUME NEW rid \in DOMAIN records'
        PROVE  \/ rid \in DOMAIN records /\ records'[rid] = records[rid]
               \/ Loose(c, rid) /\ (rid \in DOMAIN records => records'[rid].version > records[rid].version)
    <3>1. CASE rid \in DOMAIN w
      BY <1>2, <1>3, <3>1 DEF TxOK
    <3>2. CASE rid \notin DOMAIN w
      BY <1>4, <1>5, <3>2
    <3>3. QED
      BY <3>1, <3>2
  <2>2. ASSUME NEW save \in saved' PROVE save \in saved \/ Loose(c, save[1])
    BY <1>2, <1>3 DEF TxOK
  <2>3. QED
    BY <1>4, <1>6, <2>1, <2>2 DEF RecordsMove
<1>8. CallOK(d, c)'
  <2>1. DOMAIN <<>> = {}
    OBVIOUS
  <2>2. TxOK(d.tx, c)'
    BY <1>1, <2>1, NothingYet DEF TxOK, SameTx
  <2>3. ObjectOK(o, records')
    BY <1>2 DEF CallOK, View
  <2>4. ObjectOK(d.object, Overlay(<<>>, records'))
    BY <1>1, <2>1, <2>3 DEF ObjectOK, Overlay
  <2>5. QED
    BY <1>1, <2>2, <2>4, NothingYet DEF CallOK
<1>9. QED
  BY <1>1, <1>2, <1>7, <1>8, NothingYet, StepHolds

\* A row put in a transaction's writes is put in what the caller finds, as one put among the committed rows is.
LEMMA PutInView ==
  ASSUME NEW w, NEW f, NEW rid, NEW row
  PROVE  /\ Overlay(Put(w, rid, row), f) = Put(Overlay(w, f), rid, row)
         /\ DOMAIN w = {} => Overlay(w, Put(f, rid, row)) = Put(Overlay(w, f), rid, row)
BY DEF Overlay, Put

\* What was saved or written is in what the caller finds.
LEMMA SavedInView ==
  ASSUME WritesInv, NEW c \in Callers
  PROVE  /\ \A save \in saved : save[1] \in DOMAIN View(c) /\ save[2] \in View(c)[save[1]].edits
         /\ \A edit \in calls[c].tx.edits : edit[1] \in DOMAIN View(c) /\ edit[2] \in View(c)[edit[1]].edits
<1>1. TxOK(calls[c].tx, c) /\ RecordsOK
  BY DEF WritesInv, CallOK
<1>2. ASSUME NEW save \in saved PROVE save[1] \in DOMAIN View(c) /\ save[2] \in View(c)[save[1]].edits
  <2>1. CASE save[1] \in DOMAIN calls[c].tx.writes
    BY <1>1, <2>1, ViewIs DEF TxOK
  <2>2. CASE save[1] \notin DOMAIN calls[c].tx.writes
    BY <1>1, <2>2, ViewIs DEF RecordsOK
  <2>3. QED
    BY <2>1, <2>2
<1>3. QED
  BY <1>1, <1>2, ViewIs DEF TxOK

\* A write in a transaction.
LEMMA WritesInTx ==
  ASSUME WritesInv, NEW c \in Callers, NEW rid, NEW row, NEW object, NEW edits, Good(c, rid, row, object, edits),
         Writes(c, rid, row, object, edits), InTx(c)
  PROVE  WritesInv'
<1> DEFINE w == calls[c].tx.writes
           v == Put(w, rid, row)
<1>1. PICK d : /\ Moves(c, d) /\ d.tx.open = calls[c].tx.open /\ d.at = "idle" /\ d.object = object
               /\ d.tx.writes = v /\ d.tx.held = calls[c].tx.held \cup {rid} /\ d.tx.edits = calls[c].tx.edits \cup edits
               /\ UNCHANGED <<records, saved>>
  BY WritesEffect DEF WritesInv, Good, SameQueues
<1>2. CallOK(calls[c], c) /\ TxOK(calls[c].tx, c) /\ RecordsOK /\ RecordsMove(c) /\ who' = who /\ Loose(c, rid) /\ calls[c].tx.open
  BY <1>1, RecordsRest DEF WritesInv, CallOK, Writes, Free, Loose, InTx
<1>3. DOMAIN v = {rid} \cup DOMAIN w /\ v[rid] = row /\ \A r \in DOMAIN w : r # rid => v[r] = w[r]
  BY DEF Put
<1> HIDE DEF v
<1>4. rid \in DOMAIN records =>
        /\ row.version > records[rid].version
        /\ Restricted(c) => records[rid].owner = who[c] /\ row.owner = who[c]
  <2>1. SUFFICES ASSUME rid \in DOMAIN records
                 PROVE  /\ row.version > records[rid].version
                        /\ Restricted(c) => records[rid].owner = who[c] /\ row.owner = who[c]
    OBVIOUS
  <2>2. /\ rid \in DOMAIN View(c) /\ row.version > View(c)[rid].version
        /\ Restricted(c) => View(c)[rid].owner = who[c] /\ row.owner = who[c]
    BY <2>1, ViewIs DEF Good
  <2>3. row.version \in Nat /\ View(c)[rid].version \in Nat /\ records[rid].version \in Nat
    BY <1>2, <2>1, <2>2, ViewRows DEF Good, IsRow, RecordsOK
  <2>4. CASE rid \in DOMAIN w
    <3>1. View(c)[rid] = w[rid]
      BY <2>4, ViewIs
    <3>2. w[rid].version > records[rid].version /\ (Restricted(c) => records[rid].owner = who[c])
      BY <1>2, <2>1, <2>4 DEF TxOK
    <3>3. QED
      BY <2>2, <2>3, <3>1, <3>2
  <2>5. CASE rid \notin DOMAIN w
    <3>1. View(c)[rid] = records[rid]
      BY <2>1, <2>5, ViewIs
    <3>2. QED
      BY <2>2, <3>1
  <2>6. QED
    BY <2>4, <2>5
<1>5. TxOK(d.tx, c)'
  <2>1. DOMAIN v \subseteq d.tx.held
    BY <1>1, <1>2, <1>3 DEF TxOK
  <2>2. ASSUME NEW r \in DOMAIN v
        PROVE  /\ IsRow(v[r])
               /\ r \in DOMAIN records => /\ v[r].version > records[r].version
                                          /\ Restricted(c) => records[r].owner = who[c] /\ v[r].owner = who[c]
    <3>1. CASE r = rid
      BY <1>3, <1>4, <3>1 DEF Good
    <3>2. CASE r # rid
      BY <1>2, <1>3, <3>2 DEF TxOK
    <3>3. QED
      BY <3>1, <3>2
  <2>3. ASSUME NEW save \in saved, save[1] \in DOMAIN v PROVE save[2] \in v[save[1]].edits
    <3>1. CASE save[1] = rid
      BY <1>3, <3>1, SavedInView DEF Good
    <3>2. CASE save[1] # rid
      BY <1>2, <1>3, <2>3, <3>2 DEF TxOK
    <3>3. QED
      BY <3>1, <3>2
  <2>4. ASSUME NEW edit \in d.tx.edits PROVE edit[1] \in DOMAIN v /\ edit[2] \in v[edit[1]].edits
    <3>1. CASE edit \in edits
      BY <1>3, <3>1 DEF Good
    <3>2. CASE edit \in calls[c].tx.edits /\ edit[1] = rid
      BY <1>3, <3>2, SavedInView DEF Good
    <3>3. CASE edit \in calls[c].tx.edits /\ edit[1] # rid
      BY <1>2, <1>3, <3>3 DEF TxOK
    <3>4. QED
      BY <1>1, <3>1, <3>2, <3>3
  <2>5. QED
    BY <1>1, <1>2, <2>1, <2>2, <2>3, <2>4 DEF TxOK, Restricted
<1>6. ObjectOK(object, Overlay(v, records))
  BY PutInView DEF Good, View, v
<1>7. object.held => calls[c].tx.open /\ object.rid \in calls[c].tx.held
  BY <1>2 DEF CallOK, Good
<1>8. CallOK(d, c)'
  BY <1>1, <1>2, <1>5, <1>6, <1>7 DEF CallOK
<1>9. \A r \in d.tx.held : r \in calls[c].tx.held \/ Loose(c, r)
  BY <1>1, <1>2
<1>10. QED
  BY <1>1, <1>2, <1>8, <1>9, StepHolds

\* A write on its own.
LEMMA WritesAlone ==
  ASSUME WritesInv, NEW c \in Callers, NEW rid, NEW row, NEW object, NEW edits, Good(c, rid, row, object, edits),
         Writes(c, rid, row, object, edits), ~ InTx(c)
  PROVE  WritesInv'
<1> DEFINE w == calls[c].tx.writes
           v == Put(records, rid, row)
<1>1. PICK d : /\ Moves(c, d) /\ d.tx = calls[c].tx /\ d.at = "idle" /\ d.object = object
               /\ records' = v /\ saved' = saved \cup edits
  BY WritesEffect DEF WritesInv, Good
<1>2. CallOK(calls[c], c) /\ TxOK(calls[c].tx, c) /\ RecordsOK /\ who' = who /\ Loose(c, rid) /\ ~ calls[c].tx.open
  BY DEF WritesInv, CallOK, Writes, Free, Loose, InTx
<1>3. w = <<>> /\ DOMAIN w = {} /\ calls[c].tx.edits = {}
  BY <1>2, NothingYet DEF TxOK, SameTx
<1>4. DOMAIN v = {rid} \cup DOMAIN records /\ v[rid] = row /\ \A r \in DOMAIN records : r # rid => v[r] = records[r]
  BY DEF Put
<1>5. ObjectOK(object, Overlay(w, v))
  BY <1>3, PutInView DEF Good, View
<1> HIDE DEF v
<1>6. RecordsOK'
  <2>1. ASSUME NEW r \in DOMAIN v PROVE IsRow(v[r])
    BY <1>2, <1>4 DEF RecordsOK, Good
  <2>2. ASSUME NEW save \in saved' PROVE save[1] \in DOMAIN v /\ save[2] \in v[save[1]].edits
    <3>1. CASE save \in edits
      BY <1>4, <3>1 DEF Good
    <3>2. CASE save \in saved /\ save[1] = rid
      BY <1>4, <3>2, SavedInView DEF Good
    <3>3. CASE save \in saved /\ save[1] # rid
      BY <1>2, <1>4, <3>3 DEF RecordsOK
    <3>4. QED
      BY <1>1, <3>1, <3>2, <3>3
  <2>3. QED
    BY <1>1, <2>1, <2>2 DEF RecordsOK
<1>7. RecordsMove(c)
  <2>1. rid \in DOMAIN records => row.version > records[rid].version
    BY <1>3, ViewIs DEF Good
  <2>2. ASSUME NEW r \in DOMAIN records'
        PROVE  \/ r \in DOMAIN records /\ records'[r] = records[r]
               \/ Loose(c, r) /\ (r \in DOMAIN records => records'[r].version > records[r].version)
    BY <1>1, <1>2, <1>4, <2>1
  <2>3. ASSUME NEW save \in saved' PROVE save \in saved \/ Loose(c, save[1])
    BY <1>1, <1>2 DEF Good
  <2>4. QED
    BY <1>1, <1>4, <1>6, <2>2, <2>3 DEF RecordsMove
<1>8. TxOK(d.tx, c)'
  BY <1>1, <1>2, <1>3 DEF TxOK
<1>9. ~ object.held
  BY <1>2 DEF CallOK, Good
<1>10. CallOK(d, c)'
  BY <1>1, <1>5, <1>8, <1>9 DEF CallOK
<1>11. QED
  BY <1>1, <1>2, <1>7, <1>10, StepHolds

\* An upsert's write, on a row no transaction has.
LEMMA UpsertStep ==
  ASSUME WritesInv, NEW c \in Callers, UpsertWrites(c)
  PROVE  WritesInv'
<1> DEFINE rid == calls[c].rid
           row == [records[rid] EXCEPT !.version = records[rid].version + 1]
           w == calls[c].tx.writes
<1>1. PICK d : /\ Moves(c, d) /\ SameTx(d.tx, calls[c].tx) /\ d.at = "idle" /\ d.object = calls[c].object
  BY LooksEffect DEF WritesInv, UpsertWrites
<1>2. /\ CallOK(calls[c], c) /\ TxOK(calls[c].tx, c) /\ RecordsOK /\ who' = who /\ saved' = saved /\ Loose(c, rid)
      /\ ~ calls[c].tx.open /\ rid \in DOMAIN records /\ records' = [records EXCEPT ![rid] = row]
  BY DEF WritesInv, CallOK, UpsertWrites, Free, Loose
<1>3. w = <<>> /\ DOMAIN w = {} /\ calls[c].tx.edits = {}
  BY <1>2, NothingYet DEF TxOK, SameTx
<1>4. IsRow(row) /\ row.version > records[rid].version /\ row.edits = records[rid].edits
  <2>1. IsRow(records[rid])
    BY <1>2 DEF RecordsOK
  <2>2. QED
    BY <2>1 DEF IsRow, RowFields
<1> HIDE DEF row
<1>5. DOMAIN records' = DOMAIN records /\ records'[rid] = row /\ \A r \in DOMAIN records : r # rid => records'[r] = records[r]
  BY <1>2
<1> HIDE DEF rid
<1>6. RecordsOK'
  BY <1>2, <1>4, <1>5 DEF RecordsOK
<1>7. RecordsMove(c)
  BY <1>2, <1>4, <1>5, <1>6 DEF RecordsMove
<1>8. ~ calls[c].object.held /\ ObjectOK(calls[c].object, Overlay(w, records))
  BY <1>2 DEF CallOK
<1>9. ObjectOK(calls[c].object, Overlay(w, records'))
  <2> DEFINE o == calls[c].object
             f == Overlay(w, records)
             g == Overlay(w, records')
  <2>1. ASSUME o.rid \in DOMAIN f
        PROVE  /\ o.rid \in DOMAIN g /\ f[o.rid].version \in Nat /\ g[o.rid].version \in Nat
               /\ \/ g[o.rid] = f[o.rid]
                  \/ g[o.rid].version > f[o.rid].version /\ (o.held => g[o.rid].edits = f[o.rid].edits)
    <3>1. o.rid \in DOMAIN records /\ f[o.rid] = records[o.rid] /\ o.rid \in DOMAIN g /\ g[o.rid] = records'[o.rid]
      BY <1>3, <1>5, <2>1 DEF Overlay
    <3>2. records[o.rid].version \in Nat /\ records'[o.rid].version \in Nat
      BY <1>2, <1>5, <1>6, <3>1 DEF RecordsOK, IsRow
    <3> HIDE DEF f, g, o
    <3>3. QED
      BY <1>4, <1>5, <1>8, <3>1, <3>2 DEF o
  <2> HIDE DEF f, g, o
  <2>2. ObjectOK(o, f)
    BY <1>8 DEF o, f
  <2>3. ObjectOK(o, g)
    BY <2>1, <2>2, ObjectStays
  <2>4. QED
    BY <2>3 DEF o, g
<1>10. TxOK(d.tx, c)'
  BY <1>1, <1>2, <1>3 DEF TxOK, SameTx
<1>11. CallOK(d, c)'
  BY <1>1, <1>8, <1>9, <1>10 DEF CallOK, SameTx
<1>12. \A r \in d.tx.held : r \in calls[c].tx.held
  BY <1>1 DEF SameTx
<1>13. QED
  BY <1>1, <1>2, <1>7, <1>11, <1>12, StepHolds

-----------------------------------------------------------------------------
(* Every operation is a read, an answer, a good write or a step of a       *)
(* transaction.                                                            *)

Replies(c) ==
  \E at, rid, lock, answer :
    /\ Answers(c, at, rid, lock, answer) /\ answer \notin {"found", "conflict"}
    /\ at = "upsert" => ~ InTx(c) /\ rid \in DOMAIN records /\ who[c] = "system"
WritesWell(c) == \E rid, row, object, edits : Good(c, rid, row, object, edits) /\ Writes(c, rid, row, object, edits)

\* An answer that reveals no row.
LEMMA AnswersReply ==
  ASSUME NEW c, NEW at, NEW rid, NEW lock, NEW answer, Answers(c, at, rid, lock, answer), answer \notin {"found", "conflict"},
         at = "upsert" => ~ InTx(c) /\ rid \in DOMAIN records /\ who[c] = "system"
  PROVE  Replies(c)
BY DEF Replies

\* A later version of a row.
LEMMA NextEdits ==
  ASSUME NEW r, IsRow(r), NEW es
  PROVE  LET n == [r EXCEPT !.version = @ + 1, !.edits = es]
         IN  IsRow(n) /\ n.version = r.version + 1 /\ n.edits = es /\ n.owner = r.owner
<1> DEFINE n == [r EXCEPT !.version = @ + 1, !.edits = es]
<1>1. r = [f \in RowFields |-> r[f]] /\ r.version \in Nat \ {0}
  BY DEF IsRow
<1>2. n = [f \in RowFields |-> n[f]] /\ n.version = r.version + 1 /\ n.edits = es /\ n.owner = r.owner
  BY <1>1 DEF RowFields
<1>3. r.version + 1 \in Nat \ {0}
  BY <1>1
<1> HIDE DEF n
<1>4. IsRow(n) /\ n.version = r.version + 1 /\ n.edits = es /\ n.owner = r.owner
  BY <1>2, <1>3 DEF IsRow
<1>5. QED
  BY <1>4 DEF n

\* So is a row deleted or restored.
LEMMA NextDeleted ==
  ASSUME NEW r, IsRow(r), NEW b, NEW n, n = [r EXCEPT !.version = @ + 1, !.deleted = b]
  PROVE  IsRow(n) /\ n.version = r.version + 1 /\ n.edits = r.edits /\ n.owner = r.owner
<1>1. r = [f \in RowFields |-> r[f]] /\ r.version \in Nat \ {0}
  BY DEF IsRow
<1>2. n = [f \in RowFields |-> n[f]] /\ n.version = r.version + 1 /\ n.edits = r.edits /\ n.owner = r.owner
  BY <1>1 DEF RowFields
<1>3. r.version + 1 \in Nat \ {0}
  BY <1>1
<1>4. QED
  BY <1>2, <1>3 DEF IsRow

\* The caller's object is of what the caller finds.
LEMMA ObjectInView ==
  ASSUME WritesInv, NEW c \in Callers
  PROVE  IsObject(calls[c].object) /\ ObjectOK(calls[c].object, View(c))
BY DEF WritesInv, CallOK, CallsShape, IsCall, View

\* A row put by a write that leaves its edits is good, whatever the caller's object.
LEMMA PlainGood ==
  ASSUME WritesInv, NEW c \in Callers, NEW rid \in DOMAIN View(c), ownerScope(c, View(c)[rid]), NEW row, IsRow(row),
         row.version = View(c)[rid].version + 1, row.edits = View(c)[rid].edits, row.owner = View(c)[rid].owner
  PROVE  Good(c, rid, row, calls[c].object, {})
<1> DEFINE o == calls[c].object
           f == View(c)
           g == Put(f, rid, row)
<1>1. IsObject(o) /\ ObjectOK(o, f)
  BY ObjectInView
<1>2. DOMAIN g = {rid} \cup DOMAIN f /\ g[rid] = row /\ \A r \in DOMAIN f : r # rid => g[r] = f[r]
  BY DEF Put
<1>3. row.version > View(c)[rid].version /\ row.version \in Nat /\ \A r \in DOMAIN f : f[r].version \in Nat
  BY ViewRows
<1>4. Restricted(c) => View(c)[rid].owner = who[c]
  BY DEF Restricted, ownerScope
<1> HIDE DEF o, f, g
<1>5. o.rid \in DOMAIN f => /\ o.rid \in DOMAIN g /\ f[o.rid].version \in Nat /\ g[o.rid].version \in Nat
                            /\ \/ g[o.rid] = f[o.rid]
                               \/ g[o.rid].version > f[o.rid].version /\ (o.held => g[o.rid].edits = f[o.rid].edits)
  BY <1>2, <1>3 DEF f
<1>6. ObjectOK(o, g)
  BY <1>1, <1>5, ObjectStays
<1>7. QED
  BY <1>1, <1>3, <1>4, <1>6 DEF Good, o, f, g

\* A caller writes back the edits of an object that has them all, and its own.
LEMMA EditGood ==
  ASSUME WritesInv, NEW c \in Callers, NEW rid \in DOMAIN View(c), ownerScope(c, View(c)[rid]), NEW row, IsRow(row), NEW edits, NEW lock,
         row.version = View(c)[rid].version + 1, row.edits = edits, row.owner = View(c)[rid].owner,
         rid = calls[c].object.rid, edits = calls[c].object.edits \cup {ops},
         \/ rid # 0 /\ lock = calls[c].object.version /\ lock > 0 /\ View(c)[rid].version = lock
         \/ calls[c].object.held /\ lock = 0
  PROVE  Good(c, rid, row, [calls[c].object EXCEPT !.edits = edits, !.version = IF lock > 0 THEN lock + 1 ELSE @],
              {<<rid, edit>> : edit \in edits})
<1> DEFINE o == calls[c].object
           p == [o EXCEPT !.edits = edits, !.version = IF lock > 0 THEN lock + 1 ELSE @]
           f == View(c)
           g == Put(f, rid, row)
<1>1. IsObject(o) /\ ObjectOK(o, f)
  BY ObjectInView
<1>2. DOMAIN g = {rid} \cup DOMAIN f /\ g[rid] = row /\ \A r \in DOMAIN f : r # rid => g[r] = f[r]
  BY DEF Put
<1>3. f[rid].version \in Nat \ {0} /\ row.version > f[rid].version /\ row.version \in Nat
  BY ViewRows
<1>4. Restricted(c) => View(c)[rid].owner = who[c]
  BY DEF Restricted, ownerScope
<1>5. /\ IsObject(p) /\ p.rid = rid /\ p.held = o.held /\ p.edits = edits
      /\ lock > 0 => p.version = lock + 1
      /\ ~ (lock > 0) => p.version = o.version
  BY <1>1 DEF IsObject, ObjectFields
<1> HIDE DEF o, p, f, g
<1>6. f[rid].edits \subseteq edits
  <2>1. CASE rid # 0 /\ lock = calls[c].object.version /\ lock > 0 /\ View(c)[rid].version = lock
    BY <1>1, <2>1 DEF ObjectOK, f, o
  <2>2. CASE calls[c].object.held /\ lock = 0
    BY <1>1, <2>2 DEF ObjectOK, f, o
  <2>3. QED
    BY <2>1, <2>2
<1>7. ObjectOK(p, g)
  <2>1. CASE rid # 0 /\ lock = calls[c].object.version /\ lock > 0 /\ View(c)[rid].version = lock
    <3>1. p.version = row.version
      BY <1>3, <1>5, <2>1 DEF f
    <3>2. row.version \in Nat \ {0} /\ row.version <= row.version
      BY <1>3
    <3>3. QED
      BY <1>2, <1>5, <3>1, <3>2 DEF ObjectOK
  <2>2. CASE calls[c].object.held /\ lock = 0
    <3>1. p.version = o.version
      BY <1>5, <2>2
    <3>2. rid # 0 => o.version \in Nat \ {0} /\ o.version <= f[rid].version
      BY <1>1 DEF ObjectOK, o
    <3>3. rid # 0 => o.version \in Nat \ {0} /\ o.version < row.version
      BY <1>3, <3>2
    <3>4. rid # 0 => p.version \in Nat \ {0} /\ p.version <= row.version /\ p.version # row.version
      BY <1>3, <3>1, <3>3
    <3>5. QED
      BY <1>2, <1>5, <3>4 DEF ObjectOK
  <2>3. QED
    BY <2>1, <2>2
<1>8. \A e \in {<<rid, edit>> : edit \in edits} : e[1] = rid /\ e[2] \in row.edits
  OBVIOUS
<1>9. Good(c, rid, row, p, {<<rid, edit>> : edit \in edits})
  BY <1>3, <1>4, <1>5, <1>6, <1>7, <1>8 DEF Good, f, g, o
<1>10. QED
  BY <1>9 DEF p, o

\* An update that leaves the edits.
LEMMA PlainUpdate ==
  ASSUME WritesInv, NEW c \in Callers, NEW rid, Update(c, rid, 0, {})
  PROVE  Replies(c) \/ WritesWell(c)
<1> DEFINE v == View(c)[rid]
           row == [v EXCEPT !.version = @ + 1, !.edits = IF {} = {} THEN @ ELSE {}]
<1>1. CASE ~ HasPrincipal(c)
  <2>1. Answers(c, "idle", rid, 0, "no_principal")
    BY <1>1 DEF Update
  <2>2. QED
    BY <2>1, AnswersReply
<1>2. CASE HasPrincipal(c) /\ ~ (Meets(c, rid, FALSE) /\ Unmoved(c, rid, 0))
  <2>1. Answers(c, IF 0 > 0 THEN "missed" ELSE "idle", rid, 0, "not_found")
    BY <1>2 DEF Update
  <2>2. (IF 0 > 0 THEN "missed" ELSE "idle") # "upsert"
    OBVIOUS
  <2>3. QED
    BY <2>1, <2>2, AnswersReply
<1>3. CASE HasPrincipal(c) /\ Meets(c, rid, FALSE) /\ Unmoved(c, rid, 0)
  <2>1. rid \in DOMAIN View(c) /\ ownerScope(c, v)
    BY <1>3 DEF Meets
  <2>2. Writes(c, rid, row, calls[c].object, {<<rid, edit>> : edit \in {}})
    BY <1>3 DEF Update
  <2>3. {<<rid, edit>> : edit \in {}} = {}
    OBVIOUS
  <2>4. row = [v EXCEPT !.version = @ + 1, !.edits = v.edits]
    OBVIOUS
  <2>5. IsRow(v)
    BY <2>1, ViewRows
  <2>6. IsRow(row) /\ row.version = v.version + 1 /\ row.edits = v.edits /\ row.owner = v.owner
    <3> DEFINE n == [v EXCEPT !.version = @ + 1, !.edits = v.edits]
    <3> HIDE DEF v
    <3>1. IsRow(n) /\ n.version = v.version + 1 /\ n.edits = v.edits /\ n.owner = v.owner
      BY <2>5, NextEdits, Zenon
    <3> HIDE DEF n, row
    <3>2. row = n
      BY <2>4 DEF n
    <3>3. QED
      BY <3>1, <3>2
  <2> HIDE DEF row
  <2>7. Good(c, rid, row, calls[c].object, {})
    BY <2>1, <2>6, PlainGood
  <2>8. QED
    BY <2>2, <2>3, <2>7 DEF WritesWell
<1>4. QED
  BY <1>1, <1>2, <1>3

\* An update with the edits of an object the caller read.
LEMMA EditUpdate ==
  ASSUME WritesInv, NEW c \in Callers, NEW rid, NEW lock, NEW edits, Update(c, rid, lock, edits),
         rid = calls[c].object.rid, edits = calls[c].object.edits \cup {ops},
         \/ rid # 0 /\ lock = calls[c].object.version
         \/ calls[c].object.held /\ lock = 0
  PROVE  Replies(c) \/ WritesWell(c)
<1> DEFINE v == View(c)[rid]
           row == [v EXCEPT !.version = @ + 1, !.edits = edits]
           p == [calls[c].object EXCEPT !.edits = edits, !.version = IF lock > 0 THEN lock + 1 ELSE @]
           e == {<<rid, edit>> : edit \in edits}
<1>1. CASE ~ HasPrincipal(c)
  <2>1. Answers(c, "idle", rid, lock, "no_principal")
    BY <1>1 DEF Update
  <2>2. QED
    BY <2>1, AnswersReply
<1>2. CASE HasPrincipal(c) /\ ~ (Meets(c, rid, FALSE) /\ Unmoved(c, rid, lock))
  <2>1. Answers(c, IF lock > 0 THEN "missed" ELSE "idle", rid, lock, "not_found")
    BY <1>2 DEF Update
  <2>2. (IF lock > 0 THEN "missed" ELSE "idle") # "upsert"
    OBVIOUS
  <2>3. QED
    BY <2>1, <2>2, AnswersReply
<1>3. CASE HasPrincipal(c) /\ Meets(c, rid, FALSE) /\ Unmoved(c, rid, lock)
  <2>1. rid \in DOMAIN View(c) /\ ownerScope(c, v)
    BY <1>3 DEF Meets
  <2>2. edits # {}
    OBVIOUS
  <2>3. Writes(c, rid, row, p, e)
    BY <1>3, <2>2 DEF Update
  <2>4. IsRow(v)
    BY <2>1, ViewRows
  <2>5. IsRow(row) /\ row.version = v.version + 1 /\ row.edits = edits /\ row.owner = v.owner
    <3>1. v = [f \in RowFields |-> v[f]] /\ v.version \in Nat \ {0}
      BY <2>4 DEF IsRow
    <3> HIDE DEF v
    <3>2. row = [f \in RowFields |-> row[f]] /\ row.version = v.version + 1 /\ row.edits = edits /\ row.owner = v.owner
      BY <3>1 DEF RowFields
    <3>3. v.version + 1 \in Nat \ {0}
      BY <3>1
    <3> HIDE DEF row
    <3>4. QED
      BY <3>2, <3>3 DEF IsRow
  <2>6. \/ rid # 0 /\ lock = calls[c].object.version /\ lock > 0 /\ v.version = lock
        \/ calls[c].object.held /\ lock = 0
    <3>1. ASSUME rid # 0 /\ lock = calls[c].object.version PROVE lock > 0 /\ v.version = lock
      <4>1. lock \in Nat \ {0}
        BY <3>1, ObjectInView DEF ObjectOK
      <4>2. QED
        BY <1>3, <4>1 DEF Unmoved
    <3>2. QED
      BY <3>1
  <2> HIDE DEF row
  <2>7. Good(c, rid, row, p, e)
    BY <2>1, <2>5, <2>6, EditGood
  <2>8. QED
    BY <2>3, <2>7 DEF WritesWell
<1>4. QED
  BY <1>1, <1>2, <1>3

\* A delete.
LEMMA DeleteKind ==
  ASSUME WritesInv, NEW c \in Callers, NEW rid, NEW lock, Delete(c, rid, lock)
  PROVE  Replies(c) \/ WritesWell(c)
<1> DEFINE v == View(c)[rid]
           row == [v EXCEPT !.version = @ + 1, !.deleted = TRUE]
<1>1. CASE ~ HasPrincipal(c)
  <2>1. Answers(c, "idle", rid, lock, "no_principal")
    BY <1>1 DEF Delete
  <2>2. QED
    BY <2>1, AnswersReply
<1>2. CASE HasPrincipal(c) /\ ~ (Meets(c, rid, FALSE) /\ Unmoved(c, rid, lock))
  <2>1. Answers(c, IF lock > 0 THEN "missed" ELSE "idle", rid, lock, "ok")
    BY <1>2 DEF Delete
  <2>2. (IF lock > 0 THEN "missed" ELSE "idle") # "upsert"
    OBVIOUS
  <2>3. QED
    BY <2>1, <2>2, AnswersReply
<1>3. CASE HasPrincipal(c) /\ Meets(c, rid, FALSE) /\ Unmoved(c, rid, lock)
  <2>1. rid \in DOMAIN View(c) /\ ownerScope(c, v)
    BY <1>3 DEF Meets
  <2>2. Writes(c, rid, row, calls[c].object, {})
    BY <1>3 DEF Delete
  <2>3. IsRow(v)
    BY <2>1, ViewRows
  <2>4. IsRow(row) /\ row.version = v.version + 1 /\ row.edits = v.edits /\ row.owner = v.owner
    <3> HIDE DEF v
    <3>1. QED
      BY <2>3, NextDeleted
  <2> HIDE DEF row
  <2>5. Good(c, rid, row, calls[c].object, {})
    BY <2>1, <2>4, PlainGood
  <2>6. QED
    BY <2>2, <2>5 DEF WritesWell
<1>4. QED
  BY <1>1, <1>2, <1>3

\* A restore that meets a deleted row and no clash writes it back.
LEMMA RestoreKind ==
  ASSUME WritesInv, NEW c \in Callers, NEW rid, Restore(c, rid)
  PROVE  Replies(c) \/ WritesWell(c)
<1> DEFINE v == View(c)[rid]
           row == [v EXCEPT !.version = @ + 1, !.deleted = FALSE]
<1>1. CASE ~ HasPrincipal(c)
  <2>1. Answers(c, "idle", rid, 0, "no_principal")
    BY <1>1 DEF Restore
  <2>2. QED
    BY <2>1, AnswersReply
<1>2. CASE HasPrincipal(c) /\ ~ Meets(c, rid, TRUE)
  <2>1. Answers(c, "restore", rid, 0, "none")
    BY <1>2 DEF Restore
  <2>2. QED
    BY <2>1, AnswersReply
<1>3. CASE HasPrincipal(c) /\ Meets(c, rid, TRUE) /\ Clashes(c, rid, v.slug)
  <2>1. Answers(c, "idle", rid, 0, "duplicate")
    BY <1>3 DEF Restore
  <2>2. QED
    BY <2>1, AnswersReply
<1>4. CASE HasPrincipal(c) /\ Meets(c, rid, TRUE) /\ ~ Clashes(c, rid, v.slug)
  <2>1. rid \in DOMAIN View(c) /\ ownerScope(c, v)
    BY <1>4 DEF Meets
  <2>2. Writes(c, rid, row, calls[c].object, {})
    BY <1>4 DEF Restore
  <2>3. IsRow(v)
    BY <2>1, ViewRows
  <2>4. IsRow(row) /\ row.version = v.version + 1 /\ row.edits = v.edits /\ row.owner = v.owner
    <3> HIDE DEF v
    <3>1. QED
      BY <2>3, NextDeleted
  <2> HIDE DEF row
  <2>5. Good(c, rid, row, calls[c].object, {})
    BY <2>1, <2>4, PlainGood
  <2>6. QED
    BY <2>2, <2>5 DEF WritesWell
<1>5. QED
  BY <1>1, <1>2, <1>3, <1>4

\* A new row is at a place where there is none.
LEMMA CreateKind ==
  ASSUME WritesInv, NEW c \in Callers, NEW rid, NEW slug, NEW given, Create(c, rid, slug, given)
  PROVE  Replies(c) \/ WritesWell(c)
<1> DEFINE owner == fillOwner(c, given)
           row == NewRow(owner, slug)
<1> HIDE DEF owner
<1>1. rid \notin DOMAIN View(c)
  BY DEF Create
<1>2. \/ Answers(c, "idle", rid, 0, "no_principal")
      \/ Answers(c, "idle", rid, 0, "duplicate")
      \/ Writes(c, rid, row, calls[c].object, {})
  BY DEF Create, owner
<1>3. IsRow(row)
  <2>1. row = [f \in RowFields |-> row[f]] /\ row.version = 1
    BY DEF NewRow, RowFields
  <2>2. QED
    BY <2>1 DEF IsRow
<1> HIDE DEF row
<1>4. Good(c, rid, row, calls[c].object, {})
  <2> DEFINE o == calls[c].object
             f == View(c)
             g == Put(f, rid, row)
  <2>1. IsObject(o) /\ ObjectOK(o, f)
    BY ObjectInView
  <2>2. o.rid \in DOMAIN f => o.rid \in DOMAIN g /\ g[o.rid] = f[o.rid] /\ f[o.rid].version \in Nat
    BY <1>1, ViewRows DEF Put
  <2> HIDE DEF g
  <2>3. ObjectOK(o, g)
    BY <2>1, <2>2 DEF ObjectOK
  <2>4. QED
    BY <1>1, <1>3, <2>1, <2>3 DEF Good, g
<1>5. QED
  BY <1>2, <1>4, AnswersReply DEF WritesWell

\* An upsert that meets no deleted row goes on to write.
LEMMA UpsertKind ==
  ASSUME NEW c \in Callers, NEW rid, Upsert(c, rid)
  PROVE  Replies(c)
BY DEF Upsert, Replies

Kinds(c) ==
  \/ Replies(c) \/ WritesWell(c) \/ \E rid, lock : lock \in BOOLEAN /\ get(c, rid, lock)
  \/ Missed(c) \/ RestoreMissed(c) \/ UpsertWrites(c)
  \/ RunInTx(c) \/ AfterCommit(c) \/ Commit(c) \/ Rollback(c) \/ flush(c)

\* An operation on a row.
OnRow(c, rid) ==
  \/ Get(c, rid) \/ GetForUpdate(c, rid) \/ UpdateOther(c, rid) \/ Restore(c, rid) \/ Upsert(c, rid)
  \/ \E slug \in {"s", "t"}, given \in {"", "ann"} : Create(c, rid, slug, given)
  \/ \E lock \in {0, calls[c].object.version} : Delete(c, rid, lock)

\* A step is of one of the kinds.
LEMMA EveryKind ==
  ASSUME WritesInv, StoreNext
  PROVE  \E c \in Callers : Kinds(c)
<1>1. PICK c \in Callers :
        \/ \E rid \in Rids : OnRow(c, rid)
        \/ UpdateOnto(c) \/ UpdateHeld(c) \/ Missed(c) \/ RestoreMissed(c) \/ UpsertWrites(c)
        \/ RunInTx(c) \/ AfterCommit(c) \/ Commit(c) \/ Rollback(c) \/ flush(c)
  BY DEF StoreNext, OnRow
<1>2. ASSUME NEW rid, Get(c, rid) PROVE Kinds(c)
  BY <1>2 DEF Get, Kinds
<1>3. ASSUME NEW rid, GetForUpdate(c, rid) PROVE Kinds(c)
  BY <1>3 DEF GetForUpdate, Kinds
<1>4. ASSUME NEW rid, UpdateOther(c, rid) PROVE Kinds(c)
  BY <1>4, PlainUpdate DEF UpdateOther, Kinds
<1>5. ASSUME NEW rid, Restore(c, rid) PROVE Kinds(c)
  BY <1>5, RestoreKind DEF Kinds
<1>6. ASSUME NEW rid, Upsert(c, rid) PROVE Kinds(c)
  BY <1>6, UpsertKind DEF Kinds
<1>7. ASSUME NEW rid, NEW slug, NEW given, Create(c, rid, slug, given) PROVE Kinds(c)
  BY <1>7, CreateKind DEF Kinds
<1>8. ASSUME NEW rid, NEW lock, Delete(c, rid, lock) PROVE Kinds(c)
  BY <1>8, DeleteKind DEF Kinds
<1>9. CASE UpdateOnto(c)
  BY <1>9, EditUpdate DEF UpdateOnto, Kinds
<1>10. CASE UpdateHeld(c)
  BY <1>10, EditUpdate DEF UpdateHeld, Kinds
<1>11. CASE \/ Missed(c) \/ RestoreMissed(c) \/ UpsertWrites(c)
            \/ RunInTx(c) \/ AfterCommit(c) \/ Commit(c) \/ Rollback(c) \/ flush(c)
  BY <1>11 DEF Kinds
<1>12. ASSUME NEW rid \in Rids, OnRow(c, rid) PROVE Kinds(c)
  <2>1. CASE \E slug \in {"s", "t"}, given \in {"", "ann"} : Create(c, rid, slug, given)
    BY <1>7, <2>1
  <2>2. CASE \E lock \in {0, calls[c].object.version} : Delete(c, rid, lock)
    BY <1>8, <2>2
  <2>3. QED
    BY <1>2, <1>3, <1>4, <1>5, <1>6, <1>12, <2>1, <2>2 DEF OnRow
<1>13. QED
  BY <1>1, <1>9, <1>10, <1>11, <1>12

\* The second look of a write.
LEMMA LookKinds ==
  ASSUME CallsShape, NEW c \in Callers, Missed(c) \/ RestoreMissed(c)
  PROVE  \E d : /\ Moves(c, d) /\ SameQueues(d, calls[c]) /\ SameTx(d.tx, calls[c].tx) /\ d.at = "idle" /\ d.object = calls[c].object
                /\ UNCHANGED <<who, records, saved, staged, called>>
<1>1. CASE Missed(c)
  BY <1>1, LooksEffect DEF Missed
<1>2. CASE RestoreMissed(c)
  BY <1>2, LooksEffect DEF RestoreMissed
<1>3. QED
  BY <1>1, <1>2

\* Every step keeps the invariant of writes.
LEMMA WritesNext == WritesInv /\ [StoreNext]_storeVars => WritesInv'
<1> SUFFICES ASSUME WritesInv, [StoreNext]_storeVars PROVE WritesInv'
  OBVIOUS
<1>1. CASE UNCHANGED storeVars
  BY <1>1 DEF WritesInv, CallsShape, RecordsOK, HeldApart, CallOK, TxOK, Restricted, storeVars
<1>2. CASE StoreNext
  <2>0. PICK c \in Callers : Kinds(c)
    BY <1>2, EveryKind
  <2>1. CASE Replies(c)
    <3>1. PICK at, rid, lock, answer :
            /\ Answers(c, at, rid, lock, answer)
            /\ at = "upsert" => ~ InTx(c) /\ rid \in DOMAIN records /\ who[c] = "system"
      BY <2>1 DEF Replies
    <3>2. PICK d : /\ Moves(c, d) /\ SameTx(d.tx, calls[c].tx) /\ d.at = at /\ d.rid = rid /\ d.object = calls[c].object
      BY <3>1, AnswersEffect DEF WritesInv
    <3>3. UNCHANGED <<who, records, saved>>
      BY <3>1 DEF Answers
    <3>4. d.at = "upsert" => ~ d.tx.open /\ d.rid \in DOMAIN records /\ who[c] = "system"
      BY <3>1, <3>2 DEF InTx, SameTx
    <3>5. QED
      BY <3>2, <3>3, <3>4, SameStep
  <2>2. CASE WritesWell(c)
    BY <2>2, WritesInTx, WritesAlone DEF WritesWell
  <2>3. ASSUME NEW rid, NEW lock, lock \in BOOLEAN, get(c, rid, lock) PROVE WritesInv'
    BY <2>3, getStep
  <2>4. CASE Missed(c) \/ RestoreMissed(c)
    BY <2>4, LookKinds, SameStep DEF WritesInv
  <2>5. CASE UpsertWrites(c)
    BY <2>5, UpsertStep
  <2>6. CASE RunInTx(c)
    <3>1. UNCHANGED <<who, records, saved>>
      BY <2>6 DEF RunInTx
    <3>2. QED
      BY <2>6, <3>1, RunInTxEffect, NothingStep DEF WritesInv
  <2>7. CASE AfterCommit(c)
    <3>1. UNCHANGED <<who, records, saved>>
      BY <2>7 DEF AfterCommit
    <3>2. QED
      BY <2>7, <3>1, AfterCommitEffect, SameStep DEF WritesInv
  <2>8. CASE Commit(c)
    BY <2>8, CommitHolds
  <2>9. CASE Rollback(c)
    <3>1. UNCHANGED <<who, records, saved>> /\ Moves(c, NoCall)
      BY <2>9, NothingYet DEF Rollback, Moves
    <3>2. QED
      BY <3>1, NothingYet, NothingStep
  <2>10. CASE flush(c)
    <3>1. UNCHANGED <<who, records, saved>>
      BY <2>10 DEF flush
    <3>2. PICK d : /\ Moves(c, d) /\ d.tx = calls[c].tx /\ d.at = calls[c].at /\ d.rid = calls[c].rid /\ d.object = calls[c].object
      BY <2>10, flushEffect DEF WritesInv
    <3>3. d.at = "upsert" => ~ d.tx.open /\ d.rid \in DOMAIN records /\ who[c] = "system"
      BY <3>2 DEF WritesInv, CallOK
    <3>4. QED
      BY <3>1, <3>2, <3>3, SameStep DEF SameTx
  <2>11. QED
    BY <2>0, <2>1, <2>2, <2>3, <2>4, <2>5, <2>6, <2>7, <2>8, <2>9, <2>10 DEF Kinds
<1>3. QED
  BY <1>1, <1>2

\* Every step keeps the invariant of callbacks.
LEMMA CallbacksNext == WritesInv /\ CallbacksInv /\ [StoreNext]_storeVars => CallbacksInv'
<1> SUFFICES ASSUME WritesInv, CallbacksInv, [StoreNext]_storeVars PROVE CallbacksInv'
  OBVIOUS
<1>1. CASE UNCHANGED storeVars
  BY <1>1 DEF CallbacksInv, CallsShape, CalledOK, CallbacksFollowCommit, PendingOK, FlushOK, storeVars
<1>2. CASE StoreNext
  <2>0. PICK c \in Callers : Kinds(c)
    BY <1>2, EveryKind
  <2>1. CASE Replies(c)
    <3>1. PICK at, rid, lock, answer : Answers(c, at, rid, lock, answer)
      BY <2>1 DEF Replies
    <3>2. UNCHANGED <<staged, called>> /\ CallsShape
      BY <3>1 DEF Answers, CallbacksInv
    <3>3. QED
      BY <3>1, <3>2, AnswersEffect, QuietStep
  <2>2. CASE WritesWell(c)
    <3>1. PICK rid, row, object, edits : IsObject(object) /\ Writes(c, rid, row, object, edits)
      BY <2>2 DEF WritesWell, Good
    <3>2. UNCHANGED <<staged, called>> /\ CallsShape
      BY <3>1 DEF Writes, CallbacksInv
    <3>3. QED
      BY <3>1, <3>2, WritesEffect, QuietStep
  <2>3. ASSUME NEW rid, NEW lock, lock \in BOOLEAN, get(c, rid, lock) PROVE CallbacksInv'
    <3>1. UNCHANGED <<staged, called>> /\ CallsShape
      BY <2>3 DEF get, CallbacksInv
    <3>2. PICK d : Got(d, c, rid, lock)
      BY <2>3, <3>1, getEffect
    <3>3. QED
      BY <3>1, <3>2, QuietStep DEF Got
  <2>4. CASE Missed(c) \/ RestoreMissed(c)
    BY <2>4, LookKinds, QuietStep DEF CallbacksInv
  <2>5. CASE UpsertWrites(c)
    <3>1. UNCHANGED <<staged, called>> /\ CallsShape
      BY <2>5 DEF UpsertWrites, CallbacksInv
    <3>2. QED
      BY <2>5, <3>1, LooksEffect, QuietStep DEF UpsertWrites
  <2>6. CASE RunInTx(c)
    <3>1. UNCHANGED <<staged, called>> /\ CallsShape
      BY <2>6 DEF RunInTx, CallbacksInv
    <3>2. PICK d : Moves(c, d) /\ d.tx.open = TRUE /\ d.tx.pending = <<>> /\ d.flush = <<>>
      BY <2>6, <3>1, RunInTxEffect
    <3>3. QED
      BY <3>1, <3>2, EmptyStep
  <2>7. CASE AfterCommit(c)
    BY <2>7, AfterCommitStep
  <2>8. CASE Commit(c)
    BY <2>8, CommitStep
  <2>9. CASE Rollback(c)
    <3>1. UNCHANGED <<staged, called>> /\ Moves(c, NoCall)
      BY <2>9, NothingYet DEF Rollback, Moves
    <3>2. QED
      BY <3>1, NothingYet, EmptyStep
  <2>10. CASE flush(c)
    BY <2>10, flushStep
  <2>11. QED
    BY <2>0, <2>1, <2>2, <2>3, <2>4, <2>5, <2>6, <2>7, <2>8, <2>9, <2>10 DEF Kinds
<1>3. QED
  BY <1>1, <1>2

\* At the start there is one row, and no caller is in a transaction.
LEMMA StoreInits == StoreInit => WritesInv /\ CallbacksInv
<1> SUFFICES ASSUME StoreInit PROVE WritesInv /\ CallbacksInv
  OBVIOUS
<1>1. CallsShape /\ \A c \in Callers : calls[c] = NoCall
  BY NothingYet DEF StoreInit, CallsShape
<1>2. IsRow(records[1]) /\ DOMAIN records = {1} /\ saved = {}
  <2>1. NewRow("ann", "s") = [f \in RowFields |-> NewRow("ann", "s")[f]] /\ NewRow("ann", "s").version = 1
    BY DEF NewRow, RowFields
  <2>2. IsRow(NewRow("ann", "s"))
    BY <2>1 DEF IsRow
  <2>3. QED
    BY <2>2 DEF StoreInit
<1>3. DOMAIN <<>> = {} /\ \A i \in 1..Len(<<>>) : FALSE
  OBVIOUS
<1>4. ASSUME NEW c \in Callers PROVE CallOK(calls[c], c)
  <2>1. TxOK(NoTx, c)
    BY <1>2, <1>3, NothingYet DEF TxOK, SameTx
  <2>2. QED
    BY <1>1, <2>1, NothingYet DEF CallOK, ObjectOK
<1>5. WritesInv
  BY <1>1, <1>2, <1>4, NothingYet DEF WritesInv, RecordsOK, HeldApart
<1>6. staged = <<>> /\ called = <<>> /\ <<>> \in Seq(Numbers)
  BY DEF StoreInit
<1>7. \A c \in Callers : Grow(<<>>, c) /\ Above(<<>>, c, <<>>) /\ Known(<<>>, <<>>)
  BY <1>3, <1>6 DEF Grow, Above, Known
<1>8. ASSUME NEW c \in Callers PROVE PendingOK(calls[c], c) /\ FlushOK(calls[c], c)
  BY <1>1, <1>3, <1>6, <1>7, NothingYet DEF PendingOK, FlushOK
<1>9. CalledOK
  BY <1>3, <1>6 DEF CalledOK, Known, CallbacksFollowCommit
<1>10. QED
  BY <1>1, <1>5, <1>6, <1>8, <1>9 DEF CallbacksInv

-----------------------------------------------------------------------------
(* The theorems.                                                           *)

\* What a step of a caller behind the fence may do.
FenceHolds(c) ==
  who[c] \in {"ann", "bob", "none"} /\ calls'[c] # calls[c] =>
    /\ calls'[c].answer # calls[c].answer /\ calls'[c].answer \in {"found", "conflict"} => Own(c, calls'[c].rid)
    /\ \A rid \in DOMAIN records : records'[rid] # records[rid] => records[rid].owner = who[c] /\ records'[rid].owner = who[c]

\* What the owner scope lets a restricted principal meet is its own.
LEMMA ScopeIsOwn ==
  ASSUME NEW c, NEW rid \in DOMAIN View(c), ownerScope(c, View(c)[rid]), who[c] \in {"ann", "bob", "none"}
  PROVE  Own(c, rid)
BY DEF ownerScope, Own

\* No step of a caller behind the fence passes it.
LEMMA FenceStep ==
  ASSUME WritesInv, NEW c \in Callers, Kinds(c), who[c] \in {"ann", "bob", "none"}
  PROVE  FenceHolds(c)
<1>0. CallsShape /\ Restricted(c) /\ TxOK(calls[c].tx, c)
  BY DEF WritesInv, CallOK, Restricted
<1>1. CASE Replies(c)
  <2>1. PICK at, rid, lock, answer : Answers(c, at, rid, lock, answer) /\ answer \notin {"found", "conflict"}
    BY <1>1 DEF Replies
  <2>2. PICK d : Moves(c, d) /\ d.answer = answer
    BY <1>0, <2>1, AnswersEffect
  <2>3. calls'[c] = d /\ records' = records
    BY <1>0, <2>1, <2>2, MovedCall DEF Answers
  <2>4. QED
    BY <2>1, <2>2, <2>3 DEF FenceHolds
<1>2. CASE WritesWell(c)
  <2>1. PICK rid, row, object, edits : Good(c, rid, row, object, edits) /\ Writes(c, rid, row, object, edits)
    BY <1>2 DEF WritesWell
  <2>2. PICK d : /\ Moves(c, d) /\ d.answer = "ok"
                 /\ InTx(c) => records' = records
                 /\ ~ InTx(c) => records' = Put(records, rid, row)
    BY <1>0, <2>1, WritesEffect DEF Good
  <2>3. calls'[c] = d
    BY <1>0, <2>2, MovedCall
  <2>4. ASSUME NEW r \in DOMAIN records, records'[r] # records[r] PROVE records[r].owner = who[c] /\ records'[r].owner = who[c]
    <3>1. ~ InTx(c) /\ records' = Put(records, rid, row)
      BY <2>2, <2>4
    <3>2. r = rid /\ records'[r] = row
      BY <2>4, <3>1 DEF Put
    <3>3. View(c)[rid] = records[rid] /\ rid \in DOMAIN View(c)
      BY <1>0, <3>1, <3>2, ViewIs, NothingYet, ZenonT(60) DEF TxOK, SameTx, InTx
    <3>4. QED
      BY <1>0, <2>1, <3>2, <3>3 DEF Good
  <2>5. QED
    BY <2>2, <2>3, <2>4 DEF FenceHolds
<1>3. ASSUME NEW rid, NEW lock, lock \in BOOLEAN, get(c, rid, lock) PROVE FenceHolds(c)
  <2>1. PICK d : Got(d, c, rid, lock)
    BY <1>0, <1>3, getEffect
  <2>2. /\ calls'[c] = d /\ records' = records /\ d.rid = rid
        /\ d.answer = (IF Found(c, rid) THEN "found" ELSE "not_found")
    BY <1>0, <1>3, <2>1, MovedCall DEF Got, get
  <2>3. Found(c, rid) => Own(c, rid)
    BY ScopeIsOwn DEF Found, readScoped
  <2>4. QED
    BY <2>2, <2>3 DEF FenceHolds
<1>4. CASE Missed(c)
  <2> DEFINE answer == IF exists(calls[c].rid, missed(c)) THEN "conflict" ELSE "not_found"
  <2>1. records' = records /\ calls' = [calls EXCEPT ![c] = [@ EXCEPT !.at = "idle", !.answer = answer]]
    BY <1>4 DEF Missed
  <2> HIDE DEF answer
  <2>2. calls'[c] = [calls[c] EXCEPT !.at = "idle", !.answer = answer]
    BY <1>0, <2>1 DEF CallsShape
  <2>3. calls'[c].rid = calls[c].rid /\ calls'[c].answer = answer
    BY <1>0, <2>2 DEF CallsShape, IsCall, CallFields
  <2>4. answer \in {"found", "conflict"} => Own(c, calls[c].rid)
    BY ScopeIsOwn DEF answer, exists, missed
  <2>5. QED
    BY <2>1, <2>2, <2>3, <2>4 DEF FenceHolds
<1>5. CASE RestoreMissed(c)
  <2> DEFINE answer == IF exists(calls[c].rid, readScoped(c) \cap Live(c)) THEN "ok" ELSE "not_found"
  <2>1. records' = records /\ calls' = [calls EXCEPT ![c] = [@ EXCEPT !.at = "idle", !.answer = answer]]
    BY <1>5 DEF RestoreMissed
  <2>2. answer \notin {"found", "conflict"}
    OBVIOUS
  <2> HIDE DEF answer
  <2>3. calls'[c] = [calls[c] EXCEPT !.at = "idle", !.answer = answer]
    BY <1>0, <2>1 DEF CallsShape
  <2>4. calls'[c].answer = answer
    BY <1>0, <2>3 DEF CallsShape, IsCall, CallFields
  <2>5. QED
    BY <2>1, <2>2, <2>4 DEF FenceHolds
<1>6. CASE UpsertWrites(c)
  <2>1. who[c] = "system"
    BY <1>6 DEF WritesInv, CallOK, UpsertWrites
  <2>2. QED
    BY <2>1
<1>7. CASE RunInTx(c)
  <2>1. PICK d : Moves(c, d) /\ d.answer = calls[c].answer
    BY <1>0, <1>7, RunInTxEffect
  <2>2. calls'[c] = d /\ records' = records
    BY <1>0, <1>7, <2>1, MovedCall DEF RunInTx
  <2>3. QED
    BY <2>1, <2>2 DEF FenceHolds
<1>8. CASE AfterCommit(c)
  <2>1. PICK d : Moves(c, d) /\ d.answer = calls[c].answer
    BY <1>0, <1>8, AfterCommitEffect
  <2>2. calls'[c] = d /\ records' = records
    BY <1>0, <1>8, <2>1, MovedCall DEF AfterCommit
  <2>3. QED
    BY <2>1, <2>2 DEF FenceHolds
<1>9. CASE Commit(c)
  <2>1. PICK d : Moves(c, d) /\ d.answer = calls[c].answer
    BY <1>0, <1>9, CommitEffect
  <2>2. calls'[c] = d /\ records' = View(c)
    BY <1>0, <1>9, <2>1, MovedCall DEF Commit
  <2>3. ASSUME NEW r \in DOMAIN records, records'[r] # records[r] PROVE records[r].owner = who[c] /\ records'[r].owner = who[c]
    <3>1. r \in DOMAIN calls[c].tx.writes /\ records'[r] = calls[c].tx.writes[r]
      BY <2>2, <2>3, ViewIs
    <3>2. QED
      BY <1>0, <3>1 DEF TxOK
  <2>4. QED
    BY <2>1, <2>2, <2>3 DEF FenceHolds
<1>10. CASE Rollback(c)
  <2>1. Moves(c, NoCall) /\ records' = records /\ NoCall.answer = "none"
    BY <1>10, NothingYet DEF Rollback, Moves, NoCall
  <2>2. calls'[c] = NoCall
    BY <1>0, <2>1, MovedCall
  <2>3. QED
    BY <2>1, <2>2 DEF FenceHolds
<1>11. CASE flush(c)
  <2>1. PICK d : Moves(c, d) /\ d.answer = calls[c].answer
    BY <1>0, <1>11, flushEffect
  <2>2. calls'[c] = d /\ records' = records
    BY <1>0, <1>11, <2>1, MovedCall DEF flush
  <2>3. QED
    BY <2>1, <2>2 DEF FenceHolds
<1>12. QED
  BY <1>1, <1>2, <1>3, <1>4, <1>5, <1>6, <1>7, <1>8, <1>9, <1>10, <1>11 DEF Kinds

\* A step is one caller's.
LEMMA OneMoves ==
  ASSUME WritesInv, NEW c \in Callers, Kinds(c), NEW o \in Callers, o # c
  PROVE  calls'[o] = calls[o]
BY DEF Kinds, Replies, WritesWell, Answers, Writes, get, Missed, RestoreMissed, UpsertWrites, RunInTx, AfterCommit, Commit,
       Rollback, flush, WritesInv, CallsShape

\* Nothing a caller was told is done is lost, and the owner scope holds in
\* writes and answers (store/write.go, read.go; db/tx.go), for any callers,
\* principals and rows, in and out of transactions.
THEOREM StoreWrites == StoreSpec => WritesHold
<1>1. StoreInit => WritesInv
  BY StoreInits
<1>2. WritesInv /\ [StoreNext]_storeVars => WritesInv'
  BY WritesNext
<1>3. WritesInv => NoLostUpdate
  BY DEF WritesInv, RecordsOK, NoLostUpdate
<1>4. WritesInv /\ [StoreNext]_storeVars => [\A c \in Callers : FenceHolds(c)]_storeVars
  <2>1. SUFFICES ASSUME WritesInv, StoreNext, NEW c \in Callers PROVE FenceHolds(c)
    OBVIOUS
  <2>2. PICK a \in Callers : Kinds(a)
    BY <2>1, EveryKind
  <2>3. CASE a = c
    <3>1. CASE who[c] \in {"ann", "bob", "none"}
      BY <2>1, <2>2, <2>3, <3>1, FenceStep
    <3>2. CASE who[c] \notin {"ann", "bob", "none"}
      BY <3>2 DEF FenceHolds
    <3>3. QED
      BY <3>1, <3>2
  <2>4. CASE a # c
    <3>1. calls'[c] = calls[c]
      BY <2>1, <2>2, <2>4, OneMoves
    <3>2. QED
      BY <3>1 DEF FenceHolds
  <2>5. QED
    BY <2>3, <2>4
<1>5. StoreSpec => []NoLostUpdate
  BY <1>1, <1>2, <1>3, PTL DEF StoreSpec
<1>6. StoreSpec => [][\A c \in Callers : FenceHolds(c)]_storeVars
  BY <1>1, <1>2, <1>4, PTL DEF StoreSpec
<1>7. StoreSpec => Fenced
  BY <1>6 DEF Fenced, FenceHolds
<1>8. QED
  BY <1>5, <1>7, PTL DEF WritesHold

\* AfterCommit's callbacks are of transactions that committed, run once, and
\* a transaction's own in the order it staged them (db/tx.go flush).
THEOREM StoreCallbacks == StoreSpec => []CallbacksFollowCommit
<1>1. StoreInit => WritesInv /\ CallbacksInv
  BY StoreInits
<1>2. WritesInv /\ CallbacksInv /\ [StoreNext]_storeVars => (WritesInv /\ CallbacksInv)'
  BY WritesNext, CallbacksNext
<1>3. CallbacksInv => CallbacksFollowCommit
  BY DEF CallbacksInv, CalledOK
<1>4. QED
  BY <1>1, <1>2, <1>3, PTL DEF StoreSpec

-----------------------------------------------------------------------------
(* Migrations.  What a process knows of the ledger once it has read it, and *)
(* what it may still rely on: all of it where it holds the lock, and that  *)
(* what is applied stays applied where there is no lock.                   *)

MigKeys == {"app", "jobs"} \X Nat
ProcFields == {"at", "mode", "files", "declares", "todo", "rows", "past", "key", "next", "has"}
IsProc(r) == r = [f \in ProcFields |-> r[f]]
Running == {"files", "statement", "record"}
ProcsShape == procs = [p \in Procs |-> procs[p]] /\ \A p \in Procs : IsProc(procs[p])

\* The stages of each mode, and the schemas still to come.
FilesOK(files) == DOMAIN files \subseteq MigKeys /\ \A key \in DOMAIN files : files[key] \in Seq(STRING) \ {<<>>}
StageOK(r) ==
  /\ CASE r.mode = "off" -> r.at \in {"idle", "migrate", "started"}
       [] r.mode = "auto" -> r.at \in {"migrate", "create", "readback", "started"}
       [] r.mode = "mark" -> r.at \in {"mark", "marks", "insert"}
       [] OTHER -> r.mode \in {"versioned", "up"} /\ r.at \in {"migrate", "read", "started"} \cup Running
  /\ r.todo \in {<<>>, <<"app">>, <<"jobs">>, <<"app", "jobs">>}
  /\ (r.todo = <<>>) <=> r.at \in {"idle", "started"}
  /\ r.mode = "auto" => r.todo \in {<<>>, <<"app">>} /\ r.declares \in Declared
  /\ FilesOK(r.files) /\ r.past \in Int /\ (r.at \in {"migrate", "read"} => r.past = -1)
  /\ r.at = "idle" => r = Idle

\* Of a file a process means to run or to mark.
KeyOK(r) ==
  /\ r.at \in {"statement", "record", "insert"} => r.key \in DOMAIN r.files
  /\ r.at \in {"statement", "record"} =>
       /\ r.key[1] = Head(r.todo) /\ r.key[2] > r.past
       /\ \A other \in loadMigrations(r.files, Head(r.todo)) : other[2] > r.past => r.key[2] <= other[2]

HoldsLock(p) ==
  /\ procs[p].at \in {"statement", "record"} => server = "mysql"
  /\ Locking /\ procs[p].at \in {"read", "marks", "insert"} \cup Running => migLock = p

\* A migration a process is up to date with.
UpToDate(key, files) ==
  /\ key \in DOMAIN ledger /\ ledger[key].applied
  /\ Locking /\ key \notin marked => ledger[key].sum = files[key]

\* The rows a process read: applied ones still are; under the lock, those to come are the ledger's.
RowsOK(r) == r.at \in Running =>
  \A key \in DOMAIN r.rows :
    /\ key \in DOMAIN r.files /\ key \in DOMAIN ledger
    /\ r.rows[key].applied => /\ r.rows[key].sum = r.files[key] /\ ledger[key].applied
                              /\ key \notin marked => ledger[key].sum = r.files[key]
AgreeOK(r) == r.at \in Running /\ Locking =>
  \A key \in DOMAIN ledger : key[1] = Head(r.todo) /\ key[2] > r.past /\ (r.at # "files" => key # r.key) =>
    key \in DOMAIN r.rows /\ r.rows[key] = ledger[key]
PastOK(r) == r.at \in Running =>
  \A key \in loadMigrations(r.files, Head(r.todo)) : key[2] <= r.past => UpToDate(key, r.files)
AppOK(r) == r.mode \in {"versioned", "off", "up"} /\ r.todo \in {<<>>, <<"jobs">>} =>
  \A key \in loadMigrations(r.files, "app") : UpToDate(key, r.files)
AutoOK(r) == r.mode = "auto" /\ r.at = "started" => index = r.declares

\* A file run by statement.
StatementOK(r) == r.at \in {"statement", "record"} =>
  /\ r.next \in Nat \ {0} /\ r.next <= Len(r.files[r.key]) + 1 /\ (r.at = "record" => r.next <= Len(r.files[r.key]))
  /\ r.has \in BOOLEAN /\ (r.has <=> r.key \in DOMAIN ledger)
  /\ r.has => ~ ledger[r.key].applied /\ ledger[r.key].sum = prefixSum(r.files[r.key], r.next - 1)
  /\ ~ r.has => r.next = 1
  /\ ~ r.has => \A other \in DOMAIN ledger : other[1] = r.key[1] /\ ledger[other].applied => other[2] <= r.key[2]
  /\ r.at = "record" /\ r.key \notin marked \cup doubted => ran[r.key] = prefixSum(r.files[r.key], r.next)
  /\ r.at = "record" => r.key \in DOMAIN ran

ProcOK(p) ==
  /\ StageOK(procs[p]) /\ KeyOK(procs[p]) /\ HoldsLock(p)
  /\ RowsOK(procs[p]) /\ AgreeOK(procs[p]) /\ PastOK(procs[p]) /\ AppOK(procs[p]) /\ AutoOK(procs[p])
  /\ StatementOK(procs[p])

\* Rows of migrations, partly applied only by statement, and then in part.
RowOK(row, key) ==
  /\ row.applied \in BOOLEAN /\ row.statements \in Nat /\ row.sum \in Seq(STRING)
  /\ ~ row.applied => server = "mysql" /\ key \in DOMAIN ran
LedgerOK == DOMAIN ledger \subseteq MigKeys /\ \A key \in DOMAIN ledger : RowOK(ledger[key], key)

MigInv == server \in {"sqlite", "mysql", "postgres"} /\ ProcsShape /\ LedgerOK /\ LedgerIsTrue /\ \A p \in Procs : ProcOK(p)

-----------------------------------------------------------------------------
(* Helpers: the first statements of a file, and the schemas left.          *)

\* The first statements of a file, and one more.
LEMMA PrefixSums ==
  ASSUME NEW stmts \in Seq(STRING)
  PROVE  /\ prefixSum(stmts, 0) = <<>> /\ prefixSum(stmts, Len(stmts)) = stmts
         /\ \A n \in 1..Len(stmts) : prefixSum(stmts, n) = prefixSum(stmts, n - 1) \o <<stmts[n]>>
         /\ \A n \in 0..Len(stmts) : prefixSum(stmts, n) \in Seq(STRING)
<1>1. prefixSum(stmts, 0) = <<>>
  BY DEF prefixSum
<1>2. \A n \in 0..Len(stmts) : prefixSum(stmts, n) \in Seq(STRING) /\ Len(prefixSum(stmts, n)) = n
                               /\ \A i \in 1..n : prefixSum(stmts, n)[i] = stmts[i]
  BY SubSeqProperties DEF prefixSum
<1>3. prefixSum(stmts, Len(stmts)) = stmts
  <2>1. Len(stmts) \in 0..Len(stmts)
    BY LenProperties
  <2>2. prefixSum(stmts, Len(stmts)) \in Seq(STRING) /\ Len(prefixSum(stmts, Len(stmts))) = Len(stmts)
    BY <1>2, <2>1
  <2>3. \A i \in 1..Len(stmts) : prefixSum(stmts, Len(stmts))[i] = stmts[i]
    BY <1>2, <2>1
  <2>4. QED
    BY <2>2, <2>3, SeqEqual
<1>4. ASSUME NEW n \in 1..Len(stmts)
      PROVE  prefixSum(stmts, n) = prefixSum(stmts, n - 1) \o <<stmts[n]>>
  <2>1. n - 1 \in 0..Len(stmts) /\ n \in 0..Len(stmts)
    BY LenProperties
  <2>2. prefixSum(stmts, n - 1) \in Seq(STRING) /\ Len(prefixSum(stmts, n - 1)) = n - 1
    BY <1>2, <2>1
  <2>3. stmts[n] \in STRING /\ <<stmts[n]>> \in Seq(STRING) /\ Len(<<stmts[n]>>) = 1
    BY ElementOfSeq
  <2>4. prefixSum(stmts, n) \in Seq(STRING) /\ Len(prefixSum(stmts, n)) = n
    BY <1>2, <2>1
  <2> DEFINE t == prefixSum(stmts, n - 1) \o <<stmts[n]>>
  <2>5. t \in Seq(STRING) /\ Len(t) = n
        /\ \A i \in 1..n : t[i] = IF i <= n - 1 THEN prefixSum(stmts, n - 1)[i] ELSE <<stmts[n]>>[i - (n - 1)]
    BY <2>2, <2>3, ConcatProperties
  <2>6. \A i \in 1..n : t[i] = stmts[i]
    <3>1. \A i \in 1..n - 1 : prefixSum(stmts, n - 1)[i] = stmts[i]
      BY <1>2, <2>1
    <3>2. ASSUME NEW i \in 1..n PROVE t[i] = stmts[i]
      <4>1. CASE i = n
        <5>1. i - (n - 1) = 1 /\ ~ (i <= n - 1) /\ <<stmts[n]>>[1] = stmts[n]
          BY <4>1
        <5>2. t[i] = <<stmts[n]>>[i - (n - 1)]
          BY <2>5, <5>1
        <5>3. QED
          BY <5>1, <5>2, <4>1
      <4>2. CASE i # n
        <5>1. i \in 1..n - 1 /\ i <= n - 1
          BY <4>2
        <5>2. QED
          BY <5>1, <3>1, <2>5
      <4>3. QED
        BY <4>1, <4>2
    <3>3. QED
      BY <3>2
  <2>7. \A i \in 1..n : prefixSum(stmts, n)[i] = stmts[i]
    BY <1>2, <2>1
  <2> HIDE DEF t
  <2>8. prefixSum(stmts, n) = t
    BY <2>4, <2>5, <2>6, <2>7, SeqEqual
  <2>9. QED
    BY <2>8 DEF t
<1>5. QED
  BY <1>1, <1>2, <1>3, <1>4

\* The heads and tails of the lists of schemas.
LEMMA Todos ==
  /\ Head(<<"app">>) = "app" /\ Head(<<"jobs">>) = "jobs" /\ Head(<<"app", "jobs">>) = "app"
  /\ Tail(<<"app">>) = <<>> /\ Tail(<<"jobs">>) = <<>> /\ Tail(<<"app", "jobs">>) = <<"jobs">>
  /\ <<"app">> # <<>> /\ <<"jobs">> # <<>> /\ <<"app", "jobs">> # <<>>
  /\ <<"app">> # <<"jobs">> /\ <<"app", "jobs">> # <<"jobs">> /\ <<"app", "jobs">> # <<"app">>
<1>1. Len(<<"app">>) = 1 /\ Len(<<"jobs">>) = 1 /\ Len(<<"app", "jobs">>) = 2 /\ Len(<<>>) = 0
  OBVIOUS
<1>2. <<"app">>[1] = "app" /\ <<"jobs">>[1] = "jobs" /\ <<"app", "jobs">>[1] = "app" /\ <<"app", "jobs">>[2] = "jobs"
  OBVIOUS
<1>3. Tail(<<"app">>) = <<>> /\ Tail(<<"jobs">>) = <<>>
  OBVIOUS
<1>4. Tail(<<"app", "jobs">>) = <<"jobs">>
  OBVIOUS
<1>5. "app" # "jobs"
  OBVIOUS
<1>6. QED
  BY <1>1, <1>2, <1>3, <1>4, <1>5

-----------------------------------------------------------------------------
(* What one process's step leaves to the others.                           *)

\* Applied rows stay applied, and of the same file but where an operator marks them.
KeepsRows ==
  /\ marked \subseteq marked'
  /\ \A key \in DOMAIN ledger :
       /\ key \in DOMAIN ledger'
       /\ ledger[key].applied => /\ ledger'[key].applied
                                 /\ key \notin marked' => ledger'[key].sum = ledger[key].sum

\* The schema changes by who holds the lock, and the lock by who holds it or none.
Civil(p) ==
  /\ server' = server /\ KeepsRows
  /\ Locking /\ migLock # p => UNCHANGED schema
  /\ migLock' = migLock \/ (migLock \in {p, NoProc} /\ migLock' \in {p, NoProc})
  /\ index \in Declared => index' = index

LEMMA QuietKeeps ==
  ASSUME UNCHANGED schema
  PROVE  KeepsRows
  BY DEF KeepsRows, schema

\* The others stand as before.
LEMMA Elsewhere ==
  ASSUME MigInv, NEW p \in Procs, NEW q \in Procs, p # q, procs'[q] = procs[q], Civil(p)
  PROVE  ProcOK(q)'
<1> DEFINE r == procs[q]
<1>1. ProcOK(q) /\ NoProc \notin Procs
  BY MigrationsAssumption DEF MigInv
<1>2. server' = server /\ (Locking' <=> Locking)
  BY DEF Civil, Locking
<1>3. HoldsLock(q)'
  BY <1>1, <1>2 DEF ProcOK, HoldsLock, Civil, Running, Locking
<1>4. Locking /\ r.at \in Running => ledger' = ledger /\ ran' = ran /\ marked' = marked /\ doubted' = doubted
  BY <1>1, <1>2 DEF ProcOK, HoldsLock, Civil, Running, schema
<1>5. StageOK(procs[q])' /\ KeyOK(procs[q])'
  BY <1>1 DEF ProcOK, StageOK, KeyOK
<1>6. \A key, files : UpToDate(key, files) => UpToDate(key, files)'
  BY <1>2 DEF UpToDate, Civil, KeepsRows
<1>7. RowsOK(procs[q])'
  BY <1>1 DEF ProcOK, RowsOK, Civil, KeepsRows
<1>8. AgreeOK(procs[q])'
  BY <1>1, <1>2, <1>4 DEF ProcOK, AgreeOK
<1>9. PastOK(procs[q])'
  BY <1>1, <1>6 DEF ProcOK, PastOK
<1>10. AppOK(procs[q])'
  BY <1>1, <1>6 DEF ProcOK, AppOK
<1>11. AutoOK(procs[q])'
  <2>1. r.mode = "auto" => r.declares \in Declared
    BY <1>1 DEF ProcOK, StageOK
  <2>2. QED
    BY <1>1, <2>1 DEF ProcOK, AutoOK, Civil
<1>12. StatementOK(procs[q])'
  <2>1. CASE r.at \in {"statement", "record"}
    <3>1. Locking /\ r.at \in Running
      BY <1>1, <2>1 DEF ProcOK, HoldsLock, Locking, Running
    <3>2. ledger' = ledger /\ ran' = ran /\ marked' = marked /\ doubted' = doubted
      BY <1>4, <3>1
    <3>3. QED
      BY <1>1, <3>2 DEF ProcOK, StatementOK
  <2>2. CASE ~ (r.at \in {"statement", "record"})
    BY <2>2 DEF StatementOK
  <2>3. QED
    BY <2>1, <2>2
<1>13. QED
  BY <1>3, <1>5, <1>7, <1>8, <1>9, <1>10, <1>11, <1>12 DEF ProcOK

\* A step of one process, by what it makes of that process and of the schema.
LEMMA MigStep ==
  ASSUME MigInv, NEW p \in Procs, NEW r, IsProc(r), procs' = [procs EXCEPT ![p] = r], Civil(p),
         LedgerOK', LedgerIsTrue', ProcOK(p)'
  PROVE  MigInv'
<1>1. procs' = [q \in Procs |-> IF q = p THEN r ELSE procs[q]]
  BY DEF MigInv, ProcsShape
<1>2. \A q \in Procs : q # p => procs'[q] = procs[q]
  BY <1>1
<1>3. ProcsShape'
  BY <1>1 DEF MigInv, ProcsShape
<1>4. \A q \in Procs : ProcOK(q)'
  BY <1>2, Elsewhere
<1>5. server' \in {"sqlite", "mysql", "postgres"}
  BY DEF MigInv, Civil
<1>6. QED
  BY <1>3, <1>4, <1>5 DEF MigInv

\* One that changes nothing but the process, the lock and the index, and ends no statement.
LEMMA SameSchema ==
  ASSUME MigInv, NEW p \in Procs, NEW r, IsProc(r), procs' = [procs EXCEPT ![p] = r], Civil(p), UNCHANGED schema,
         procs[p].at # "record", ProcOK(p)'
  PROVE  MigInv'
<1>1. procs' = [q \in Procs |-> IF q = p THEN r ELSE procs[q]]
  BY DEF MigInv, ProcsShape
<1>2. LedgerOK'
  BY DEF MigInv, LedgerOK, RowOK, schema, Civil
<1>3. LedgerIsTrue'
  <2>1. ASSUME NEW key \in DOMAIN ran \ (marked \cup doubted)
        PROVE  \/ key \in DOMAIN ledger /\ ran[key] = ledger[key].sum
               \/ \E q \in Procs : /\ procs'[q].at = "record" /\ procs'[q].key = key
                                   /\ ran[key] = prefixSum(procs'[q].files[key], procs'[q].next)
    <3>1. CASE key \in DOMAIN ledger /\ ran[key] = ledger[key].sum
      BY <3>1
    <3>2. CASE \E q \in Procs : /\ procs[q].at = "record" /\ procs[q].key = key
                                /\ ran[key] = prefixSum(procs[q].files[key], procs[q].next)
      <4>1. PICK q \in Procs : /\ procs[q].at = "record" /\ procs[q].key = key
                               /\ ran[key] = prefixSum(procs[q].files[key], procs[q].next)
        BY <3>2
      <4>2. procs'[q] = procs[q]
        BY <1>1, <4>1
      <4>3. QED
        BY <4>1, <4>2
    <3>3. QED
      BY <3>1, <3>2 DEF MigInv, LedgerIsTrue
  <2>2. QED
    BY <2>1 DEF LedgerIsTrue, schema
<1>4. QED
  BY <1>2, <1>3, MigStep

-----------------------------------------------------------------------------
(* The steps that leave the schema alone.                                  *)

LEMMA ProcFacts ==
  ASSUME MigInv, NEW p \in Procs
  PROVE  /\ IsProc(procs[p]) /\ ProcOK(p) /\ p # NoProc
         /\ \A r : procs' = [procs EXCEPT ![p] = r] => procs'[p] = r
  BY MigrationsAssumption DEF MigInv, ProcsShape

LEMMA IdleFacts == IsProc(Idle) /\ StageOK(Idle) /\ Idle.at = "idle" /\ Idle.mode = "off" /\ DOMAIN Idle.files = {}
  BY DEF IsProc, Idle, ProcFields, StageOK, FilesOK, Running

\* A process that has begun no schema, or is between two, has only to be up to date with those behind it.
LEMMA Apart ==
  ASSUME NEW p, StageOK(procs'[p]), procs'[p].at \notin {"read", "marks", "insert"} \cup Running,
         AppOK(procs[p])', AutoOK(procs[p])'
  PROVE  ProcOK(p)'
<1>1. procs'[p].at \notin {"read", "marks", "insert", "files", "statement", "record"}
  BY DEF Running
<1>2. StageOK(procs[p])' /\ KeyOK(procs[p])' /\ HoldsLock(p)'
  BY <1>1 DEF StageOK, KeyOK, HoldsLock, Running
<1>3. RowsOK(procs[p])' /\ AgreeOK(procs[p])' /\ PastOK(procs[p])' /\ StatementOK(procs[p])'
  BY <1>1 DEF RowsOK, AgreeOK, PastOK, StatementOK, Running
<1>4. QED
  BY <1>2, <1>3 DEF ProcOK

LEMMA IdleOK ==
  ASSUME NEW p, procs'[p] = Idle
  PROVE  ProcOK(p)'
<1>1. AppOK(procs[p])' /\ AutoOK(procs[p])'
  BY IdleFacts DEF AppOK, AutoOK, loadMigrations
<1>2. procs'[p].at \notin {"read", "marks", "insert"} \cup Running
  BY IdleFacts DEF Running
<1>3. QED
  BY <1>1, <1>2, IdleFacts, Apart

LEMMA OpenStep ==
  ASSUME MigInv, NEW p \in Procs, NEW mode \in {"versioned", "off", "up", "auto", "mark"}, NEW files, FilesOK(files),
         NEW declares \in Declared, NEW battery \in BOOLEAN, mode = "auto" => ~ battery, mode = "mark" => battery,
         Open(p, mode, files, declares, battery)
  PROVE  MigInv'
<1> DEFINE r == [Idle EXCEPT !.at = IF mode = "mark" THEN "mark" ELSE "migrate", !.mode = mode, !.files = files,
                   !.declares = declares, !.todo = IF battery THEN <<"app", "jobs">> ELSE <<"app">>]
<1>1. procs' = [procs EXCEPT ![p] = r] /\ procs[p].at = "idle"
  BY DEF Open, Becomes
<1>2. /\ IsProc(r) /\ r.at = (IF mode = "mark" THEN "mark" ELSE "migrate") /\ r.mode = mode /\ r.files = files
      /\ r.declares = declares /\ r.todo = (IF battery THEN <<"app", "jobs">> ELSE <<"app">>) /\ r.past = -1
  BY DEF IsProc, Idle, ProcFields
<1> HIDE DEF r
<1>3. procs'[p] = r
  BY <1>1, ProcFacts
<1>4. StageOK(r)
  BY <1>2, Todos DEF StageOK, Running
<1>5. AppOK(procs[p])' /\ AutoOK(procs[p])'
  BY <1>2, <1>3, Todos DEF AppOK, AutoOK
<1>6. r.at \notin {"read", "marks", "insert"} \cup Running
  BY <1>2 DEF Running
<1>7. ProcOK(p)'
  BY <1>3, <1>4, <1>5, <1>6, Apart
<1>8. Civil(p) /\ UNCHANGED schema
  BY QuietKeeps DEF Open, Civil
<1>9. QED
  BY <1>1, <1>2, <1>7, <1>8, SameSchema

LEMMA RestartsStep ==
  ASSUME MigInv, NEW p \in Procs, Restarts(p)
  PROVE  MigInv'
<1>1. procs' = [procs EXCEPT ![p] = Idle] /\ procs[p].at = "started" /\ UNCHANGED schema
  BY DEF Restarts, Becomes
<1>2. ProcOK(p)'
  BY <1>1, ProcFacts, IdleOK
<1>3. Civil(p)
  BY <1>1, QuietKeeps DEF Restarts, Civil
<1>4. QED
  BY <1>1, <1>2, <1>3, IdleFacts, SameSchema

\* The schemas left, once one is done.
LEMMA NextOwners ==
  ASSUME MigInv, NEW p \in Procs, procs[p].todo # <<>>
  PROVE  /\ openSession(p) \in {<<>>, <<"jobs">>} /\ Head(procs[p].todo) \in {"app", "jobs"}
         /\ procs[p].mode = "auto" => openSession(p) = <<>>
         /\ Head(procs[p].todo) # "app" => procs[p].todo = <<"jobs">>
<1>1. procs[p].todo \in {<<"app">>, <<"jobs">>, <<"app", "jobs">>} /\ (procs[p].mode = "auto" => procs[p].todo = <<"app">>)
  BY ProcFacts DEF ProcOK, StageOK
<1>2. QED
  BY <1>1, Todos DEF openSession

\* One schema is done.
LEMMA DoneOK ==
  ASSUME MigInv, NEW p \in Procs, Done(p), server' = server, UNCHANGED schema,
         procs[p].at \notin {"idle", "started"}, procs[p].mode \in {"versioned", "off", "up", "auto"},
         procs[p].mode = "auto" => index' = procs[p].declares,
         procs[p].mode # "auto" /\ Head(procs[p].todo) = "app" =>
           \A key \in loadMigrations(procs[p].files, "app") : UpToDate(key, procs[p].files)
  PROVE  ProcOK(p)'
<1> DEFINE o == procs[p]
           r == [procs[p] EXCEPT !.at = IF openSession(p) = <<>> THEN "started" ELSE "migrate", !.todo = openSession(p), !.past = -1]
<1>1. procs'[p] = r
  BY ProcFacts DEF Done, Becomes
<1>2. /\ IsProc(r) /\ r.at = (IF openSession(p) = <<>> THEN "started" ELSE "migrate") /\ r.todo = openSession(p) /\ r.past = -1
      /\ r.mode = o.mode /\ r.files = o.files /\ r.declares = o.declares
  BY ProcFacts DEF IsProc, ProcFields
<1>3. StageOK(o) /\ AppOK(o)
  BY ProcFacts DEF ProcOK
<1>4. o.todo # <<>>
  BY <1>3 DEF StageOK
<1>5. /\ openSession(p) \in {<<>>, <<"jobs">>} /\ Head(o.todo) \in {"app", "jobs"} /\ (o.mode = "auto" => openSession(p) = <<>>)
      /\ Head(o.todo) # "app" => o.todo = <<"jobs">>
  BY <1>4, NextOwners
<1> HIDE DEF r
<1>6. StageOK(r)
  BY <1>2, <1>3, <1>5, Todos DEF StageOK, Running
<1>7. o.mode # "auto" => \A key \in loadMigrations(o.files, "app") : UpToDate(key, o.files)
  BY <1>3, <1>5 DEF AppOK
<1>8. \A key, files : UpToDate(key, files)' <=> UpToDate(key, files)
  BY DEF UpToDate, schema, Locking
<1>9. AppOK(procs[p])'
  BY <1>1, <1>2, <1>7, <1>8 DEF AppOK
<1>10. AutoOK(procs[p])'
  BY <1>1, <1>2 DEF AutoOK
<1>11. r.at \notin {"read", "marks", "insert"} \cup Running
  BY <1>2 DEF Running
<1>12. QED
  BY <1>1, <1>6, <1>9, <1>10, <1>11, Apart

LEMMA DoneIsProc ==
  ASSUME MigInv, NEW p \in Procs, Done(p)
  PROVE  \E r : IsProc(r) /\ procs' = [procs EXCEPT ![p] = r]
<1> DEFINE r == [procs[p] EXCEPT !.at = IF openSession(p) = <<>> THEN "started" ELSE "migrate", !.todo = openSession(p), !.past = -1]
<1>1. IsProc(r)
  BY ProcFacts DEF IsProc, ProcFields
<1>2. procs' = [procs EXCEPT ![p] = r]
  BY DEF Done, Becomes
<1>3. QED
  BY <1>1, <1>2

\* A step that ends a schema and changes nothing of it.
LEMMA DoneStep ==
  ASSUME MigInv, NEW p \in Procs, Done(p), Civil(p), UNCHANGED schema,
         procs[p].at \notin {"idle", "started", "record"}, procs[p].mode \in {"versioned", "off", "up", "auto"},
         procs[p].mode = "auto" => index' = procs[p].declares,
         procs[p].mode # "auto" /\ Head(procs[p].todo) = "app" =>
           \A key \in loadMigrations(procs[p].files, "app") : UpToDate(key, procs[p].files)
  PROVE  MigInv'
<1>1. server' = server
  BY DEF Civil
<1>2. ProcOK(p)'
  BY <1>1, DoneOK
<1>3. PICK r : IsProc(r) /\ procs' = [procs EXCEPT ![p] = r]
  BY DoneIsProc
<1>4. QED
  BY <1>2, <1>3, SameSchema

LEMMA MigrateOffStep ==
  ASSUME MigInv, NEW p \in Procs, migrateOff(p)
  PROVE  MigInv'
<1> DEFINE o == procs[p]
<1>1. /\ o.at = "migrate" /\ o.mode = "off" /\ Done(p) /\ UNCHANGED schema /\ Civil(p)
      /\ \A key \in Listed(o.files, readLedger(Head(o.todo)), Head(o.todo)) :
           status(o.files, readLedger(Head(o.todo)), key) = "applied"
  BY QuietKeeps DEF migrateOff, Civil
<1>2. ASSUME Head(o.todo) = "app", NEW key \in loadMigrations(o.files, "app")
      PROVE  UpToDate(key, o.files)
  <2>1. status(o.files, readLedger("app"), key) = "applied"
    BY <1>1, <1>2 DEF Listed
  <2>2. key \in DOMAIN readLedger("app") /\ readLedger("app")[key].applied /\ readLedger("app")[key].sum = o.files[key]
    BY <2>1 DEF status
  <2>3. key \in DOMAIN ledger /\ readLedger("app")[key] = ledger[key]
    BY <2>2 DEF readLedger, Restrict
  <2>4. QED
    BY <2>2, <2>3 DEF UpToDate
<1>3. QED
  BY <1>1, <1>2, DoneStep

LEMMA LockStep ==
  ASSUME MigInv, NEW p \in Procs, lockMigrations(p)
  PROVE  MigInv'
<1> DEFINE o == procs[p]
           r == [procs[p] EXCEPT !.at = IF procs[p].at = "mark" THEN "marks" ELSE "read"]
<1>1. /\ procs' = [procs EXCEPT ![p] = r] /\ UNCHANGED schema /\ o.at \in {"migrate", "mark"}
      /\ o.mode \in {"versioned", "up", "mark"} /\ server' = server /\ index' = index
      /\ IF Locking THEN migLock = NoProc /\ migLock' = p ELSE UNCHANGED migLock
  BY DEF lockMigrations, At, Becomes
<1>2. /\ IsProc(r) /\ r.at = (IF o.at = "mark" THEN "marks" ELSE "read") /\ r.mode = o.mode /\ r.files = o.files
      /\ r.declares = o.declares /\ r.todo = o.todo /\ r.past = o.past
  BY ProcFacts DEF IsProc, ProcFields
<1> HIDE DEF r
<1>3. procs'[p] = r /\ StageOK(o) /\ AppOK(o)
  BY <1>1, ProcFacts DEF ProcOK
<1>4. Civil(p)
  BY <1>1, QuietKeeps DEF Civil
<1>5. StageOK(procs[p])'
  BY <1>1, <1>2, <1>3 DEF StageOK, Running
<1>6. HoldsLock(p)'
  BY <1>1, <1>2, <1>3 DEF HoldsLock, Locking
<1>7. /\ KeyOK(procs[p])' /\ RowsOK(procs[p])' /\ AgreeOK(procs[p])' /\ PastOK(procs[p])' /\ StatementOK(procs[p])'
      /\ AutoOK(procs[p])'
  BY <1>1, <1>2, <1>3 DEF KeyOK, RowsOK, AgreeOK, PastOK, StatementOK, Running, AutoOK
<1>8. AppOK(procs[p])'
  BY <1>1, <1>2, <1>3 DEF AppOK, UpToDate, schema, Locking
<1>9. ProcOK(p)'
  BY <1>5, <1>6, <1>7, <1>8 DEF ProcOK
<1>10. QED
  BY <1>1, <1>2, <1>4, <1>9, SameSchema

LEMMA ApplyStep ==
  ASSUME MigInv, NEW p \in Procs, apply(p)
  PROVE  MigInv'
<1> DEFINE o == procs[p]
           rows == readLedger(Head(o.todo))
           r == [procs[p] EXCEPT !.at = "files", !.rows = rows]
<1>1. /\ procs' = [procs EXCEPT ![p] = r] /\ UNCHANGED schema /\ o.at = "read"
      /\ server' = server /\ index' = index /\ migLock' = migLock
      /\ \A key \in Listed(o.files, rows, Head(o.todo)) : status(o.files, rows, key) \notin {"drifted", "missing"}
  BY DEF apply, Becomes
<1>2. /\ IsProc(r) /\ r.at = "files" /\ r.mode = o.mode /\ r.files = o.files /\ r.rows = rows
      /\ r.declares = o.declares /\ r.todo = o.todo /\ r.past = o.past
  BY ProcFacts DEF IsProc, ProcFields
<1> HIDE DEF r
<1>3. procs'[p] = r /\ StageOK(o) /\ AppOK(o) /\ HoldsLock(p)
  BY <1>1, ProcFacts DEF ProcOK
<1>4. Civil(p)
  BY <1>1, QuietKeeps DEF Civil
<1>5. StageOK(procs[p])'
  BY <1>1, <1>2, <1>3 DEF StageOK, Running
<1>6. HoldsLock(p)'
  BY <1>1, <1>2, <1>3 DEF HoldsLock, Locking, Running
<1>7. KeyOK(procs[p])' /\ StatementOK(procs[p])' /\ AutoOK(procs[p])'
  BY <1>1, <1>2, <1>3 DEF KeyOK, StatementOK, AutoOK
<1>8. AppOK(procs[p])'
  BY <1>1, <1>2, <1>3 DEF AppOK, UpToDate, schema, Locking
<1>9. \A key : key \in DOMAIN rows <=> key \in DOMAIN ledger /\ key[1] = Head(o.todo)
  BY DEF readLedger, Restrict
<1>10. \A key \in DOMAIN rows : rows[key] = ledger[key]
  BY DEF readLedger, Restrict
<1>11. \A key \in DOMAIN rows : key \in DOMAIN o.files /\ (rows[key].applied => rows[key].sum = o.files[key])
  BY <1>1 DEF Listed, status
<1> HIDE DEF rows
<1>12. RowsOK(procs[p])'
  BY <1>1, <1>2, <1>3, <1>9, <1>10, <1>11 DEF RowsOK, schema
<1>13. AgreeOK(procs[p])'
  BY <1>1, <1>2, <1>3, <1>9, <1>10 DEF AgreeOK, schema
<1>14. PastOK(procs[p])'
  <2>1. o.past = -1 /\ DOMAIN o.files \subseteq MigKeys
    BY <1>1, <1>3 DEF StageOK, FilesOK
  <2>2. \A key \in loadMigrations(o.files, Head(o.todo)) : ~ (key[2] <= o.past)
    BY <2>1 DEF loadMigrations, MigKeys
  <2>3. QED
    BY <2>2, <1>2, <1>3 DEF PastOK
<1>15. ProcOK(p)'
  BY <1>5, <1>6, <1>7, <1>8, <1>12, <1>13, <1>14 DEF ProcOK
<1>16. QED
  BY <1>1, <1>2, <1>4, <1>15, SameSchema

LEMMA AutoSteps ==
  ASSUME MigInv, NEW p \in Procs, ReadsIndex(p) \/ createIndex(p) \/ ReadsBack(p)
  PROVE  MigInv'
<1> DEFINE o == procs[p]
<1>1. StageOK(o)
  BY ProcFacts DEF ProcOK
<1>2. UNCHANGED schema /\ server' = server /\ migLock' = migLock
  BY DEF ReadsIndex, createIndex, ReadsBack
<1>3. o.mode = "auto" /\ o.at \in {"migrate", "create", "readback"} /\ o.declares \in Declared
  BY <1>1 DEF ReadsIndex, createIndex, ReadsBack, StageOK, Running
<1>4. Declared \cap {NoIndex, "relation"} = {}
  BY MigrationsAssumption DEF NoIndex
<1>5. Civil(p)
  BY <1>2, <1>4, QuietKeeps DEF Civil, ReadsIndex, createIndex, ReadsBack
<1>6. CASE Done(p) /\ readIndex # NoIndex /\ matches(readIndex, o.declares) /\ index' = index
  <2>1. index' = o.declares
    BY <1>6 DEF readIndex, matches
  <2>2. QED
    BY <1>2, <1>3, <1>5, <1>6, <2>1, DoneStep
<1>7. ASSUME NEW at \in {"create", "readback"}, At(p, at)
      PROVE  MigInv'
  <2> DEFINE r == [procs[p] EXCEPT !.at = at]
  <2>1. procs' = [procs EXCEPT ![p] = r] /\ procs'[p] = r
    BY <1>7, ProcFacts DEF At, Becomes
  <2>2. /\ IsProc(r) /\ r.at = at /\ r.mode = o.mode /\ r.files = o.files /\ r.declares = o.declares /\ r.todo = o.todo
        /\ r.past = o.past
    BY ProcFacts DEF IsProc, ProcFields
  <2> HIDE DEF r
  <2>3. StageOK(r)
    BY <1>1, <1>3, <2>2, <1>7 DEF StageOK, Running
  <2>4. AppOK(procs[p])' /\ AutoOK(procs[p])'
    BY <1>3, <1>7, <2>1, <2>2 DEF AppOK, AutoOK
  <2>5. r.at \notin {"read", "marks", "insert"} \cup Running
    BY <1>7, <2>2 DEF Running
  <2>6. ProcOK(p)'
    BY <2>1, <2>3, <2>4, <2>5, Apart
  <2>7. QED
    BY <1>2, <1>3, <1>5, <2>1, <2>2, <2>6, SameSchema
<1>8. QED
  BY <1>6, <1>7 DEF ReadsIndex, createIndex, ReadsBack

-----------------------------------------------------------------------------
(* The loop over the files.                                                *)

\* A process left off with a file: it has passed the file's version, and those up to it are done.
LEMMA Advances ==
  ASSUME MigInv, NEW p \in Procs, NEW key, Civil(p), migLock' = migLock, procs[p].at \in {"files", "statement"},
         key \in DOMAIN procs[p].files, key[1] = Head(procs[p].todo), key[2] > procs[p].past,
         procs[p].at = "statement" => procs[p].key = key,
         \A other \in loadMigrations(procs[p].files, Head(procs[p].todo)) : other[2] > procs[p].past => key[2] <= other[2],
         procs' = [procs EXCEPT ![p] = [procs[p] EXCEPT !.at = "files", !.past = key[2]]],
         NEW files, files = procs[p].files, UpToDate(key, files)',
         \A k \in DOMAIN ledger' : k # key => k \in DOMAIN ledger /\ ledger'[k] = ledger[k]
  PROVE  ProcOK(p)' /\ IsProc([procs[p] EXCEPT !.at = "files", !.past = key[2]])
<1> DEFINE o == procs[p]
           r == [procs[p] EXCEPT !.at = "files", !.past = key[2]]
<1>1. /\ IsProc(r) /\ r.at = "files" /\ r.mode = o.mode /\ r.files = o.files /\ r.rows = o.rows
      /\ r.declares = o.declares /\ r.todo = o.todo /\ r.past = key[2]
  <2>1. IsProc(o)
    BY ProcFacts
  <2>2. QED
    BY <2>1 DEF IsProc, ProcFields
<1>2. procs'[p] = r /\ ProcOK(p) /\ o.at \in Running /\ StageOK(o)
  BY ProcFacts DEF ProcOK, Running
<1> HIDE DEF r
<1>3. server' = server /\ (Locking' <=> Locking) /\ KeepsRows
  BY DEF Civil, Locking
<1>4. DOMAIN o.files \subseteq MigKeys /\ o.mode \in {"versioned", "up"} /\ o.past \in Int
  BY <1>2 DEF StageOK, FilesOK, Running
<1>5. key[2] \in Nat
  BY <1>4 DEF MigKeys
<1>6. StageOK(procs[p])'
  <2>1. StageOK(r)
    BY <1>1, <1>2, <1>4, <1>5 DEF StageOK, Running
  <2>2. QED
    BY <1>2, <2>1
<1>7. KeyOK(procs[p])' /\ StatementOK(procs[p])' /\ AutoOK(procs[p])'
  BY <1>1, <1>2 DEF KeyOK, StatementOK, AutoOK
<1>8. HoldsLock(p)'
  BY <1>1, <1>2, <1>3 DEF ProcOK, HoldsLock, Running
<1>9. \A k, f : UpToDate(k, f) => UpToDate(k, f)'
  BY <1>3 DEF UpToDate, KeepsRows
<1>10. AppOK(procs[p])'
  BY <1>1, <1>2, <1>9 DEF ProcOK, AppOK
<1>11. RowsOK(procs[p])'
  BY <1>1, <1>2, <1>3 DEF ProcOK, RowsOK, KeepsRows
<1>12. AgreeOK(procs[p])'
  <2>1. ASSUME Locking, NEW k \in DOMAIN ledger', k[1] = Head(o.todo), k[2] > key[2]
        PROVE  k \in DOMAIN o.rows /\ o.rows[k] = ledger'[k]
    <3>1. k # key
      BY <2>1, <1>5
    <3>2. k \in DOMAIN ledger /\ ledger'[k] = ledger[k]
      BY <3>1
    <3>3. k[2] > o.past
      <4>1. k[2] \in Int
        BY <3>2 DEF MigInv, LedgerOK, MigKeys
      <4>2. QED
        BY <4>1, <2>1, <1>4, <1>5
    <3>4. QED
      BY <1>2, <2>1, <3>1, <3>2, <3>3 DEF ProcOK, AgreeOK
  <2>2. QED
    BY <2>1, <1>1, <1>2, <1>3 DEF AgreeOK
<1>13. PastOK(procs[p])'
  <2>1. ASSUME NEW k \in loadMigrations(o.files, Head(o.todo)), k[2] <= key[2]
        PROVE  UpToDate(k, files)'
    <3>1. k \in MigKeys /\ key \in MigKeys /\ k[1] = key[1]
      BY <1>4 DEF loadMigrations
    <3>2. CASE k[2] > o.past
      <4>1. k[2] = key[2]
        BY <3>1, <3>2, <2>1 DEF MigKeys
      <4>2. k = key
        BY <3>1, <4>1 DEF MigKeys
      <4>3. QED
        BY <4>2
    <3>3. CASE k[2] <= o.past
      BY <3>3, <1>2, <1>9 DEF ProcOK, PastOK
    <3>4. QED
      BY <3>1, <3>2, <3>3, <1>4 DEF MigKeys
  <2>2. QED
    BY <2>1, <1>1, <1>2 DEF PastOK
<1>14. QED
  BY <1>1, <1>6, <1>7, <1>8, <1>10, <1>11, <1>12, <1>13 DEF ProcOK, r

\* The turn of a file.
LEMMA TurnFacts ==
  ASSUME MigInv, NEW p \in Procs, NEW key, Turn(p, key)
  PROVE  /\ procs[p].at = "files" /\ key \in DOMAIN procs[p].files /\ key \in MigKeys
         /\ key[1] = Head(procs[p].todo) /\ key[2] > procs[p].past /\ procs[p].mode \in {"versioned", "up"}
         /\ \A other \in loadMigrations(procs[p].files, Head(procs[p].todo)) : other[2] > procs[p].past => key[2] <= other[2]
<1>1. StageOK(procs[p])
  BY ProcFacts DEF ProcOK
<1>2. procs[p].at = "files" /\ key \in Pending(p) /\ \A other \in Pending(p) : key[2] <= other[2]
  BY DEF Turn
<1>3. QED
  BY <1>1, <1>2 DEF Pending, loadMigrations, StageOK, FilesOK, Running

\* Leaving the stage is what it is: the process stands at files already.
LEMMA StaysAtFiles ==
  ASSUME MigInv, NEW p \in Procs, NEW past, procs[p].at = "files"
  PROVE  [procs[p] EXCEPT !.past = past] = [procs[p] EXCEPT !.at = "files", !.past = past]
  BY ProcFacts DEF IsProc, ProcFields

LEMMA SkipStep ==
  ASSUME MigInv, NEW p \in Procs, NEW key, Skip(p, key)
  PROVE  MigInv'
<1> DEFINE o == procs[p]
<1>1. /\ Turn(p, key) /\ Has(p, key) /\ o.rows[key].applied /\ UNCHANGED schema /\ server' = server /\ migLock' = migLock
      /\ index' = index /\ procs' = [procs EXCEPT ![p] = [procs[p] EXCEPT !.past = key[2]]]
  BY DEF Skip, Becomes
<1>2. o.at = "files" /\ RowsOK(o)
  BY <1>1, TurnFacts, ProcFacts DEF ProcOK
<1>a. PICK files : files = o.files
  OBVIOUS
<1>3. UpToDate(key, files)
  BY <1>1, <1>2, <1>a DEF RowsOK, Has, UpToDate, Running
<1>4. UpToDate(key, files)'
  <2>1. ledger' = ledger /\ marked' = marked /\ (Locking' <=> Locking)
    BY <1>1 DEF schema, Locking
  <2>2. QED
    BY <1>3, <2>1 DEF UpToDate
<1>5. Civil(p)
  BY <1>1, QuietKeeps DEF Civil
<1>6. procs' = [procs EXCEPT ![p] = [procs[p] EXCEPT !.at = "files", !.past = key[2]]]
  BY <1>1, <1>2, StaysAtFiles
<1>7. ledger' = ledger
  BY <1>1 DEF schema
<1>8. ProcOK(p)' /\ IsProc([procs[p] EXCEPT !.at = "files", !.past = key[2]])
  BY <1>a, <1>1, <1>2, <1>4, <1>5, <1>6, <1>7, TurnFacts, Advances
<1>9. QED
  BY <1>1, <1>2, <1>5, <1>6, <1>8, SameSchema

LEMMA AppliedStep ==
  ASSUME MigInv, NEW p \in Procs, Applied(p)
  PROVE  MigInv'
<1> DEFINE o == procs[p]
<1>1. /\ o.at = "files" /\ Pending(p) = {} /\ Done(p) /\ UNCHANGED schema /\ server' = server /\ index' = index
      /\ migLock' = IF migLock = p THEN NoProc ELSE migLock
  BY DEF Applied, Unlocks
<1>2. StageOK(o) /\ PastOK(o)
  BY ProcFacts DEF ProcOK
<1>3. o.mode \in {"versioned", "up"} /\ o.past \in Int /\ DOMAIN o.files \subseteq MigKeys
  BY <1>1, <1>2 DEF StageOK, FilesOK, Running
<1>4. \A key \in loadMigrations(o.files, Head(o.todo)) : key[2] <= o.past
  <2>1. \A key \in loadMigrations(o.files, Head(o.todo)) : ~ (key[2] > o.past) /\ key[2] \in Nat
    BY <1>1, <1>3 DEF Pending, loadMigrations, MigKeys
  <2>2. QED
    BY <2>1, <1>3
<1>5. \A key \in loadMigrations(o.files, Head(o.todo)) : UpToDate(key, o.files)
  BY <1>1, <1>2, <1>4 DEF PastOK, Running
<1>6. Civil(p)
  BY <1>1, QuietKeeps DEF Civil
<1>7. QED
  BY <1>1, <1>3, <1>5, <1>6, DoneStep

LEMMA ApplyInTxStep ==
  ASSUME MigInv, NEW p \in Procs, NEW key, applyInTx(p, key)
  PROVE  MigInv'
<1> DEFINE o == procs[p]
           row == Row(TRUE, Len(o.files[key]), o.files[key])
<1>1. /\ server # "mysql" /\ Unapplied(p, key) /\ server' = server /\ migLock' = migLock /\ index' = index
      /\ marked' = marked /\ doubted' = doubted
      /\ procs' = [procs EXCEPT ![p] = [procs[p] EXCEPT !.past = key[2]]]
  BY DEF applyInTx, Becomes, Transactional
<1>2. Turn(p, key) /\ ~ (Has(p, key) /\ o.rows[key].applied)
  BY <1>1 DEF Unapplied
<1>3. /\ o.at = "files" /\ key \in DOMAIN o.files /\ key \in MigKeys /\ key[1] = Head(o.todo) /\ key[2] > o.past
      /\ o.mode \in {"versioned", "up"}
      /\ \A other \in loadMigrations(o.files, Head(o.todo)) : other[2] > o.past => key[2] <= other[2]
  BY <1>2, TurnFacts
<1>4. ProcOK(p) /\ StageOK(o) /\ AgreeOK(o) /\ HoldsLock(p)
  BY ProcFacts DEF ProcOK
<1>5. PICK files : files = o.files
  OBVIOUS
<1>6. procs' = [procs EXCEPT ![p] = [procs[p] EXCEPT !.at = "files", !.past = key[2]]]
  BY <1>1, <1>3, StaysAtFiles
<1>7. Locking' <=> Locking
  BY <1>1 DEF Locking
<1>8. CASE key \in DOMAIN ledger
  <2>1. ledger' = ledger /\ ran' = ran
    BY <1>8 DEF applyInTx
  <2>2. UNCHANGED schema
    BY <2>1, <1>1 DEF schema
  <2>3. ledger[key].applied
    BY <1>1, <1>8 DEF MigInv, LedgerOK, RowOK
  <2>4. ~ Locking
    BY <1>2, <1>3, <1>4, <1>8, <2>3 DEF AgreeOK, Has, Running
  <2>5. UpToDate(key, files)'
    BY <1>7, <1>8, <2>1, <2>3, <2>4 DEF UpToDate
  <2>6. Civil(p)
    BY <1>1, <2>2, QuietKeeps DEF Civil
  <2>7. ProcOK(p)' /\ IsProc([procs[p] EXCEPT !.at = "files", !.past = key[2]])
    BY <1>1, <1>3, <1>5, <1>6, <2>1, <2>5, <2>6, Advances
  <2>8. QED
    BY <1>3, <1>6, <2>2, <2>6, <2>7, SameSchema
<1>9. CASE key \notin DOMAIN ledger
  <2>1. ran' = Written(ran, key, o.files[key]) /\ ledger' = Written(ledger, key, row)
    BY <1>9 DEF applyInTx
  <2>4. row.applied = TRUE /\ row.sum = o.files[key] /\ row.statements \in Nat /\ row.sum \in Seq(STRING)
    <3>1. o.files[key] \in Seq(STRING)
      BY <1>3, <1>4 DEF StageOK, FilesOK
    <3>2. QED
      BY <3>1, LenProperties DEF Row
  <2> HIDE DEF row
  <2>2. /\ DOMAIN ledger' = DOMAIN ledger \cup {key} /\ ledger'[key] = row
        /\ \A k \in DOMAIN ledger : ledger'[k] = ledger[k]
    <3>1. /\ DOMAIN ledger' = DOMAIN ledger \cup {key} /\ ledger'[key] = row
          /\ \A k \in DOMAIN ledger : k # key => ledger'[k] = ledger[k]
      BY <2>1 DEF Written
    <3>2. QED
      BY <1>9, <3>1
  <2>3. /\ DOMAIN ran' = DOMAIN ran \cup {key} /\ ran'[key] = o.files[key]
        /\ \A k \in DOMAIN ran : k # key => ran'[k] = ran[k]
    BY <2>1 DEF Written
  <2>5. KeepsRows
    BY <1>1, <2>2 DEF KeepsRows
  <2>6. Locking => migLock = p
    BY <1>3, <1>4 DEF HoldsLock, Running
  <2>7. Civil(p)
    BY <1>1, <2>5, <2>6 DEF Civil
  <2>8. UpToDate(key, files)'
    BY <1>5, <2>2, <2>4 DEF UpToDate
  <2>9. ProcOK(p)' /\ IsProc([procs[p] EXCEPT !.at = "files", !.past = key[2]])
    BY <1>1, <1>3, <1>5, <1>6, <2>2, <2>7, <2>8, Advances
  <2>10. LedgerOK'
    <3>1. \A k \in DOMAIN ledger : RowOK(ledger[k], k) /\ k \in MigKeys
      BY DEF MigInv, LedgerOK
    <3>2. ASSUME NEW k \in DOMAIN ledger' PROVE k \in MigKeys /\ RowOK(ledger[k], k)'
      <4>1. CASE k = key
        BY <4>1, <1>3, <2>2, <2>4 DEF RowOK
      <4>2. CASE k # key
        BY <4>2, <3>1, <1>1, <2>2, <2>3 DEF RowOK
      <4>3. QED
        BY <4>1, <4>2
    <3>3. QED
      BY <3>2 DEF LedgerOK
  <2>11. LedgerIsTrue'
    <3>1. \A q \in Procs : procs[q].at # "record"
      BY <1>1 DEF MigInv, ProcOK, HoldsLock
    <3>2. ASSUME NEW k \in DOMAIN ran' \ (marked \cup doubted)
          PROVE  k \in DOMAIN ledger' /\ ran'[k] = ledger'[k].sum
      <4>1. CASE k = key
        BY <4>1, <2>2, <2>3, <2>4
      <4>2. CASE k # key
        <5>1. k \in DOMAIN ran \ (marked \cup doubted)
          BY <4>2, <2>3, <3>2
        <5>2. k \in DOMAIN ledger /\ ran[k] = ledger[k].sum
          BY <5>1, <3>1 DEF MigInv, LedgerIsTrue
        <5>3. QED
          BY <4>2, <5>1, <5>2, <2>2, <2>3
      <4>3. QED
        BY <4>1, <4>2
    <3>3. QED
      BY <3>2, <1>1 DEF LedgerIsTrue
  <2>12. QED
    BY <1>6, <2>7, <2>9, <2>10, <2>11, MigStep
<1>10. QED
  BY <1>8, <1>9

LEMMA ByStatementStep ==
  ASSUME MigInv, NEW p \in Procs, NEW key, applyByStatement(p, key)
  PROVE  MigInv'
<1> DEFINE o == procs[p]
           next == IF Has(p, key) THEN o.rows[key].statements + 1 ELSE 1
           r == [procs[p] EXCEPT !.at = "statement", !.key = key, !.has = Has(p, key), !.next = next]
<1>1. /\ server = "mysql" /\ Unapplied(p, key) /\ server' = server /\ migLock' = migLock /\ index' = index /\ UNCHANGED schema
      /\ procs' = [procs EXCEPT ![p] = r] /\ (Has(p, key) => resumes(o.rows[key], o.files[key]))
  <2>1. server = "mysql"
    BY DEF applyByStatement, Transactional
  <2>2. QED
    BY <2>1 DEF applyByStatement, Becomes
<1>2. Turn(p, key) /\ ~ (Has(p, key) /\ o.rows[key].applied) /\ ~ Older(p, key)
  BY <1>1 DEF Unapplied
<1>3. /\ o.at = "files" /\ key \in DOMAIN o.files /\ key \in MigKeys /\ key[1] = Head(o.todo) /\ key[2] > o.past
      /\ o.mode \in {"versioned", "up"}
      /\ \A other \in loadMigrations(o.files, Head(o.todo)) : other[2] > o.past => key[2] <= other[2]
  BY <1>2, TurnFacts
<1>4. IsProc(o) /\ ProcOK(p)
  BY ProcFacts
<1>5. /\ IsProc(r) /\ r.at = "statement" /\ r.mode = o.mode /\ r.files = o.files /\ r.rows = o.rows
      /\ r.declares = o.declares /\ r.todo = o.todo /\ r.past = o.past
  BY <1>4 DEF IsProc, ProcFields
<1>6. r.key = key /\ r.has = Has(p, key) /\ r.next = next
  BY <1>4 DEF IsProc, ProcFields
<1>7. procs'[p] = r
  BY <1>1, ProcFacts
<1> HIDE DEF r
<1>8. /\ StageOK(o) /\ HoldsLock(p) /\ RowsOK(o) /\ AgreeOK(o) /\ PastOK(o) /\ AppOK(o)
  BY <1>4 DEF ProcOK
<1>9. ledger' = ledger /\ ran' = ran /\ marked' = marked /\ doubted' = doubted /\ Locking /\ Locking'
  BY <1>1 DEF schema, Locking
<1>10. Civil(p)
  BY <1>1, QuietKeeps DEF Civil
<1>11. StageOK(procs[p])'
  BY <1>3, <1>5, <1>7, <1>8 DEF StageOK, Running
<1>12. KeyOK(procs[p])'
  BY <1>3, <1>5, <1>6, <1>7 DEF KeyOK
<1>13. HoldsLock(p)'
  BY <1>1, <1>3, <1>5, <1>7, <1>8, <1>9 DEF HoldsLock, Running
<1>14. RowsOK(procs[p])' /\ AutoOK(procs[p])'
  BY <1>3, <1>5, <1>7, <1>8, <1>9 DEF RowsOK, AutoOK, Running
<1>15. AgreeOK(procs[p])'
  BY <1>3, <1>5, <1>7, <1>8, <1>9 DEF AgreeOK, Running
<1>16. PastOK(procs[p])' /\ AppOK(procs[p])'
  BY <1>3, <1>5, <1>7, <1>8, <1>9 DEF PastOK, AppOK, Running, UpToDate
<1>17. Has(p, key) <=> key \in DOMAIN ledger
  BY <1>3, <1>8, <1>9 DEF Has, RowsOK, AgreeOK, Running
<1>18. Has(p, key) => o.rows[key] = ledger[key] /\ ~ ledger[key].applied /\ ledger[key].statements \in Nat
  <2>1. key \in DOMAIN ledger => o.rows[key] = ledger[key]
    BY <1>3, <1>8, <1>9 DEF AgreeOK, Running
  <2>2. key \in DOMAIN ledger => ledger[key].statements \in Nat
    BY DEF MigInv, LedgerOK, RowOK
  <2>3. QED
    BY <2>1, <2>2, <1>2, <1>17
<1>19. ASSUME ~ Has(p, key), NEW other \in DOMAIN ledger, other[1] = key[1], ledger[other].applied
       PROVE  other[2] <= key[2]
  <2>1. other \in MigKeys /\ other[2] \in Nat /\ key[2] \in Nat /\ o.past \in Int
    BY <1>3, <1>8 DEF MigInv, LedgerOK, MigKeys, StageOK
  <2>2. CASE other[2] > o.past
    <3>1. other \in DOMAIN o.rows /\ o.rows[other] = ledger[other]
      BY <1>3, <1>8, <1>9, <1>19, <2>2 DEF AgreeOK, Running
    <3>2. other \in DOMAIN o.files
      BY <3>1, <1>3, <1>8 DEF RowsOK, Running
    <3>3. status(o.files, o.rows, other) \in {"applied", "drifted"}
      BY <3>1, <3>2, <1>19 DEF status
    <3>4. other[2] \in newest(o.files, o.rows)
      BY <3>1, <3>3 DEF newest
    <3>5. ~ (key[2] < other[2])
      BY <1>2, <1>19, <3>4 DEF Older
    <3>6. QED
      BY <3>5, <2>1
  <2>3. CASE other[2] <= o.past
    BY <2>1, <2>3, <1>3
  <2>4. QED
    BY <2>1, <2>2, <2>3
<1>20. StatementOK(procs[p])'
  <2> DEFINE stmts == o.files[key]
  <2>1. stmts \in Seq(STRING) /\ stmts # <<>>
    BY <1>3, <1>8 DEF StageOK, FilesOK
  <2>2. Len(stmts) \in Nat /\ Len(stmts) >= 1
    BY <2>1, EmptySeq, LenProperties
  <2>3. next \in Nat \ {0} /\ next <= Len(stmts) + 1
    <3>1. CASE Has(p, key)
      <4>1. next = ledger[key].statements + 1 /\ ledger[key].statements <= Len(stmts) /\ ledger[key].statements \in Nat
        BY <3>1, <1>1, <1>18 DEF resumes
      <4>2. QED
        BY <4>1, <2>2
    <3>2. CASE ~ Has(p, key)
      <4>1. next = 1
        BY <3>2
      <4>2. QED
        BY <4>1, <2>2
    <3>3. QED
      BY <3>1, <3>2
  <2>4. Has(p, key) => ledger[key].sum = prefixSum(stmts, next - 1)
    <3>1. ASSUME Has(p, key) PROVE next - 1 = ledger[key].statements
      BY <3>1, <1>18
    <3>2. QED
      BY <3>1, <1>1, <1>18 DEF resumes
  <2>5. ~ Has(p, key) => next = 1
    OBVIOUS
  <2>6. Has(p, key) \in BOOLEAN
    BY DEF Has
  <2> HIDE DEF next
  <2>7. QED
    BY <1>5, <1>6, <1>7, <1>9, <1>17, <1>18, <1>19, <2>3, <2>4, <2>5, <2>6 DEF StatementOK
<1>21. ProcOK(p)'
  BY <1>11, <1>12, <1>13, <1>14, <1>15, <1>16, <1>20 DEF ProcOK
<1>22. QED
  BY <1>1, <1>3, <1>5, <1>10, <1>21, SameSchema

-----------------------------------------------------------------------------
(* A file run by statement.                                                *)

\* Who runs one has the lock, and no other process is between a statement and its record.
LEMMA ByStatement ==
  ASSUME MigInv, NEW p \in Procs, procs[p].at \in {"statement", "record"}
  PROVE  /\ server = "mysql" /\ Locking /\ migLock = p
         /\ \A q \in Procs : procs[q].at = "record" => q = p
         /\ procs[p].key \in DOMAIN procs[p].files /\ procs[p].key \in MigKeys /\ procs[p].mode \in {"versioned", "up"}
         /\ procs[p].files[procs[p].key] \in Seq(STRING) /\ Len(procs[p].files[procs[p].key]) \in Nat \ {0}
<1>1. ProcOK(p) /\ \A q \in Procs : HoldsLock(q)
  BY DEF MigInv, ProcOK
<1>2. server = "mysql" /\ Locking
  BY <1>1 DEF HoldsLock, Locking
<1>3. migLock = p /\ \A q \in Procs : procs[q].at = "record" => migLock = q
  BY <1>1, <1>2 DEF HoldsLock, Running
<1>4. procs[p].key \in DOMAIN procs[p].files /\ FilesOK(procs[p].files) /\ procs[p].mode \in {"versioned", "up"}
  BY <1>1 DEF ProcOK, KeyOK, StageOK, Running
<1>5. procs[p].key \in MigKeys /\ procs[p].files[procs[p].key] \in Seq(STRING) /\ procs[p].files[procs[p].key] # <<>>
  BY <1>4 DEF FilesOK
<1>6. QED
  BY <1>2, <1>3, <1>4, <1>5, EmptySeq, LenProperties

\* What the process wrote, while it stays with the file: nothing else of what it knows is disturbed.
LEMMA StaysWithFile ==
  ASSUME MigInv, NEW p \in Procs, procs[p].at \in {"statement", "record"}, Civil(p), migLock' = migLock, marked' = marked,
         NEW r, IsProc(r), procs' = [procs EXCEPT ![p] = r], r.at \in {"statement", "record"}, r.key = procs[p].key,
         r.mode = procs[p].mode, r.files = procs[p].files, r.rows = procs[p].rows, r.declares = procs[p].declares,
         r.todo = procs[p].todo, r.past = procs[p].past,
         \A k \in DOMAIN ledger' : k # r.key => k \in DOMAIN ledger /\ ledger'[k] = ledger[k],
         StatementOK(procs[p])'
  PROVE  ProcOK(p)'
<1> DEFINE o == procs[p]
<1>1. ProcOK(p) /\ procs'[p] = r /\ o.at \in Running /\ r.at \in Running /\ o.mode \in {"versioned", "up"}
  BY ProcFacts, ByStatement DEF Running
<1>2. server' = server /\ (Locking' <=> Locking) /\ KeepsRows
  BY DEF Civil, Locking
<1>3. StageOK(procs[p])' /\ KeyOK(procs[p])'
  <2>1. StageOK(r) /\ KeyOK(r)
    BY <1>1 DEF ProcOK, StageOK, KeyOK, Running
  <2>2. QED
    BY <1>1, <2>1 DEF KeyOK
<1>4. HoldsLock(p)'
  BY <1>1, <1>2, ByStatement DEF HoldsLock
<1>5. \A k, f : UpToDate(k, f) => UpToDate(k, f)'
  BY <1>2 DEF UpToDate, KeepsRows
<1>6. RowsOK(procs[p])'
  BY <1>1, <1>2 DEF ProcOK, RowsOK, KeepsRows
<1>7. AgreeOK(procs[p])'
  BY <1>1, <1>2 DEF ProcOK, AgreeOK
<1>8. PastOK(procs[p])' /\ AppOK(procs[p])' /\ AutoOK(procs[p])'
  BY <1>1, <1>5 DEF ProcOK, PastOK, AppOK, AutoOK
<1>9. QED
  BY <1>3, <1>4, <1>6, <1>7, <1>8 DEF ProcOK

LEMMA ExecStep ==
  ASSUME MigInv, NEW p \in Procs, Exec(p)
  PROVE  MigInv'
<1> DEFINE o == procs[p]
           r == [procs[p] EXCEPT !.at = "record"]
<1>0. PICK key, stmts, next : key = o.key /\ stmts = o.files[key] /\ next = o.next
  OBVIOUS
<1>1. /\ o.at = "statement" /\ next <= Len(stmts) /\ procs' = [procs EXCEPT ![p] = r]
      /\ ran' = Written(ran, key, (IF key \in DOMAIN ran THEN ran[key] ELSE <<>>) \o <<stmts[next]>>)
      /\ server' = server /\ ledger' = ledger /\ migLock' = migLock /\ index' = index /\ marked' = marked /\ doubted' = doubted
  BY <1>0 DEF Exec, At, Becomes
<1>2. /\ IsProc(r) /\ r.at = "record" /\ r.mode = o.mode /\ r.files = o.files /\ r.rows = o.rows /\ r.has = o.has
      /\ r.declares = o.declares /\ r.todo = o.todo /\ r.past = o.past /\ r.key = o.key /\ r.next = o.next
  BY ProcFacts DEF IsProc, ProcFields
<1>3. procs'[p] = r /\ ProcOK(p)
  BY <1>1, ProcFacts
<1> HIDE DEF r
<1>4. /\ server = "mysql" /\ Locking /\ migLock = p /\ key \in MigKeys
      /\ \A q \in Procs : procs[q].at # "record"
      /\ stmts \in Seq(STRING) /\ Len(stmts) \in Nat \ {0}
  <2>1. o.at \in {"statement", "record"}
    BY <1>1
  <2>2. QED
    BY <2>1, <1>0, <1>1, ByStatement
<1>5. StatementOK(o)
  BY <1>3 DEF ProcOK
<1>6. next \in 1..Len(stmts)
  BY <1>0, <1>1, <1>4, <1>5 DEF StatementOK
<1>7. /\ DOMAIN ran' = DOMAIN ran \cup {key} /\ \A k \in DOMAIN ran : k # key => ran'[k] = ran[k]
      /\ ran'[key] = (IF key \in DOMAIN ran THEN ran[key] ELSE <<>>) \o <<stmts[next]>>
  BY <1>1 DEF Written
<1>8. ASSUME key \notin marked \cup doubted
      PROVE  ran'[key] = prefixSum(stmts, next)
  <2>1. (IF key \in DOMAIN ran THEN ran[key] ELSE <<>>) = prefixSum(stmts, next - 1)
    <3>1. key \in DOMAIN ran => key \in DOMAIN ledger /\ ran[key] = ledger[key].sum
      BY <1>4, <1>8 DEF MigInv, LedgerIsTrue
    <3>2. CASE o.has
      <4>1. key \in DOMAIN ledger /\ ~ ledger[key].applied /\ ledger[key].sum = prefixSum(stmts, next - 1)
        BY <1>0, <1>1, <1>5, <3>2 DEF StatementOK
      <4>2. key \in DOMAIN ran
        BY <4>1 DEF MigInv, LedgerOK, RowOK
      <4>3. QED
        BY <3>1, <4>1, <4>2
    <3>3. CASE ~ o.has
      <4>1. key \notin DOMAIN ledger /\ next = 1
        BY <1>0, <1>1, <1>5, <3>3 DEF StatementOK
      <4>2. next - 1 = 0 /\ key \notin DOMAIN ran
        BY <4>1, <3>1
      <4>3. QED
        BY <4>2, <1>4, PrefixSums
    <3>4. QED
      BY <3>2, <3>3
  <2>2. prefixSum(stmts, next) = prefixSum(stmts, next - 1) \o <<stmts[next]>>
    BY <1>4, <1>6, PrefixSums
  <2>3. QED
    BY <1>7, <2>1, <2>2
<1>9. StatementOK(procs[p])'
  <2>1. key \in DOMAIN ran'
    BY <1>7
  <2>2. QED
    BY <1>0, <1>1, <1>2, <1>3, <1>4, <1>5, <1>6, <1>8, <2>1, ZenonT(60) DEF StatementOK
<1>10. KeepsRows
  BY <1>1 DEF KeepsRows
<1>11. Civil(p)
  BY <1>1, <1>4, <1>10 DEF Civil
<1>12. ProcOK(p)'
  <2>1. o.at \in {"statement", "record"} /\ r.at \in {"statement", "record"}
    BY <1>1, <1>2
  <2>2. QED
    BY <1>1, <1>2, <1>9, <1>11, <2>1, StaysWithFile
<1>13. LedgerOK'
  BY <1>1, <1>7 DEF MigInv, LedgerOK, RowOK
<1>14. LedgerIsTrue'
  <2>1. ASSUME NEW k \in DOMAIN ran' \ (marked \cup doubted)
        PROVE  \/ k \in DOMAIN ledger /\ ran'[k] = ledger[k].sum
               \/ \E q \in Procs : /\ procs'[q].at = "record" /\ procs'[q].key = k
                                   /\ ran'[k] = prefixSum(procs'[q].files[k], procs'[q].next)
    <3>1. CASE k = key
      <4>1. ran'[k] = prefixSum(stmts, next)
        BY <3>1, <1>8
      <4>2. procs'[p].at = "record" /\ procs'[p].key = k /\ procs'[p].files[k] = stmts /\ procs'[p].next = next
        BY <3>1, <1>0, <1>2, <1>3
      <4>3. QED
        BY <4>1, <4>2
    <3>2. CASE k # key
      <4>1. k \in DOMAIN ran \ (marked \cup doubted) /\ ran'[k] = ran[k]
        BY <3>2, <1>7
      <4>2. QED
        BY <4>1, <1>4 DEF MigInv, LedgerIsTrue
    <3>3. QED
      BY <3>1, <3>2
  <2>2. QED
    BY <2>1, <1>1 DEF LedgerIsTrue
<1>15. QED
  BY <1>1, <1>2, <1>11, <1>12, <1>13, <1>14, MigStep

\* A row written while no statement runs: the others' rows stay, and it is a row.
LEMMA LedgerWrites ==
  ASSUME MigInv, NEW key \in MigKeys, NEW row, ledger' = Written(ledger, key, row), ran' = ran, server' = server, RowOK(row, key)
  PROVE  /\ LedgerOK'
         /\ DOMAIN ledger' = DOMAIN ledger \cup {key} /\ ledger'[key] = row
         /\ \A k \in DOMAIN ledger' : k # key => k \in DOMAIN ledger /\ ledger'[k] = ledger[k]
<1>1. /\ DOMAIN ledger' = DOMAIN ledger \cup {key} /\ ledger'[key] = row
      /\ \A k \in DOMAIN ledger' : k # key => k \in DOMAIN ledger /\ ledger'[k] = ledger[k]
  BY DEF Written
<1>2. \A k \in DOMAIN ledger : k \in MigKeys /\ RowOK(ledger[k], k)
  BY DEF MigInv, LedgerOK
<1>3. LedgerOK'
  BY <1>1, <1>2 DEF LedgerOK, RowOK
<1>4. QED
  BY <1>1, <1>3

LEMMA RecordStep ==
  ASSUME MigInv, NEW p \in Procs, Record(p)
  PROVE  MigInv'
<1> DEFINE o == procs[p]
           r == [procs[p] EXCEPT !.at = "statement", !.next = procs[p].next + 1, !.has = TRUE]
<1>0. PICK key, stmts, n : key = o.key /\ stmts = o.files[key] /\ n = o.next
  OBVIOUS
<1> DEFINE row == Row(FALSE, n, prefixSum(stmts, n))
<1>1. /\ o.at = "record" /\ procs' = [procs EXCEPT ![p] = r] /\ ledger' = Written(ledger, key, row)
      /\ server' = server /\ ran' = ran /\ migLock' = migLock /\ index' = index /\ marked' = marked /\ doubted' = doubted
  BY <1>0 DEF Record, Becomes
<1>2. IsProc(o)
  BY ProcFacts
<1>3. /\ IsProc(r) /\ r.at = "statement" /\ r.mode = o.mode /\ r.files = o.files /\ r.rows = o.rows /\ r.has = TRUE
      /\ r.declares = o.declares /\ r.todo = o.todo /\ r.past = o.past /\ r.key = o.key /\ r.next = o.next + 1
  BY <1>2 DEF IsProc, ProcFields
<1>4. procs'[p] = r /\ ProcOK(p)
  BY <1>1, ProcFacts
<1> HIDE DEF r
<1>5. /\ server = "mysql" /\ Locking /\ migLock = p /\ key \in MigKeys
      /\ \A q \in Procs : procs[q].at = "record" => q = p
      /\ stmts \in Seq(STRING) /\ Len(stmts) \in Nat \ {0}
  <2>1. o.at \in {"statement", "record"}
    BY <1>1
  <2>2. QED
    BY <2>1, <1>0, ByStatement
<1>6. StatementOK(o)
  BY <1>4 DEF ProcOK
<1>7. n \in 1..Len(stmts) /\ n \in 0..Len(stmts) /\ (key \in DOMAIN ledger => ~ ledger[key].applied) /\ key \in DOMAIN ran
      /\ (key \notin marked \cup doubted => ran[key] = prefixSum(stmts, n))
  BY <1>0, <1>1, <1>5, <1>6 DEF StatementOK
<1>8. row.applied = FALSE /\ row.statements = n /\ row.sum = prefixSum(stmts, n)
  BY DEF Row
<1> HIDE DEF row
<1>9. RowOK(row, key)
  <2>1. prefixSum(stmts, n) \in Seq(STRING)
    BY <1>5, <1>7, PrefixSums
  <2>2. QED
    <3>1. n \in Nat
      BY <1>5, <1>7
    <3>2. row.applied \in BOOLEAN
      BY <1>8, Zenon
    <3>3. QED
      BY <3>1, <3>2, <1>5, <1>7, <1>8, <2>1 DEF RowOK
<1>10. /\ LedgerOK' /\ DOMAIN ledger' = DOMAIN ledger \cup {key} /\ ledger'[key] = row
       /\ \A k \in DOMAIN ledger' : k # key => k \in DOMAIN ledger /\ ledger'[k] = ledger[k]
  BY <1>1, <1>5, <1>9, LedgerWrites
<1>11. KeepsRows
  BY <1>1, <1>7, <1>10 DEF KeepsRows
<1>12. Civil(p)
  BY <1>1, <1>5, <1>11 DEF Civil
<1>13. StatementOK(procs[p])'
  <2>1. r.next \in Nat \ {0} /\ r.next <= Len(stmts) + 1 /\ r.next - 1 = n
    BY <1>0, <1>3, <1>5, <1>7
  <2>2. QED
    BY <2>1, <1>0, <1>3, <1>4, <1>8, <1>10 DEF StatementOK
<1>14. ProcOK(p)'
  <2>1. o.at \in {"statement", "record"} /\ r.at \in {"statement", "record"}
    BY <1>1, <1>3
  <2>2. QED
    BY <1>0, <1>1, <1>3, <1>10, <1>12, <1>13, <2>1, StaysWithFile
<1>15. LedgerIsTrue'
  <2>1. ASSUME NEW k \in DOMAIN ran \ (marked \cup doubted)
        PROVE  k \in DOMAIN ledger' /\ ran[k] = ledger'[k].sum
    <3>1. CASE k = key
      BY <3>1, <1>7, <1>8, <1>10
    <3>2. CASE k # key
      <4>1. k \in DOMAIN ledger /\ ran[k] = ledger[k].sum
        BY <3>2, <1>0, <1>5 DEF MigInv, LedgerIsTrue
      <4>2. QED
        BY <3>2, <4>1, <1>10
    <3>3. QED
      BY <3>1, <3>2
  <2>2. QED
    BY <2>1, <1>1 DEF LedgerIsTrue
<1>16. QED
  BY <1>1, <1>3, <1>10, <1>12, <1>14, <1>15, MigStep

LEMMA FileDoneStep ==
  ASSUME MigInv, NEW p \in Procs, FileDone(p)
  PROVE  MigInv'
<1> DEFINE o == procs[p]
<1>0. PICK key, files, stmts : key = o.key /\ files = o.files /\ stmts = o.files[key]
  OBVIOUS
<1> DEFINE row == Row(TRUE, Len(stmts), stmts)
<1>1. /\ o.at = "statement" /\ o.next > Len(stmts) /\ ledger' = Written(ledger, key, row)
      /\ procs' = [procs EXCEPT ![p] = [procs[p] EXCEPT !.at = "files", !.past = key[2]]]
      /\ server' = server /\ ran' = ran /\ migLock' = migLock /\ index' = index /\ marked' = marked /\ doubted' = doubted
  BY <1>0 DEF FileDone, Becomes
<1>2. ProcOK(p)
  BY ProcFacts
<1>3. /\ server = "mysql" /\ Locking /\ migLock = p /\ key \in MigKeys /\ key \in DOMAIN o.files
      /\ \A q \in Procs : procs[q].at # "record"
      /\ stmts \in Seq(STRING) /\ Len(stmts) \in Nat \ {0}
  <2>1. o.at \in {"statement", "record"}
    BY <1>1
  <2>2. QED
    BY <2>1, <1>0, <1>1, ByStatement
<1>4. StatementOK(o) /\ KeyOK(o)
  BY <1>2 DEF ProcOK
<1>5. /\ o.next - 1 = Len(stmts) /\ key \in DOMAIN ledger /\ ~ ledger[key].applied
      /\ ledger[key].sum = prefixSum(stmts, o.next - 1)
  BY <1>0, <1>1, <1>3, <1>4 DEF StatementOK
<1>6. ledger[key].sum = stmts
  <2>1. prefixSum(stmts, Len(stmts)) = stmts
    BY <1>3, PrefixSums
  <2>2. QED
    BY <2>1, <1>5
<1>7. row.applied = TRUE /\ row.statements = Len(stmts) /\ row.sum = stmts
  BY DEF Row
<1> HIDE DEF row
<1>8. RowOK(row, key)
  BY <1>3, <1>7 DEF RowOK
<1>9. /\ LedgerOK' /\ DOMAIN ledger' = DOMAIN ledger \cup {key} /\ ledger'[key] = row
      /\ \A k \in DOMAIN ledger' : k # key => k \in DOMAIN ledger /\ ledger'[k] = ledger[k]
  BY <1>1, <1>3, <1>8, LedgerWrites
<1>10. KeepsRows
  BY <1>1, <1>5, <1>9 DEF KeepsRows
<1>11. Civil(p)
  BY <1>1, <1>3, <1>10 DEF Civil
<1>12. UpToDate(key, files)'
  BY <1>0, <1>7, <1>9 DEF UpToDate
<1>13. ProcOK(p)' /\ IsProc([procs[p] EXCEPT !.at = "files", !.past = key[2]])
  <2>1. o.at \in {"files", "statement"}
    BY <1>1
  <2>2. /\ key[1] = Head(o.todo) /\ key[2] > o.past
        /\ \A other \in loadMigrations(o.files, Head(o.todo)) : other[2] > o.past => key[2] <= other[2]
    BY <1>0, <1>1, <1>4 DEF KeyOK
  <2>3. QED
    BY <2>1, <2>2, <1>0, <1>1, <1>3, <1>9, <1>11, <1>12, Advances
<1>14. LedgerIsTrue'
  <2>1. ASSUME NEW k \in DOMAIN ran \ (marked \cup doubted)
        PROVE  k \in DOMAIN ledger' /\ ran[k] = ledger'[k].sum
    <3>1. k \in DOMAIN ledger /\ ran[k] = ledger[k].sum
      BY <1>3 DEF MigInv, LedgerIsTrue
    <3>2. QED
      BY <3>1, <1>6, <1>7, <1>9
  <2>2. QED
    BY <2>1, <1>1 DEF LedgerIsTrue
<1>15. QED
  BY <1>1, <1>9, <1>11, <1>13, <1>14, MigStep

-----------------------------------------------------------------------------
(* A process that stops, and mark-applied.                                 *)

LEMMA StopsStep ==
  ASSUME MigInv, NEW p \in Procs, Stops(p)
  PROVE  MigInv'
<1> DEFINE o == procs[p]
<1>1. /\ procs' = [procs EXCEPT ![p] = Idle] /\ migLock' = (IF migLock = p THEN NoProc ELSE migLock)
      /\ doubted' = (IF o.at = "record" THEN doubted \cup {o.key} ELSE doubted)
      /\ server' = server /\ ledger' = ledger /\ ran' = ran /\ index' = index /\ marked' = marked
  BY DEF Stops, Becomes, Unlocks
<1>2. ProcOK(p)'
  BY <1>1, ProcFacts, IdleOK
<1>3. KeepsRows
  BY <1>1 DEF KeepsRows
<1>4. CASE o.at # "record"
  <2>1. UNCHANGED schema
    BY <1>1, <1>4 DEF schema
  <2>2. Civil(p)
    BY <1>1, <1>3, <2>1 DEF Civil
  <2>3. QED
    BY <1>1, <1>2, <1>4, <2>1, <2>2, IdleFacts, SameSchema
<1>5. CASE o.at = "record"
  <2>1. o.at \in {"statement", "record"}
    BY <1>5
  <2>2. migLock = p /\ \A q \in Procs : procs[q].at = "record" => q = p
    BY <2>1, ByStatement
  <2>3. Civil(p)
    BY <1>1, <1>3, <2>2 DEF Civil
  <2>4. LedgerOK'
    BY <1>1 DEF MigInv, LedgerOK, RowOK
  <2>5. LedgerIsTrue'
    <3>1. \A k \in DOMAIN ran \ (marked \cup doubted') : k \in DOMAIN ledger /\ ran[k] = ledger[k].sum
      BY <1>1, <1>5, <2>2 DEF MigInv, LedgerIsTrue
    <3>2. QED
      BY <3>1, <1>1 DEF LedgerIsTrue
  <2>6. QED
    BY <1>1, <1>2, <2>3, <2>4, <2>5, IdleFacts, MigStep
<1>6. QED
  BY <1>4, <1>5

\* An operator's mark: the row is the file's, and the migration is marked.
Marks(p, key, stmts, row) ==
  /\ procs[p].at \in {"marks", "insert"} /\ key \in DOMAIN procs[p].files /\ stmts = procs[p].files[key]
  /\ row.applied = TRUE /\ row.statements = Len(stmts) /\ row.sum = stmts
  /\ ledger' = Written(ledger, key, row) /\ marked' = marked \cup {key} /\ Becomes(p, Idle) /\ Unlocks(p)
  /\ server' = server /\ ran' = ran /\ index' = index /\ doubted' = doubted

LEMMA MarkStep ==
  ASSUME MigInv, NEW p \in Procs, NEW key, NEW stmts, NEW row, Marks(p, key, stmts, row)
  PROVE  MigInv'
<1> USE DEF Marks
<1>1. ProcOK(p)'
  BY ProcFacts, IdleOK DEF Becomes
<1>2. FilesOK(procs[p].files) /\ HoldsLock(p)
  BY ProcFacts DEF ProcOK, StageOK
<1>3. key \in MigKeys /\ stmts \in Seq(STRING) /\ Len(stmts) \in Nat /\ (Locking => migLock = p)
  BY <1>2, LenProperties DEF FilesOK, HoldsLock
<1>5. RowOK(row, key)
  BY <1>3 DEF RowOK
<1>6. /\ LedgerOK' /\ DOMAIN ledger' = DOMAIN ledger \cup {key} /\ ledger'[key] = row
      /\ \A k \in DOMAIN ledger' : k # key => k \in DOMAIN ledger /\ ledger'[k] = ledger[k]
  BY <1>3, <1>5, LedgerWrites
<1>7. KeepsRows
  BY <1>6 DEF KeepsRows
<1>8. Civil(p)
  BY <1>3, <1>7 DEF Civil, Unlocks
<1>9. LedgerIsTrue'
  <2>1. procs' = [q \in Procs |-> IF q = p THEN Idle ELSE procs[q]]
    BY DEF MigInv, ProcsShape, Becomes
  <2>2. ASSUME NEW k \in DOMAIN ran' \ (marked' \cup doubted')
        PROVE  \/ k \in DOMAIN ledger' /\ ran'[k] = ledger'[k].sum
               \/ \E q \in Procs : /\ procs'[q].at = "record" /\ procs'[q].key = k
                                   /\ ran'[k] = prefixSum(procs'[q].files[k], procs'[q].next)
    <3>1. k # key /\ k \in DOMAIN ran \ (marked \cup doubted)
      BY <2>2
    <3>2. CASE k \in DOMAIN ledger /\ ran[k] = ledger[k].sum
      BY <3>1, <3>2, <1>6
    <3>3. CASE \E q \in Procs : /\ procs[q].at = "record" /\ procs[q].key = k
                                /\ ran[k] = prefixSum(procs[q].files[k], procs[q].next)
      <4>1. PICK q \in Procs : /\ procs[q].at = "record" /\ procs[q].key = k
                               /\ ran[k] = prefixSum(procs[q].files[k], procs[q].next)
        BY <3>3
      <4>2. procs'[q] = procs[q]
        BY <2>1, <4>1
      <4>3. QED
        BY <4>1, <4>2
    <3>4. QED
      BY <3>1, <3>2, <3>3 DEF MigInv, LedgerIsTrue
  <2>3. QED
    BY ONLY <2>2, Zenon DEF LedgerIsTrue
<1>10. QED
  BY <1>1, <1>6, <1>8, <1>9, IdleFacts, MigStep DEF Becomes

LEMMA MarkAppliedStep ==
  ASSUME MigInv, NEW p \in Procs, NEW owner, NEW version, markApplied(p, owner, version)
  PROVE  MigInv'
<1> DEFINE o == procs[p]
<1>1. PICK key \in MarkApplied(o.files, owner, version) :
        IF key \in DOMAIN ledger
        THEN /\ ledger' = Written(ledger, key, Row(TRUE, Len(o.files[key]), o.files[key]))
             /\ marked' = marked \cup {key} /\ Becomes(p, Idle) /\ Unlocks(p)
        ELSE /\ Becomes(p, [procs[p] EXCEPT !.at = "insert", !.key = key])
             /\ UNCHANGED <<ledger, marked, migLock>>
  BY DEF markApplied
<1>2. o.at = "marks" /\ server' = server /\ ran' = ran /\ index' = index /\ doubted' = doubted
  BY DEF markApplied
<1>3. key \in DOMAIN o.files
  BY DEF MarkApplied
<1>4. CASE key \in DOMAIN ledger
  <2>0. PICK stmts, row : stmts = o.files[key] /\ row = Row(TRUE, Len(stmts), stmts)
    OBVIOUS
  <2>1. /\ ledger' = Written(ledger, key, row)
        /\ marked' = marked \cup {key} /\ Becomes(p, Idle) /\ Unlocks(p)
    BY <1>1, <1>4, <2>0, Zenon
  <2>4. row.applied = TRUE /\ row.statements = Len(stmts) /\ row.sum = stmts
    BY <2>0 DEF Row
  <2>2. o.at \in {"marks", "insert"}
    BY <1>2
  <2>3. QED
    <3>1. Marks(p, key, stmts, row)
      BY <2>0, <2>1, <2>2, <2>4, <1>2, <1>3 DEF Marks
    <3>2. QED
      BY <3>1, MarkStep
<1>5. CASE key \notin DOMAIN ledger
  <2> DEFINE r == [procs[p] EXCEPT !.at = "insert", !.key = key]
  <2>1. procs' = [procs EXCEPT ![p] = r] /\ UNCHANGED schema /\ migLock' = migLock
    BY <1>1, <1>2, <1>5 DEF Becomes, schema
  <2>2. IsProc(o) /\ ProcOK(p)
    BY ProcFacts
  <2>3. /\ IsProc(r) /\ r.at = "insert" /\ r.mode = o.mode /\ r.files = o.files /\ r.key = key
        /\ r.declares = o.declares /\ r.todo = o.todo /\ r.past = o.past
    BY <2>2 DEF IsProc, ProcFields
  <2>4. procs'[p] = r
    BY <2>1, ProcFacts
  <2> HIDE DEF r
  <2>5. Civil(p)
    BY <1>2, <2>1, QuietKeeps DEF Civil
  <2>6. o.mode = "mark"
    BY <1>2, <2>2 DEF ProcOK, StageOK, Running
  <2>7. StageOK(r)
    BY <1>2, <2>2, <2>3, <2>6 DEF ProcOK, StageOK, Running
  <2>8. StageOK(procs[p])' /\ KeyOK(procs[p])'
    BY <1>3, <2>3, <2>4, <2>7 DEF KeyOK
  <2>9. HoldsLock(p)'
    BY <1>2, <2>1, <2>2, <2>3, <2>4 DEF ProcOK, HoldsLock, Locking
  <2>10. /\ RowsOK(procs[p])' /\ AgreeOK(procs[p])' /\ PastOK(procs[p])' /\ StatementOK(procs[p])'
         /\ AutoOK(procs[p])' /\ AppOK(procs[p])'
    BY <2>3, <2>4, <2>6 DEF RowsOK, AgreeOK, PastOK, StatementOK, Running, AutoOK, AppOK
  <2>11. ProcOK(p)'
    BY <2>8, <2>9, <2>10 DEF ProcOK
  <2>12. QED
    BY <1>2, <2>1, <2>3, <2>5, <2>11, SameSchema
<1>6. QED
  BY <1>4, <1>5

LEMMA MarkInsertsStep ==
  ASSUME MigInv, NEW p \in Procs, MarkInserts(p)
  PROVE  MigInv'
<1>1. procs[p].at = "insert" /\ KeyOK(procs[p])
  BY ProcFacts DEF MarkInserts, ProcOK
<1>2. procs[p].key \in DOMAIN procs[p].files
  BY <1>1 DEF KeyOK
<1>3. PICK key, stmts, row : key = procs[p].key /\ stmts = procs[p].files[key] /\ row = Row(TRUE, Len(stmts), stmts)
  OBVIOUS
<1>7. row.applied = TRUE /\ row.statements = Len(stmts) /\ row.sum = stmts
  BY <1>3 DEF Row
<1>4. /\ ledger' = Written(ledger, key, row)
      /\ marked' = marked \cup {key} /\ Becomes(p, Idle) /\ Unlocks(p)
      /\ server' = server /\ ran' = ran /\ index' = index /\ doubted' = doubted
  BY <1>3 DEF MarkInserts
<1>5. procs[p].at \in {"marks", "insert"}
  BY <1>1
<1>6. QED
  <2>1. Marks(p, key, stmts, row)
    BY <1>2, <1>3, <1>4, <1>5, <1>7 DEF Marks
  <2>2. QED
    BY <2>1, MarkStep

-----------------------------------------------------------------------------
(* The theorem.                                                            *)

LEMMA MigInitially == MigInit => MigInv
<1> SUFFICES ASSUME MigInit PROVE MigInv
  OBVIOUS
<1>1. DOMAIN ledger = {} /\ DOMAIN ran = {}
  BY DEF MigInit
<1>2. ProcsShape /\ \A p \in Procs : procs[p] = Idle
  BY IdleFacts DEF MigInit, ProcsShape
<1>3. LedgerOK /\ LedgerIsTrue
  BY <1>1 DEF LedgerOK, LedgerIsTrue
<1>4. ASSUME NEW p \in Procs PROVE ProcOK(p)
  <2>1. StageOK(procs[p]) /\ procs[p].at = "idle" /\ DOMAIN procs[p].files = {} /\ procs[p].mode = "off"
    BY <1>2, IdleFacts
  <2>2. QED
    BY <2>1 DEF ProcOK, KeyOK, HoldsLock, RowsOK, AgreeOK, PastOK, AppOK, AutoOK, StatementOK, Running, loadMigrations
<1>5. QED
  BY <1>2, <1>3, <1>4 DEF MigInv, MigInit

LEMMA MigStutters ==
  ASSUME MigInv, UNCHANGED migVars
  PROVE  MigInv'
<1>1. /\ server' = server /\ ledger' = ledger /\ ran' = ran /\ migLock' = migLock /\ index' = index /\ procs' = procs
      /\ marked' = marked /\ doubted' = doubted
  BY DEF migVars
<1>2. \A p \in Procs : ProcOK(p)'
  BY <1>1 DEF MigInv, ProcOK, StageOK, KeyOK, HoldsLock, RowsOK, AgreeOK, PastOK, AppOK, AutoOK, StatementOK, UpToDate, Locking
<1>3. LedgerOK' /\ LedgerIsTrue' /\ ProcsShape'
  BY <1>1 DEF MigInv, LedgerOK, RowOK, LedgerIsTrue, ProcsShape
<1>4. QED
  BY <1>1, <1>2, <1>3 DEF MigInv

LEMMA MigInductive ==
  ASSUME MigInv, MigNext
  PROVE  MigInv'
<1>1. AnIndex \in Declared
  BY MigrationsAssumption DEF AnIndex
<1>2. \A files \in Releases : FilesOK(files)
  BY MigrationsAssumption DEF FilesOK, MigKeys
<1>3. FilesOK(<<>>)
  BY DEF FilesOK
<1>4. PICK p \in Procs :
        \/ \E files \in Releases, battery \in BOOLEAN :
             \/ \E mode \in {"versioned", "off"} : Open(p, mode, files, AnIndex, battery)
             \/ \E configured \in {"auto", "versioned"} : up(p, files, battery, configured) \/ mark(p, files, configured)
        \/ \E declares \in Declared : Open(p, "auto", <<>>, declares, FALSE)
        \/ Restarts(p) \/ Stops(p)
        \/ migrateOff(p) \/ lockMigrations(p) \/ apply(p)
        \/ \E key \in DOMAIN procs[p].files : Skip(p, key) \/ applyInTx(p, key) \/ applyByStatement(p, key)
        \/ Exec(p) \/ Record(p) \/ FileDone(p) \/ Applied(p)
        \/ \E owner \in {"", "app", "jobs"}, version \in {1, 2} : markApplied(p, owner, version)
        \/ MarkInserts(p)
        \/ ReadsIndex(p) \/ createIndex(p) \/ ReadsBack(p)
  BY DEF MigNext
<1>5. ASSUME NEW files \in Releases, NEW battery \in BOOLEAN, NEW mode \in {"versioned", "off"},
             Open(p, mode, files, AnIndex, battery)
      PROVE  MigInv'
  BY <1>1, <1>2, <1>5, OpenStep
<1>6. ASSUME NEW files \in Releases, NEW battery \in BOOLEAN, NEW configured, up(p, files, battery, configured)
      PROVE  MigInv'
  BY <1>1, <1>2, <1>6, OpenStep DEF up
<1>7. ASSUME NEW files \in Releases, NEW configured, mark(p, files, configured)
      PROVE  MigInv'
  BY <1>1, <1>2, <1>7, OpenStep DEF mark
<1>8. ASSUME NEW declares \in Declared, Open(p, "auto", <<>>, declares, FALSE)
      PROVE  MigInv'
  BY <1>3, <1>8, OpenStep
<1>9. CASE \E key \in DOMAIN procs[p].files : Skip(p, key) \/ applyInTx(p, key) \/ applyByStatement(p, key)
  BY <1>9, SkipStep, ApplyInTxStep, ByStatementStep
<1>10. CASE \E owner \in {"", "app", "jobs"}, version \in {1, 2} : markApplied(p, owner, version)
  BY <1>10, MarkAppliedStep
<1>11. CASE Restarts(p) \/ Stops(p) \/ migrateOff(p) \/ lockMigrations(p) \/ apply(p)
  BY <1>11, RestartsStep, StopsStep, MigrateOffStep, LockStep, ApplyStep
<1>12. CASE Exec(p) \/ Record(p) \/ FileDone(p) \/ Applied(p) \/ MarkInserts(p)
  BY <1>12, ExecStep, RecordStep, FileDoneStep, AppliedStep, MarkInsertsStep
<1>13. CASE ReadsIndex(p) \/ createIndex(p) \/ ReadsBack(p)
  BY <1>13, AutoSteps
<1>14. QED
  BY <1>4, <1>5, <1>6, <1>7, <1>8, <1>9, <1>10, <1>11, <1>12, <1>13

\* Who is started is up to date.
LEMMA StartsUpToDate ==
  ASSUME MigInv
  PROVE  StartedUpToDate
<1>1. ASSUME NEW p \in Procs, procs[p].at = "started"
      PROVE  CASE procs[p].mode = "auto" -> index = procs[p].declares
               [] OTHER -> \A key \in loadMigrations(procs[p].files, "app") :
                             /\ key \in DOMAIN ledger /\ ledger[key].applied
                             /\ Locking /\ key \notin marked => ledger[key].sum = procs[p].files[key]
  <2>1. StageOK(procs[p]) /\ AppOK(procs[p]) /\ AutoOK(procs[p])
    BY ProcFacts DEF ProcOK
  <2>2. CASE procs[p].mode = "auto"
    BY <1>1, <2>1, <2>2 DEF AutoOK
  <2>3. CASE procs[p].mode # "auto"
    <3>1. procs[p].todo = <<>> /\ procs[p].mode \in {"versioned", "off", "up"}
      BY <1>1, <2>1, <2>3 DEF StageOK
    <3>2. \A key \in loadMigrations(procs[p].files, "app") : UpToDate(key, procs[p].files)
      BY <2>1, <3>1 DEF AppOK
    <3>3. QED
      BY <2>3, <3>2 DEF UpToDate
  <2>4. QED
    BY <2>2, <2>3
<1>2. QED
  BY <1>1 DEF StartedUpToDate

\* Where there is a lock, a migration begins after those that are applied.
LEMMA BeginsInOrder ==
  ASSUME MigInv, MigNext, Locking, NEW key \in DOMAIN ran' \ DOMAIN ran, NEW other \in DOMAIN ledger,
         other[1] = key[1], ledger[other].applied
  PROVE  other[2] <= key[2]
<1>1. ran' # ran
  OBVIOUS
<1>2. PICK p \in Procs : (\E k \in DOMAIN procs[p].files : applyInTx(p, k)) \/ Exec(p)
  <2>1. PICK p \in Procs :
          \/ \E mode, files, declares, battery : Open(p, mode, files, declares, battery)
          \/ Restarts(p) \/ Stops(p)
          \/ migrateOff(p) \/ lockMigrations(p) \/ apply(p)
          \/ \E k \in DOMAIN procs[p].files : Skip(p, k) \/ applyInTx(p, k) \/ applyByStatement(p, k)
          \/ Exec(p) \/ Record(p) \/ FileDone(p) \/ Applied(p)
          \/ \E owner, version : markApplied(p, owner, version)
          \/ MarkInserts(p)
          \/ ReadsIndex(p) \/ createIndex(p) \/ ReadsBack(p)
    BY DEF MigNext, up, mark
  <2>2. ASSUME NEW mode, NEW files, NEW declares, NEW battery, Open(p, mode, files, declares, battery) PROVE ran' = ran
    BY <2>2 DEF Open, schema
  <2>3. Restarts(p) \/ Stops(p) \/ migrateOff(p) \/ lockMigrations(p) \/ apply(p) => ran' = ran
    BY DEF Restarts, Stops, migrateOff, lockMigrations, apply, schema
  <2>4. \A k : Skip(p, k) \/ applyByStatement(p, k) => ran' = ran
    BY DEF Skip, applyByStatement, schema
  <2>5. Record(p) \/ FileDone(p) \/ Applied(p) \/ MarkInserts(p) => ran' = ran
    BY DEF Record, FileDone, Applied, MarkInserts, schema
  <2>6. \A owner, version : markApplied(p, owner, version) => ran' = ran
    BY DEF markApplied
  <2>7. ReadsIndex(p) \/ createIndex(p) \/ ReadsBack(p) => ran' = ran
    BY DEF ReadsIndex, createIndex, ReadsBack, schema
  <2>8. QED
    BY <1>1, <2>1, <2>2, <2>3, <2>4, <2>5, <2>6, <2>7
<1>3. CASE Exec(p)
  <2>1. procs[p].at = "statement" /\ DOMAIN ran' = DOMAIN ran \cup {procs[p].key}
    BY <1>3 DEF Exec, Written
  <2>2. procs[p].key = key /\ StatementOK(procs[p])
    BY <2>1, ProcFacts DEF ProcOK
  <2>3. ~ procs[p].has
    BY <2>1, <2>2 DEF StatementOK, MigInv, LedgerOK, RowOK
  <2>4. QED
    BY <2>1, <2>2, <2>3 DEF StatementOK
<1>4. ASSUME NEW k \in DOMAIN procs[p].files, applyInTx(p, k)
      PROVE  other[2] <= key[2]
  <2> DEFINE o == procs[p]
  <2>1. k = key
    <3>1. ran' = Written(ran, k, procs[p].files[k])
      BY <1>1, <1>4 DEF applyInTx
    <3>2. DOMAIN ran' = DOMAIN ran \cup {k}
      BY <3>1 DEF Written
    <3>3. QED
      BY <3>2
  <2>2. server # "mysql" /\ Turn(p, key) /\ ~ (Has(p, key) /\ o.rows[key].applied) /\ ~ Older(p, key)
    BY <1>4, <2>1 DEF applyInTx, Unapplied, Transactional
  <2>3. o.at = "files" /\ key \in MigKeys /\ key[1] = Head(o.todo) /\ key[2] > o.past
    BY <2>2, TurnFacts
  <2>4. StageOK(o) /\ RowsOK(o) /\ AgreeOK(o)
    BY ProcFacts DEF ProcOK
  <2>5. key \notin DOMAIN ledger
    BY <1>1, <1>4, <2>1 DEF applyInTx
  <2>6. ~ Has(p, key)
    BY <2>3, <2>4, <2>5 DEF Has, RowsOK, Running
  <2>7. other \in MigKeys /\ other[2] \in Nat /\ key[2] \in Nat /\ o.past \in Int
    BY <2>3, <2>4 DEF MigInv, LedgerOK, MigKeys, StageOK
  <2>8. CASE other[2] > o.past
    <3>1. other \in DOMAIN o.rows /\ o.rows[other] = ledger[other]
      BY <2>3, <2>4, <2>8 DEF AgreeOK, Running
    <3>2. other \in DOMAIN o.files
      BY <3>1, <2>3, <2>4 DEF RowsOK, Running
    <3>3. status(o.files, o.rows, other) \in {"applied", "drifted"}
      BY <3>1, <3>2 DEF status
    <3>4. other[2] \in newest(o.files, o.rows)
      BY <3>1, <3>3 DEF newest
    <3>5. ~ (key[2] < other[2])
      BY <2>2, <2>6, <3>4 DEF Older
    <3>6. QED
      BY <3>5, <2>7
  <2>9. CASE other[2] <= o.past
    BY <2>3, <2>7, <2>9
  <2>10. QED
    BY <2>7, <2>8, <2>9
<1>5. QED
  BY <1>2, <1>3, <1>4

\* The invariant holds throughout, for every release and any number of starts.
LEMMA MigInvariant == MigSpec => []MigInv
<1>1. MigInv /\ [MigNext]_migVars => MigInv'
  BY MigInductive, MigStutters
<1>2. QED
  BY <1>1, MigInitially, PTL DEF MigSpec

\* Migrations (db/migrate.go, db/db.go, db/table.go, cmd/chok/migrate.go), for any processes, releases, index shapes and
\* number of starts, on every server: the ledger says which statements ran, who starts is up to date with its release, and
\* under the lock migrations begin in the order of their versions, wherever processes die.
THEOREM MigrationsAreTrue == MigSpec => MigrationsHold
<1>1. MigInv => LedgerIsTrue /\ StartedUpToDate
  BY StartsUpToDate DEF MigInv
<1> DEFINE Upward == Locking => \A key \in DOMAIN ran' \ DOMAIN ran, other \in DOMAIN ledger :
             other[1] = key[1] /\ ledger[other].applied /\ other \notin marked => other[2] <= key[2]
<1>2. MigInv /\ [MigNext]_migVars => [Upward]_migVars
  BY BeginsInOrder
<1>3. InVersionOrder <=> [][Upward]_migVars
  BY DEF InVersionOrder
<1> HIDE DEF Upward
<1>4. QED
  BY <1>1, <1>2, <1>3, MigInvariant, PTL DEF MigSpec, MigrationsHold

-----------------------------------------------------------------------------
(* Patches.                                                                *)

\* The DTO is one of the program's, the store is New's, and the values are those bound; what was built, or found empty,
\* was of a plan whose fields the store updates; and a duplicate named its field.
PatchInv ==
  /\ model \in Models /\ dto \in Dtos
  /\ stage \in {"open", "refused", "bound", "invalid", "empty", "built", "duplicate"} => New(model) # <<>> /\ store = New(model)[1]
  /\ stage \in {"bound", "built", "empty"} => req = bind(dto, sent)
  /\ stage \in {"built", "empty"} => buildPatchPlan(dto).ok /\ \A f \in buildPatchPlan(dto).fields : Writable(store, model, f)
  /\ stage = "empty" => IsEmpty(buildPatchPlan(dto), req)
  /\ stage = "built" => ~ IsEmpty(buildPatchPlan(dto), req) /\ out = build(buildPatchPlan(dto), store, model, req, sent.onto)
  /\ NamesTheField

\* The fields of a DTO are finitely many, at depths and places; an int named version is tagged.
LEMMA DtoFacts ==
  ASSUME NEW D \in Dtos
  PROVE  IsFiniteSet(D) /\ \A f \in D : f.depth \in Nat /\ f.k \in Nat /\ (f.name = "version" => f.tagged)
  BY PatchesAssumption

\* A set of one field.
LEMMA OneField ==
  ASSUME NEW D, IsFiniteSet(D), NEW S \in SUBSET D
  PROVE  Cardinality(S) = 1 <=> \E f \in S : S = {f}
<1>1. IsFiniteSet(S)
  BY FS_Subset
<1>2. QED
  BY <1>1, FS_Singleton

\* The field encoding/json gives a member to has its name, is no deeper than any other of that name, and is the only one
\* there, or the only one there that is tagged.
LEMMA ReceivedField ==
  ASSUME NEW D \in Dtos, NEW name, NEW f \in Receives(D, name)
  PROVE  /\ f \in D /\ name \in jsonName(f) /\ name = f.name
         /\ \A g \in D : name \in jsonName(g) => f.depth <= g.depth
         /\ \/ \A g \in D : name \in jsonName(g) /\ g.depth = f.depth => g = f
            \/ f.tagged /\ \A g \in D : name \in jsonName(g) /\ g.depth = f.depth /\ g.tagged => g = f
         /\ Receives(D, name) = {f}
<1> DEFINE named == {g \in D : name \in jsonName(g)}
           least == {g \in named : \A h \in named : g.depth <= h.depth}
           tags == {g \in least : g.tagged}
<1>1. Receives(D, name) = IF Cardinality(least) = 1 THEN least ELSE IF Cardinality(tags) = 1 THEN tags ELSE {}
  BY DEF Receives
<1>2. IsFiniteSet(D) /\ least \in SUBSET D /\ tags \in SUBSET D
  BY DtoFacts
<1>3. (Cardinality(least) = 1 <=> \E g \in least : least = {g}) /\ (Cardinality(tags) = 1 <=> \E g \in tags : tags = {g})
  BY <1>2, OneField
<1>4. (f \in least /\ least = {f} /\ Receives(D, name) = {f}) \/ (f \in tags /\ tags = {f} /\ Receives(D, name) = {f})
  BY <1>1, <1>3
<1>5. f \in least /\ f \in named /\ \A h \in named : f.depth <= h.depth
  BY <1>4
<1>6. \A g \in named : g.depth = f.depth => g \in least
  BY <1>5, DtoFacts
<1>7. \/ \A g \in D : name \in jsonName(g) /\ g.depth = f.depth => g = f
      \/ f.tagged /\ \A g \in D : name \in jsonName(g) /\ g.depth = f.depth /\ g.tagged => g = f
  BY <1>4, <1>6
<1>8. name = f.name
  BY <1>5 DEF jsonName
<1>9. QED
  BY <1>4, <1>5, <1>7, <1>8

\* A field of the plan is the winner of its name, a pointer from the body that is not opted out, and not the version.
LEMMA PlannedField ==
  ASSUME NEW D \in Dtos, NEW f \in buildPatchPlan(D).fields
  PROVE  f \in D /\ patchable(f) /\ ~ isVersion(f)
  BY DEF buildPatchPlan, winner, atMin, candidates

\* The one a member goes to wins, when it may be patched and is not the version.
LEMMA ReceiverWins ==
  ASSUME NEW D \in Dtos, NEW name, NEW f \in Receives(D, name), patchable(f), ~ isVersion(f)
  PROVE  f \in buildPatchPlan(D).fields
<1> DEFINE cands == candidates(D, name)
           least == atMin(cands)
           tags == {c \in least : c.tagged}
<1>1. /\ f \in D /\ name \in jsonName(f) /\ \A g \in D : name \in jsonName(g) => f.depth <= g.depth
      /\ \/ \A g \in D : name \in jsonName(g) /\ g.depth = f.depth => g = f
         \/ f.tagged /\ \A g \in D : name \in jsonName(g) /\ g.depth = f.depth /\ g.tagged => g = f
  BY ReceivedField
<1>2. f \in cands /\ \A g \in cands : g \in D /\ name \in jsonName(g)
  BY <1>1 DEF candidates
<1>3. f \in least /\ \A g \in least : g \in cands /\ g.depth = f.depth
  <2>1. f \in least
    BY <1>1, <1>2 DEF atMin
  <2>2. ASSUME NEW g \in least PROVE g \in cands /\ g.depth = f.depth
    <3>1. g \in cands /\ g.depth <= f.depth
      BY <1>2 DEF atMin
    <3>2. f.depth <= g.depth /\ f.depth \in Nat /\ g.depth \in Nat
      BY <1>1, <1>2, <3>1, DtoFacts
    <3>3. QED
      BY <3>1, <3>2
  <2>3. QED
    BY <2>1, <2>2
<1>4. least = {f} \/ tags = {f}
  BY <1>1, <1>2, <1>3
<1>5. IsFiniteSet(D) /\ least \in SUBSET D /\ tags \in SUBSET D
  BY <1>2, <1>3, DtoFacts
<1>6. (Cardinality(least) = 1 <=> \E g \in least : least = {g}) /\ (Cardinality(tags) = 1 <=> \E g \in tags : tags = {g})
  BY <1>5, OneField
<1>7. winner(D, name) = IF Cardinality(tags) = 1 THEN tags ELSE IF Cardinality(least) = 1 THEN least ELSE {}
  BY DEF winner
<1>8. f \in winner(D, name)
  <2>1. CASE tags = {f}
    BY <1>6, <1>7, <2>1
  <2>2. CASE tags # {f}
    <3>1. least = {f} /\ tags \subseteq {f}
      BY <1>4, <2>2
    <3>2. Cardinality(tags) # 1
      BY <1>6, <2>2, <3>1
    <3>3. QED
      BY <1>6, <1>7, <3>1, <3>2
  <2>3. QED
    BY <2>1, <2>2
<1>9. QED
  BY <1>1, <1>8 DEF buildPatchPlan

\* What a field is bound to, when it is not from the query.
LEMMA BoundField ==
  ASSUME NEW D, NEW request, NEW f \in D, ~ nonPatchable(f)
  PROVE  bind(D, request)[f] = IF f \in decodeBody(D, request.body) THEN "body" ELSE "none"
<1>1. f \notin collect(D)
  BY DEF collect, nonPatchable
<1>2. QED
  BY <1>1 DEF bind

\* The version field that the body sets is the one the plan looks at.
LEMMA VersionLocks ==
  ASSUME NEW D \in Dtos, NEW request
  PROVE  (\E f \in buildPatchPlan(D).version : bind(D, request)[f] # "none")
           <=> \E f \in UNION {Receives(D, name) : name \in request.body} : ~ nonPatchable(f) /\ isVersion(f)
<1> DEFINE versions == {f \in D : isVersion(f)}
<1>0. buildPatchPlan(D).version = {f \in versions : \A g \in versions : f.depth < g.depth \/ (f.depth = g.depth /\ f.k <= g.k)}
  BY DEF buildPatchPlan
<1>1. ASSUME NEW f \in buildPatchPlan(D).version, bind(D, request)[f] # "none"
      PROVE  \E h \in UNION {Receives(D, name) : name \in request.body} : ~ nonPatchable(h) /\ isVersion(h)
  <2>1. f \in D /\ isVersion(f) /\ ~ nonPatchable(f)
    BY <1>0 DEF isVersion
  <2>2. f \in decodeBody(D, request.body)
    BY <1>1, <2>1, BoundField
  <2>3. QED
    BY <2>1, <2>2 DEF decodeBody
<1>2. ASSUME NEW name \in request.body, NEW f \in Receives(D, name), ~ nonPatchable(f), isVersion(f)
      PROVE  \E h \in buildPatchPlan(D).version : bind(D, request)[h] # "none"
  <2>1. /\ f \in D /\ name = f.name /\ \A g \in D : name \in jsonName(g) => f.depth <= g.depth
        /\ \/ \A g \in D : name \in jsonName(g) /\ g.depth = f.depth => g = f
           \/ f.tagged /\ \A g \in D : name \in jsonName(g) /\ g.depth = f.depth /\ g.tagged => g = f
    BY ReceivedField
  <2>2. \A g \in versions : g \in D /\ g.tagged /\ name \in jsonName(g)
    <3>1. name = "version"
      BY <1>2, <2>1 DEF isVersion
    <3>2. \A g \in versions : g \in D /\ g.name = "version"
      BY DEF isVersion
    <3>3. QED
      BY <3>1, <3>2, DtoFacts DEF jsonName
  <2>3. ASSUME NEW g \in versions PROVE f.depth < g.depth \/ (f.depth = g.depth /\ f.k <= g.k)
    <3>1. f.depth <= g.depth /\ (g.depth = f.depth => g = f)
      BY <2>1, <2>2
    <3>2. f.depth \in Nat /\ g.depth \in Nat /\ f.k \in Nat
      BY <2>1, <2>2, DtoFacts
    <3>3. QED
      BY <3>1, <3>2
  <2>4. f \in buildPatchPlan(D).version
    BY <1>0, <1>2, <2>1, <2>3
  <2>5. bind(D, request)[f] = "body"
    BY <1>2, <2>1, BoundField DEF decodeBody
  <2>6. QED
    BY <2>4, <2>5
<1>3. QED
  BY <1>1, <1>2

\* The fields of the plan that are set are those the body gave a member to.
LEMMA SetFields ==
  ASSUME NEW D \in Dtos, NEW request
  PROVE  {f \in buildPatchPlan(D).fields : bind(D, request)[f] # "none"}
           = {f \in {f \in UNION {Receives(D, name) : name \in request.body} : ~ nonPatchable(f)} :
                f.type \in {"*string", "*int"} /\ ~ isVersion(f)}
<1>1. ASSUME NEW f \in buildPatchPlan(D).fields, bind(D, request)[f] # "none"
      PROVE  f \in UNION {Receives(D, name) : name \in request.body} /\ ~ nonPatchable(f) /\ f.type \in {"*string", "*int"} /\ ~ isVersion(f)
  <2>1. f \in D /\ patchable(f) /\ ~ isVersion(f)
    BY PlannedField
  <2>2. ~ nonPatchable(f) /\ f.type \in {"*string", "*int"}
    BY <2>1 DEF patchable
  <2>3. f \in decodeBody(D, request.body)
    BY <1>1, <2>1, <2>2, BoundField
  <2>4. QED
    BY <2>1, <2>2, <2>3 DEF decodeBody
<1>2. ASSUME NEW name \in request.body, NEW f \in Receives(D, name), ~ nonPatchable(f), f.type \in {"*string", "*int"}, ~ isVersion(f)
      PROVE  f \in buildPatchPlan(D).fields /\ bind(D, request)[f] # "none"
  <2>1. f \in buildPatchPlan(D).fields
    BY <1>2, ReceiverWins DEF patchable
  <2>2. f \in D
    BY ReceivedField
  <2>3. bind(D, request)[f] = "body"
    BY <1>2, <2>2, BoundField DEF decodeBody
  <2>4. QED
    BY <2>1, <2>3
<1>3. QED
  BY <1>1, <1>2

\* What is built, or found empty, is what the body said.
LEMMA PatchInvWrites == PatchInv => WritesWhatWasSent
<1> SUFFICES ASSUME PatchInv PROVE WritesWhatWasSent
  OBVIOUS
<1> DEFINE plan == buildPatchPlan(dto)
           meant == {f \in UNION {Receives(dto, name) : name \in sent.body} : ~ nonPatchable(f)}
           wanted == {f \in meant : f.type \in {"*string", "*int"} /\ ~ isVersion(f)}
           versions == {f \in meant : isVersion(f)}
           set == {f \in plan.fields : req[f] # "none"}
           locked == {f \in plan.version : req[f] # "none"}
<1>1. ASSUME stage \in {"built", "empty"} PROVE set = wanted /\ (locked # {} <=> versions # {})
  <2>1. dto \in Dtos /\ req = bind(dto, sent)
    BY <1>1 DEF PatchInv
  <2>2. set = wanted
    BY <2>1, SetFields
  <2>3. (\E f \in plan.version : req[f] # "none") <=> \E f \in UNION {Receives(dto, name) : name \in sent.body} : ~ nonPatchable(f) /\ isVersion(f)
    BY <2>1, VersionLocks
  <2>4. QED
    BY <2>2, <2>3
<1>2. ASSUME stage = "empty" PROVE wanted = {}
  <2>1. set = {}
    BY <1>2 DEF PatchInv, IsEmpty
  <2>2. QED
    BY <1>1, <1>2, <2>1
<1>3. ASSUME stage = "built"
      PROVE  /\ {c.from : c \in out.columns} = wanted /\ wanted # {}
             /\ \A c \in out.columns : c.col \notin protectedColumns /\ req[c.from] = "body"
             /\ out.lock = IF versions # {} THEN "sent" ELSE IF sent.onto # 0 THEN "object" ELSE "none"
  <2>1. out = build(plan, store, model, req, sent.onto) /\ plan.ok /\ ~ IsEmpty(plan, req) /\ \A f \in plan.fields : Writable(store, model, f)
    BY <1>3 DEF PatchInv
  <2>2. /\ out.columns = {[col |-> ColumnOf(store.update, f.name), from |-> f] : f \in set}
        /\ out.lock = IF locked # {} THEN "sent" ELSE IF sent.onto # 0 THEN "object" ELSE "none"
    BY <2>1 DEF build
  <2>3. {c.from : c \in out.columns} = set
    <3>1. \A f \in set : [col |-> ColumnOf(store.update, f.name), from |-> f] \in out.columns
      BY <2>2
    <3>2. \A c \in out.columns : \E f \in set : c = [col |-> ColumnOf(store.update, f.name), from |-> f]
      BY <2>2
    <3>3. \A f \in set : [col |-> ColumnOf(store.update, f.name), from |-> f].from = f
      OBVIOUS
    <3>4. \A f : f \in {c.from : c \in out.columns} <=> f \in set
      <4>1. ASSUME NEW f \in set PROVE f \in {c.from : c \in out.columns}
        BY <3>1, <3>3
      <4>2. ASSUME NEW c \in out.columns PROVE c.from \in set
        BY <3>2, <3>3
      <4>3. QED
        BY <4>1, <4>2
    <3>5. QED
      BY <3>4
  <2>4. set # {}
    BY <2>1 DEF IsEmpty
  <2>5. ASSUME NEW c \in out.columns PROVE c.col \notin protectedColumns /\ req[c.from] = "body"
    <3>1. PICK f \in set : c = [col |-> ColumnOf(store.update, f.name), from |-> f]
      BY <2>2
    <3>2. ColumnOf(store.update, f.name) \notin protectedColumns
      BY <2>1 DEF Writable
    <3>3. dto \in Dtos /\ req = bind(dto, sent) /\ f \in plan.fields /\ req[f] # "none"
      BY <1>3 DEF PatchInv
    <3>4. f \in dto /\ ~ nonPatchable(f)
      BY <3>3, PlannedField DEF patchable
    <3>5. req[f] = IF f \in decodeBody(dto, sent.body) THEN "body" ELSE "none"
      BY <3>3, <3>4, BoundField
    <3>6. QED
      BY <3>1, <3>2, <3>3, <3>5
  <2>6. QED
    BY <1>1, <1>3, <2>2, <2>3, <2>4, <2>5
<1>4. QED
  BY <1>2, <1>3 DEF WritesWhatWasSent

\* The names the store answers to for queries and updates are among those of its columns.
LEMMA NamesAreColumns ==
  ASSUME NEW m, New(m) # <<>>
  PROVE  New(m)[1].query \subseteq New(m)[1].columns /\ New(m)[1].update \subseteq New(m)[1].columns
<1> DEFINE fields == declaredFields(m)
<1>1. fields.query \subseteq fields.columns /\ fields.update \subseteq fields.columns
  BY DEF declaredFields, addField
<1>2. \A S, T : S \subseteq T => Aliased(S, m.aliases) \subseteq Aliased(T, m.aliases)
  BY DEF Aliased
<1>3. /\ New(m)[1].query = Aliased(fields.query, m.aliases) /\ New(m)[1].update = Aliased(fields.update, m.aliases)
      /\ New(m)[1].columns = Aliased(fields.columns, m.aliases)
  BY DEF New, declaredFields
<1>4. QED
  BY <1>1, <1>2, <1>3

\* The field of an index whose first column the store names is a name of that column.
LEMMA FieldOfIndex ==
  ASSUME NEW m, New(m) # <<>>, NEW cols, OwnColumns(cols) # {}, NEW c \in New(m)[1].columns, c.col = FirstOwn(cols),
         NEW field \in fieldOfColumns(New(m)[1], m, cols)
  PROVE  \E d \in New(m)[1].columns : d.name = field /\ d.col = FirstOwn(cols)
<1> DEFINE s == New(m)[1]
           Names(names) == {n.name : n \in {n \in names : n.col = FirstOwn(cols)}}
<1>1. s.query \subseteq s.columns /\ s.update \subseteq s.columns
  BY NamesAreColumns
<1>2. Names(s.columns) # {}
  OBVIOUS
<1>3. field \in Names(s.query) \/ field \in Names(s.update) \/ field \in Names(s.columns)
  BY <1>2 DEF fieldOfColumns
<1>4. QED
  BY <1>1, <1>3

\* Indexes have names of their own, and constraints have names.
LEMMA ModelFacts ==
  ASSUME NEW m \in Models
  PROVE  /\ \A c \in m.constraints : c.name # ""
         /\ \A i, j \in m.indexes : i.name # "" /\ (i.name = j.name => i = j)
<1>1. \A n \in Models : /\ \A c \in n.constraints : c.name # ""
                        /\ \A i, j \in n.indexes : i.name # "" /\ (i.name = j.name => i = j)
  BY PatchesAssumption
<1>2. QED
  BY <1>1

\* A collision is named as NamesTheField says.
LEMMA CollisionNamed ==
  ASSUME PatchInv, NEW db, NEW idx \in model.indexes, Collides(db, idx)
  PROVE  NamesTheField'
<1>1. PICK field \in mapError(store, model, db, idx) : out' = [field |-> field, index |-> idx]
  BY DEF Collides
<1>2. model \in Models /\ New(model) # <<>> /\ store = New(model)[1] /\ store' = store /\ model' = model
  BY DEF PatchInv, Collides
<1>3. PICK c \in out.columns : c.col \in ToSet(idx.cols)
  BY DEF Collides
<1>4. PICK f \in buildPatchPlan(dto).fields : c.col = ColumnOf(store.update, f.name)
  BY <1>3 DEF PatchInv, Collides, build
<1>5. Writable(store, model, f)
  BY DEF PatchInv, Collides
<1>6. c.col \notin protectedColumns /\ \E u \in store.update : u.col = c.col
  BY <1>4, <1>5 DEF Writable, ColumnOf
<1>7. OwnColumns(idx.cols) # {}
  BY <1>3, <1>6 DEF OwnColumns, ToSet, protectedColumns
<1>8. PICK d \in store.columns : d.col = FirstOwn(idx.cols)
  BY <1>2, <1>3, <1>6, IndexesAssumption
<1>9. \A other \in fieldOfColumns(store, model, idx.cols) : \E e \in store.columns : e.name = other /\ e.col = FirstOwn(idx.cols)
  BY <1>2, <1>7, <1>8, FieldOfIndex
<1>10. /\ \A k \in model.constraints : k.name # ""
       /\ \A i, j \in model.indexes : i.name # "" /\ (i.name = j.name => i = j)
  BY <1>2, ModelFacts
<1>11. \/ \E k \in model.constraints : k.field = field /\ (k.name = idx.name \/ k.cols = idx.cols)
       \/ field \in fieldOfColumns(store, model, idx.cols)
  <2>1. CASE db = "sqlite"
    <3>1. Constraint(store, model, "") = {}
      BY <1>10 DEF Constraint
    <3>2. idx.cols # <<>>
      BY <1>7 DEF OwnColumns
    <3>3. field \in columnsField(store, model, idx.cols)
      BY <1>1, <2>1, <3>1, <3>2 DEF mapError, Message, constraintField, constraintName
    <3>4. QED
      BY <3>3 DEF columnsField
  <2>2. CASE db # "sqlite"
    <3>1. field \in (IF Constraint(store, model, idx.name) # {} THEN Constraint(store, model, idx.name) ELSE {""})
      BY <1>1, <2>2 DEF mapError, Message, constraintField, constraintName
    <3>2. CASE \E k \in model.constraints : k.name = idx.name
      BY <3>1, <3>2 DEF Constraint
    <3>3. CASE ~ \E k \in model.constraints : k.name = idx.name
      <4>1. {i \in model.indexes : i.name = idx.name} = {idx}
        BY <1>10
      <4>2. Constraint(store, model, idx.name) = fieldOfColumns(store, model, idx.cols)
        BY <3>3, <4>1 DEF Constraint
      <4>3. fieldOfColumns(store, model, idx.cols) # {}
        BY <1>7 DEF fieldOfColumns
      <4>4. QED
        BY <3>1, <4>2, <4>3
    <3>4. QED
      BY <3>2, <3>3
  <2>3. QED
    BY <2>1, <2>2
<1>12. out'.field = field /\ out'.index = idx
  BY <1>1
<1>13. \/ \E k \in model'.constraints : k.field = out'.field /\ (k.name = out'.index.name \/ k.cols = out'.index.cols)
       \/ \E e \in store'.columns : e.name = out'.field /\ e.col = FirstOwn(out'.index.cols)
  BY <1>2, <1>9, <1>11, <1>12
<1>14. QED
  BY <1>13 DEF NamesTheField

LEMMA PatchInitially == PatchInit => PatchInv
  BY DEF PatchInit, PatchInv, NamesTheField

LEMMA PatchInductive == PatchInv /\ [PatchNext]_patchVars => PatchInv'
<1> SUFFICES ASSUME PatchInv, [PatchNext]_patchVars PROVE PatchInv'
  OBVIOUS
<1>1. CASE Opens
  BY <1>1 DEF Opens, PatchInv, NamesTheField
<1>2. CASE Builds
  BY <1>2 DEF Builds, PatchInv, NamesTheField
<1>3. CASE \E body \in Bodies, query \in QueryTexts, onto \in OntoVersion : Binds(body, query, onto)
  BY <1>3 DEF Binds, PatchInv, NamesTheField
<1>4. CASE \E db \in Databases : \E idx \in model.indexes : Collides(db, idx)
  <2>1. PICK db \in Databases, idx \in model.indexes : Collides(db, idx)
    BY <1>4
  <2>2. NamesTheField'
    BY <2>1, CollisionNamed
  <2>3. QED
    BY <2>1, <2>2 DEF Collides, PatchInv
<1>5. CASE UNCHANGED patchVars
  BY <1>5 DEF patchVars, PatchInv, NamesTheField
<1>6. QED
  BY <1>1, <1>2, <1>3, <1>4, <1>5 DEF PatchNext

\* A patch (bind.go, store/changes.go, store/store.go, store/errors.go), for any models, DTOs, bodies, query texts and
\* databases: it writes the members the body sent to the fields encoding/json gives them to and nothing else, under the
\* version sent or the object's, and a duplicate names the field of the index it met.
THEOREM PatchesAreHonest == PatchSpec => []PatchIsHonest
<1>1. PatchInv => PatchIsHonest
  BY PatchInvWrites DEF PatchInv, PatchIsHonest
<1>2. QED
  BY <1>1, PatchInitially, PatchInductive, PTL DEF PatchSpec

-----------------------------------------------------------------------------
(* Lists.  The orders and the sort key that the parts of a query ask for.  *)
OrdersOf(parts) == [i \in DOMAIN parts |-> [field |-> parts[i].field, desc |-> parts[i].dir = "desc"]]
KeyOf(parts) == IF parts = <<>> THEN [field |-> "id", desc |-> FALSE] ELSE OrdersOf(parts)[1]

IsQuery(q) ==
  /\ q = [page |-> q.page, size |-> q.size, order |-> q.order, cursors |-> q.cursors, cursor |-> q.cursor, filters |-> q.filters]
  /\ q.page \in Int /\ q.size \in Int /\ q.order \in Seq(Part) /\ q.cursors \in BOOLEAN
GotRow == [id : Int, rid : Int, key : Int]
IsWalk(w) ==
  /\ w = [at |-> w.at, query |-> w.query, order |-> w.order, got |-> w.got, total |-> w.total, kept |-> w.kept, still |-> w.still]
  /\ w.at \in {"count", "find", "more", "done", "refused"} /\ IsQuery(w.query)
  /\ w.order \in Seq(Part) /\ w.got \in Seq(GotRow) /\ w.still \in BOOLEAN
  /\ w.at = "find" => ~ ListFromQuery(w.query).err
Walking(w) == w.at \in {"count", "find", "more"}
IdsIn(got) == {got[i].id : i \in 1..Len(got)}

IsTable(rows) ==
  /\ IsFiniteSet(DOMAIN rows) /\ DOMAIN rows \subseteq Nat /\ DOMAIN rows \subseteq DOMAIN RidOf
  /\ rows \in [DOMAIN rows -> Contents]
TableInv == nextId \in Nat /\ DOMAIN table \subseteq 1..nextId - 1 /\ IsTable(table)

Ascends(got, order) ==
  \A i \in 1..Len(got) - 1 :
    \/ Beyond(order.desc, got[i + 1].key, got[i].key)
    \/ got[i + 1].key = got[i].key /\ Beyond(order.desc, got[i + 1].rid, got[i].rid)
TokenOf(item, order) == [v |-> 1, order |-> order, kind |-> specOf(order.field), value |-> item.key, rid |-> item.rid]

\* A walk by cursor: the cursor is that of the last row got, and a row that stayed is either got or after it.
CursorAt(w, order) ==
  \/ w.query.cursor = <<>> /\ w.got = <<>> /\ w.query.order = w.order /\ w.at # "more"
  \/ w.got # <<>> /\ w.query.cursor = <<TokenOf(w.got[Len(w.got)], order)>>
KeptAhead(rows, w, order) ==
  \A id \in w.kept :
    /\ id \in read(rows, ListFromQuery(w.query))
    /\ w.query.cursor = <<>> \/ id \in IdsIn(w.got) \/ After(rows, id, w.query.cursor[1], order)
ByCursor(rows, w) ==
  /\ Ascends(w.got, KeyOf(w.order))
  /\ KeyOf(w.order).field = "id" => \A i \in 1..Len(w.got) : w.got[i].key = w.got[i].rid
  /\ Walking(w) => CursorAt(w, KeyOf(w.order)) /\ KeptAhead(rows, w, KeyOf(w.order))
  /\ w.at = "done" => w.kept \subseteq IdsIn(w.got)

\* A walk by page over a table that stood still: the rows got are the first of all.
Ordered(rows, cfg) ==
  LET met == read(rows, cfg)
  IN  Sorted(met, {pair \in met \X met : Sorts(rows, cfg.orders, pair[1], pair[2])})
FirstGot(rows, w, cfg) ==
  /\ w.kept = read(rows, cfg)
  /\ Len(w.got) = (cfg.page - 1) * SizeOf(cfg, cfg.limit) /\ Len(w.got) <= Len(Ordered(rows, cfg))
  /\ \A i \in 1..Len(w.got) : w.got[i].id = Ordered(rows, cfg)[i]
  /\ w.at = "find" => w.total = Cardinality(w.kept)
ByNumber(rows, w) ==
  /\ w.query.order = w.order
  /\ w.still /\ Walking(w) /\ ~ ListFromQuery(w.query).err => FirstGot(rows, w, ListFromQuery(w.query))
  /\ w.still /\ w.at = "done" => IdsIn(w.got) = w.kept /\ Len(w.got) = w.total /\ w.total = Cardinality(w.kept)

WalkOK(rows, w) == w = NoWalk \/ (IsWalk(w) /\ IF w.query.cursors THEN ByCursor(rows, w) ELSE ByNumber(rows, w))
WalkInv == TableInv /\ WalkOK(table, walk)

(***************************************************************************)
(* Sorting: a strict total order has each row of a finite set at a place   *)
(* of its own.                                                             *)
(***************************************************************************)
Total(S, R) ==
  /\ \A x \in S : <<x, x>> \notin R
  /\ \A x, y, z \in S : <<x, y>> \in R /\ <<y, z>> \in R => <<x, z>> \in R
  /\ \A x, y \in S : x = y \/ <<x, y>> \in R \/ <<y, x>> \in R

\* A row's place is below the number of rows, and places go up with the order.
LEMMA Places ==
  ASSUME NEW S, IsFiniteSet(S), NEW R, Total(S, R)
  PROVE  /\ \A x \in S : Place(S, R, x) \in Nat /\ Place(S, R, x) < Cardinality(S)
         /\ \A x, y \in S : <<x, y>> \in R => Place(S, R, x) < Place(S, R, y)
<1> DEFINE P(x) == {y \in S : <<y, x>> \in R}
<1>0. \A x \in S : Place(S, R, x) = Cardinality(P(x))
  BY DEF Place
<1>1. ASSUME NEW x \in S PROVE IsFiniteSet(P(x)) /\ Cardinality(P(x)) \in Nat /\ Cardinality(P(x)) < Cardinality(S)
  <2>1. P(x) \in SUBSET S /\ x \notin P(x)
    BY DEF Total
  <2>2. IsFiniteSet(P(x)) /\ Cardinality(P(x)) <= Cardinality(S) /\ Cardinality(S) # Cardinality(P(x))
    BY <2>1, FS_Subset
  <2>3. Cardinality(P(x)) \in Nat /\ Cardinality(S) \in Nat
    BY <2>2, FS_CardinalityType
  <2>4. QED
    BY <2>2, <2>3
<1>2. ASSUME NEW x \in S, NEW y \in S, <<x, y>> \in R PROVE Cardinality(P(x)) < Cardinality(P(y))
  <2>1. P(x) \in SUBSET P(y) /\ x \in P(y) /\ x \notin P(x)
    BY <1>2 DEF Total
  <2>2. Cardinality(P(x)) <= Cardinality(P(y)) /\ Cardinality(P(y)) # Cardinality(P(x))
    BY <1>1, <2>1, FS_Subset
  <2>3. Cardinality(P(x)) \in Nat /\ Cardinality(P(y)) \in Nat
    BY <1>1
  <2>4. QED
    BY <2>2, <2>3
<1> HIDE DEF P
<1>3. QED
  BY <1>0, <1>1, <1>2

\* The sorted rows are all the rows, each before the later ones.
LEMMA SortedRows ==
  ASSUME NEW S, IsFiniteSet(S), NEW R, Total(S, R)
  PROVE  /\ Cardinality(S) \in Nat /\ Sorted(S, R) \in Seq(S) /\ Len(Sorted(S, R)) = Cardinality(S)
         /\ \A x \in S : \E n \in 1..Cardinality(S) : Sorted(S, R)[n] = x
         /\ \A m, n \in 1..Cardinality(S) : m < n => <<Sorted(S, R)[m], Sorted(S, R)[n]>> \in R
<1> DEFINE c == Cardinality(S)
           p == [x \in S |-> Place(S, R, x)]
           s == Sorted(S, R)
<1>1. c \in Nat
  BY FS_CardinalityType
<1>2. /\ \A x \in S : Place(S, R, x) \in Nat /\ Place(S, R, x) < c
      /\ \A x, y \in S : <<x, y>> \in R => Place(S, R, x) < Place(S, R, y)
  BY Places
<1>3. \A x, y \in S : Place(S, R, x) = Place(S, R, y) => x = y
  <2>1. ASSUME NEW x \in S, NEW y \in S, x # y PROVE Place(S, R, x) # Place(S, R, y)
    <3>1. <<x, y>> \in R \/ <<y, x>> \in R
      BY <2>1 DEF Total
    <3>2. Place(S, R, x) < Place(S, R, y) \/ Place(S, R, y) < Place(S, R, x)
      BY <1>2, <3>1
    <3>3. QED
      BY <1>2, <3>2
  <2>2. QED
    BY <2>1
<1>4. \A x \in S : Place(S, R, x) \in 0..c - 1
  BY <1>1, <1>2
<1>5. p \in Injection(S, 0..c - 1)
  BY <1>3, <1>4 DEF Injection, IsInjective
<1>6. IsFiniteSet(0..c - 1) /\ Cardinality(0..c - 1) = c
  <2>1. 0 \in Int /\ c - 1 \in Int
    BY <1>1
  <2>2. IsFiniteSet(0..c - 1) /\ Cardinality(0..c - 1) = IF 0 > c - 1 THEN 0 ELSE (c - 1) - 0 + 1
    BY <2>1, FS_Interval
  <2>3. QED
    BY <1>1, <2>2
<1>7. p \in Surjection(S, 0..c - 1)
  <2> HIDE DEF p, c
  <2>1. Cardinality(S) = Cardinality(0..c - 1)
    BY <1>6 DEF c
  <2>2. QED
    BY <1>5, <1>6, <2>1, FS_Injection
<1>8. ASSUME NEW n \in 1..c PROVE s[n] \in S /\ Place(S, R, s[n]) = n - 1
  <2>1. n - 1 \in 0..c - 1
    BY <1>1
  <2>2. \E x \in S : p[x] = n - 1
    BY <1>7, <2>1 DEF Surjection
  <2>3. \E x \in S : Place(S, R, x) = n - 1
    BY <2>2
  <2>4. s[n] = CHOOSE x \in S : Place(S, R, x) = n - 1
    BY DEF Sorted
  <2>5. QED
    BY <2>3, <2>4
<1>9. s = [n \in 1..c |-> s[n]] /\ DOMAIN s = 1..c
  BY DEF Sorted
<1> HIDE DEF p
<1>10. s \in Seq(S) /\ Len(s) = c
  <2> HIDE DEF s, c
  <2>1. s \in [1..c -> S]
    BY <1>8, <1>9
  <2>2. QED
    BY <1>1, <2>1
<1>11. ASSUME NEW x \in S PROVE \E n \in 1..c : s[n] = x
  <2>1. Place(S, R, x) + 1 \in 1..c /\ (Place(S, R, x) + 1) - 1 = Place(S, R, x)
    BY <1>1, <1>2
  <2>2. s[Place(S, R, x) + 1] \in S /\ Place(S, R, s[Place(S, R, x) + 1]) = Place(S, R, x)
    BY <1>8, <2>1
  <2>3. s[Place(S, R, x) + 1] = x
    BY <1>3, <2>2
  <2>4. QED
    BY <2>1, <2>3
<1>12. ASSUME NEW m \in 1..c, NEW n \in 1..c, m < n PROVE <<s[m], s[n]>> \in R
  <2> HIDE DEF s, c
  <2>1. s[m] \in S /\ s[n] \in S /\ Place(S, R, s[m]) = m - 1 /\ Place(S, R, s[n]) = n - 1
    BY <1>8
  <2>2. s[m] # s[n] /\ ~ Place(S, R, s[n]) < Place(S, R, s[m])
    BY <1>12, <2>1
  <2>3. QED
    BY <1>2, <2>1, <2>2 DEF Total
<1>13. QED
  BY <1>1, <1>10, <1>11, <1>12

\* The number a query's order or page is the larger or smaller of.
LEMMA MinMax ==
  ASSUME NEW a \in Int, NEW b \in Int
  PROVE  Min({a, b}) = (IF a <= b THEN a ELSE b) /\ Max({a, b}) = (IF a >= b THEN a ELSE b)
  BY DEF Min, Max

\* A set of indexes that is not empty has a least one.
LEMMA LeastIndex ==
  ASSUME NEW T, T \subseteq Nat, T # {}
  PROVE  \E x \in T : \A y \in T : x <= y
<1>1. PICK x \in T : \A y \in T : ~ (<<y, x>> \in OpToRel(<, Nat))
  BY NatLessThanWellFounded, WFMin
<1>2. \A y \in T : ~ (y < x)
  BY <1>1 DEF OpToRel
<1>3. x \in Nat /\ \A y \in T : y \in Nat
  OBVIOUS
<1>4. QED
  BY <1>2, <1>3

\* Rows are numbers, finitely many, and their values and rids numbers.
LEMMA RowFacts ==
  ASSUME NEW rows, IsTable(rows)
  PROVE  /\ IsFiniteSet(DOMAIN rows) /\ DOMAIN rows \subseteq Nat
         /\ \A id \in DOMAIN rows : RidOf[id] \in Int /\ \A field \in Columns : Value(rows, id, field) \in Int
         /\ \A a, b \in DOMAIN rows : RidOf[a] = RidOf[b] => a = b
<1>1. DOMAIN rows \subseteq DOMAIN RidOf
  BY DEF IsTable
<1>4. \A id \in DOMAIN rows : RidOf[id] \in Int
  <2>1. RidOf \in [1..Len(RidOf) -> Int] /\ DOMAIN RidOf = 1..Len(RidOf)
    BY ListingAssumption, LenProperties
  <2>2. QED
    BY <1>1, <2>1
<1>5. ASSUME NEW id \in DOMAIN rows, NEW field \in Columns PROVE Value(rows, id, field) \in Int
  <2>1. rows[id] \in Contents
    BY DEF IsTable
  <2>2. rows[id] \in [{"rank", "title", "flag", "note"} -> Int]
    BY <2>1, ListingAssumption
  <2>3. field = "id" \/ field \in {"rank", "title", "flag", "note"}
    BY DEF Columns
  <2>4. QED
    BY <1>4, <2>2, <2>3 DEF Value
<1>6. \A a, b \in DOMAIN rows : RidOf[a] = RidOf[b] => a = b
  BY <1>1, ListingAssumption
<1>7. QED
  BY <1>4, <1>5, <1>6 DEF IsTable

\* A keyset orders the rows: by the key, then by rid.
LEMMA KeysTotal ==
  ASSUME NEW rows, IsTable(rows), NEW S \in SUBSET DOMAIN rows, NEW order, order.field \in Columns
  PROVE  Total(S, {pair \in S \X S : Keys(rows, order, pair[1], pair[2])})
<1> DEFINE R == {pair \in S \X S : Keys(rows, order, pair[1], pair[2])}
           V(x) == Value(rows, x, order.field)
<1>1. \A x \in S : V(x) \in Int /\ RidOf[x] \in Int
  BY RowFacts
<1>2. \A x, y \in S : RidOf[x] = RidOf[y] => x = y
  BY RowFacts
<1>3. \A x, y \in S : <<x, y>> \in R <=> Beyond(order.desc, V(y), V(x)) \/ (V(x) = V(y) /\ Beyond(order.desc, RidOf[y], RidOf[x]))
  BY DEF Keys
<1> HIDE DEF R, V
<1>4. CASE order.desc
  <2>1. \A x, y \in S : <<x, y>> \in R <=> V(y) < V(x) \/ (V(x) = V(y) /\ RidOf[y] < RidOf[x])
    BY <1>3, <1>4 DEF Beyond
  <2>2. QED
    BY <1>1, <1>2, <2>1 DEF Total, R
<1>5. CASE ~ order.desc
  <2>1. \A x, y \in S : <<x, y>> \in R <=> V(y) > V(x) \/ (V(x) = V(y) /\ RidOf[y] > RidOf[x])
    BY <1>3, <1>5 DEF Beyond
  <2>2. QED
    BY <1>1, <1>2, <2>1 DEF Total, R
<1>6. QED
  BY <1>4, <1>5

\* ORDER BY orders the rows: by the first field in which they differ, then by id.
LEMMA SortsTotal ==
  ASSUME NEW rows, IsTable(rows), NEW S \in SUBSET DOMAIN rows, NEW orders, Len(orders) \in Nat,
         \A i \in 1..Len(orders) : orders[i].field \in Columns
  PROVE  Total(S, {pair \in S \X S : Sorts(rows, orders, pair[1], pair[2])})
<1> DEFINE R == {pair \in S \X S : Sorts(rows, orders, pair[1], pair[2])}
           n == Len(orders)
           V(x, i) == Value(rows, x, orders[i].field)
           D(x, y, i) == IF i > n THEN x < y ELSE Beyond(orders[i].desc, V(y, i), V(x, i))
           Same(x, y, i) == \A j \in 1..i - 1 : V(x, j) = V(y, j)
<1>1. \A x \in S : x \in Nat /\ \A i \in 1..n : V(x, i) \in Int
  BY RowFacts
<1>2. \A x, y \in S : <<x, y>> \in R <=> \E i \in 1..n + 1 : Same(x, y, i) /\ D(x, y, i)
  BY DEF Sorts
<1>3. ASSUME NEW x \in S, NEW i \in 1..n + 1 PROVE ~ D(x, x, i)
  <2>1. CASE i > n
    BY <1>1, <2>1
  <2>2. CASE ~ i > n
    <3>1. i \in 1..n
      BY <2>2
    <3>2. V(x, i) \in Int
      BY <1>1, <3>1
    <3> HIDE DEF V
    <3>3. QED
      BY <2>2, <3>2 DEF Beyond
  <2>3. QED
    BY <2>1, <2>2
<1>4. ASSUME NEW x \in S, NEW y \in S, NEW z \in S, NEW i \in 1..n + 1, D(x, y, i), D(y, z, i) PROVE D(x, z, i)
  <2>1. CASE i > n
    BY <1>1, <1>4, <2>1
  <2>2. CASE ~ i > n
    <3>1. i \in 1..n
      BY <2>2
    <3>2. V(x, i) \in Int /\ V(y, i) \in Int /\ V(z, i) \in Int
      BY <1>1, <3>1
    <3> HIDE DEF V
    <3>3. QED
      BY <1>4, <2>2, <3>2 DEF Beyond
  <2>3. QED
    BY <2>1, <2>2
<1>5. ASSUME NEW x \in S, NEW y \in S, NEW z \in S, NEW i \in 1..n
      PROVE  (D(x, y, i) /\ V(y, i) = V(z, i) => D(x, z, i)) /\ (V(x, i) = V(y, i) /\ D(y, z, i) => D(x, z, i))
  OBVIOUS
<1>6. ASSUME NEW x \in S, NEW y \in S, NEW i \in 1..n, V(x, i) # V(y, i) PROVE D(x, y, i) \/ D(y, x, i)
  <2>1. V(x, i) \in Int /\ V(y, i) \in Int /\ ~ i > n
    BY <1>1
  <2> HIDE DEF V
  <2>2. QED
    BY <1>6, <2>1 DEF Beyond
<1>7. ASSUME NEW x \in S, NEW y \in S, x # y PROVE D(x, y, n + 1) \/ D(y, x, n + 1)
  BY <1>1, <1>7
<1> HIDE DEF R, V, D
<1>8. ASSUME NEW x \in S PROVE <<x, x>> \notin R
  BY <1>2, <1>3
<1>9. ASSUME NEW x \in S, NEW y \in S, NEW z \in S, <<x, y>> \in R, <<y, z>> \in R PROVE <<x, z>> \in R
  <2>1. PICK i \in 1..n + 1 : Same(x, y, i) /\ D(x, y, i)
    BY <1>2, <1>9
  <2>2. PICK k \in 1..n + 1 : Same(y, z, k) /\ D(y, z, k)
    BY <1>2, <1>9
  <2>3. CASE i = k
    <3>1. Same(x, z, i) /\ D(x, z, i)
      BY <1>4, <2>1, <2>2, <2>3
    <3>2. QED
      BY <1>2, <3>1
  <2>4. CASE i < k
    <3>1. i \in 1..n /\ i \in 1..k - 1
      BY <2>4
    <3>0. V(y, i) = V(z, i)
      BY <2>2, <3>1
    <3>2. D(x, z, i)
      BY <1>5, <2>1, <3>0, <3>1
    <3>3. Same(x, z, i)
      BY <2>1, <2>2, <2>4
    <3>4. QED
      BY <1>2, <3>2, <3>3
  <2>5. CASE k < i
    <3>1. k \in 1..n /\ k \in 1..i - 1
      BY <2>5
    <3>0. V(x, k) = V(y, k)
      BY <2>1, <3>1
    <3>2. D(x, z, k)
      BY <1>5, <2>2, <3>0, <3>1
    <3>3. Same(x, z, k)
      BY <2>1, <2>2, <2>5
    <3>4. QED
      BY <1>2, <3>2, <3>3
  <2>6. QED
    BY <2>3, <2>4, <2>5
<1>10. ASSUME NEW x \in S, NEW y \in S, x # y PROVE <<x, y>> \in R \/ <<y, x>> \in R
  <2> DEFINE T == {i \in 1..n : V(x, i) # V(y, i)}
  <2>1. CASE T = {}
    <3>1. Same(x, y, n + 1) /\ Same(y, x, n + 1) /\ n + 1 \in 1..n + 1
      BY <2>1
    <3>2. QED
      BY <1>2, <1>7, <1>10, <3>1
  <2>2. CASE T # {}
    <3>0. T \subseteq Nat
      OBVIOUS
    <3>1. PICK i \in T : \A j \in T : i <= j
      <4> HIDE DEF T
      <4>1. QED
        BY <2>2, <3>0, LeastIndex
    <3>2. i \in 1..n /\ i \in 1..n + 1 /\ V(x, i) # V(y, i)
      BY <3>1
    <3>3. Same(x, y, i) /\ Same(y, x, i)
      BY <3>1, <3>2
    <3>4. QED
      BY <1>2, <1>6, <3>2, <3>3
  <2>3. QED
    BY <2>1, <2>2
<1>11. QED
  BY <1>8, <1>9, <1>10 DEF Total, R

(***************************************************************************)
(* What a query's Config says.                                             *)
(***************************************************************************)
IsConfig(c) ==
  c = [err |-> c.err, cursor |-> c.cursor, cursorSize |-> c.cursorSize, keyset |-> c.keyset, page |-> c.page, offset |-> c.offset,
       limit |-> c.limit, orders |-> c.orders, filters |-> c.filters, count |-> c.count, fromQuery |-> c.fromQuery]
SamePages(c, d) ==
  /\ c.cursor = d.cursor /\ c.cursorSize = d.cursorSize /\ c.keyset = d.keyset
  /\ c.page = d.page /\ c.offset = d.offset /\ c.limit = d.limit
Adds(c, d, orders, filters) ==
  IsConfig(d) /\ SamePages(c, d) /\ d.orders = orders /\ d.filters = filters /\ d.fromQuery = c.fromQuery /\ (c.err => d.err)
Wanted(filters, names) == {In(name, filters[name]) : name \in {n \in names : Column(n) /\ Given(filters[n]) # {}}}

LEMMA FilterIs ==
  ASSUME NEW c, IsConfig(c), NEW filters, NEW names
  PROVE  Adds(c, Filter(c, filters, names), c.orders, c.filters \cup Wanted(filters, names))
<1> DEFINE ok == \A name \in names : Column(name) /\ Cardinality(Given(filters[name])) <= maxInList
           W == Wanted(filters, names)
<1>1. Filter(c, filters, names) = [[c EXCEPT !.filters = @ \cup W] EXCEPT !.err = c.err \/ ~ ok]
  BY DEF Filter, Option, Wanted
<1> HIDE DEF ok, W
<1>2. QED
  BY <1>1 DEF Adds, IsConfig, SamePages, W

LEMMA TypedIs ==
  ASSUME NEW filters
  PROVE  LET d == typedFilters(Config, filters)
         IN  /\ IsConfig(d) /\ SamePages(Config, d)
             /\ d.filters = Wanted(filters, DOMAIN filters \cap filterTypes)
<1> DEFINE typed == DOMAIN filters \cap filterTypes
           ok == \A name \in typed : \A i \in Given(filters[name]) : parseFilter(name, filters[name][i]) # {}
           e == Filter(Config, filters, typed)
<1>1. typedFilters(Config, filters) = [e EXCEPT !.err = Config.err \/ ~ ok]
  BY DEF typedFilters, Option
<1>2. IsConfig(Config) /\ Config.filters = {}
  BY DEF IsConfig, Config
<1> HIDE DEF typed, ok
<1>3. IsConfig(e) /\ SamePages(Config, e) /\ e.filters = Config.filters \cup Wanted(filters, typed)
  <2>1. Adds(Config, e, Config.orders, Config.filters \cup Wanted(filters, typed))
    BY <1>2, FilterIs
  <2>2. QED
    BY <2>1 DEF Adds
<1> HIDE DEF e
<1>4. QED
  BY <1>1, <1>2, <1>3 DEF IsConfig, SamePages, typed

LEMMA MarkedIs ==
  ASSUME NEW c, IsConfig(c)
  PROVE  IsConfig([c EXCEPT !.fromQuery = TRUE])
<1>1. ASSUME NEW b PROVE IsConfig([c EXCEPT !.fromQuery = b])
  BY DEF IsConfig
<1>2. QED
  BY <1>1

LEMMA OrderIs ==
  ASSUME NEW c, IsConfig(c), NEW parts
  PROVE  Adds(c, Order(c, parts), OrdersOf(parts), c.filters)
<1> DEFINE ok == \A i \in DOMAIN parts : Column(parts[i].field)
           O == OrdersOf(parts)
<1>1. Order(c, parts) = [[c EXCEPT !.orders = O] EXCEPT !.err = c.err \/ ~ ok]
  BY DEF Order, Option, OrdersOf
<1> HIDE DEF ok, O
<1>2. QED
  BY <1>1 DEF Adds, IsConfig, SamePages, O

\* The page a query asks for.
LEMMA PagedIs ==
  ASSUME NEW c, IsConfig(c), SamePages(Config, c), NEW q, IsQuery(q)
  PROVE  LET d == IF q.cursors THEN cursorOrDefault(c, q.cursor, q.size) ELSE Page(c, Max({q.page, 1}), q.size)
         IN  /\ IsConfig(d) /\ d.filters = c.filters /\ d.keyset = q.cursors
             /\ d.cursor = IF q.cursors THEN q.cursor ELSE <<>>
             /\ d.cursorSize = IF q.cursors /\ q.size > 0 THEN q.size ELSE 0
             /\ d.page = IF q.cursors THEN 0 ELSE Max({q.page, 1})
             /\ d.offset = IF q.cursors THEN 0 ELSE (Max({q.page, 1}) - 1) * q.size
             /\ d.limit = IF q.cursors THEN 0 ELSE q.size
             /\ ~ d.err /\ q.size > 0 => q.size \in 1..maxPageSize
<1> DEFINE d == IF q.cursors THEN cursorOrDefault(c, q.cursor, q.size) ELSE Page(c, Max({q.page, 1}), q.size)
           p == Max({q.page, 1})
           o == (p - 1) * q.size
<1>0. /\ c.cursor = <<>> /\ c.cursorSize = 0 /\ c.keyset = FALSE /\ c.page = 0 /\ c.offset = 0 /\ c.limit = 0
      /\ q.size \in Int /\ q.cursors \in BOOLEAN
  BY DEF SamePages, Config, IsQuery
<1> HIDE DEF p
<1>1. CASE q.cursors /\ q.size > 0
  <2>1. d = [[c EXCEPT !.cursor = q.cursor, !.cursorSize = q.size, !.keyset = TRUE] EXCEPT !.err = c.err \/ ~ (q.size \in 1..maxPageSize)]
    BY <1>1 DEF cursorOrDefault, Cursor, Option
  <2> HIDE DEF d
  <2>2. QED
    BY <1>0, <1>1, <2>1 DEF IsConfig, d, p
<1>2. CASE q.cursors /\ ~ q.size > 0
  <2>1. d = [c EXCEPT !.cursor = q.cursor, !.cursorSize = 0, !.keyset = TRUE]
    BY <1>2 DEF cursorOrDefault
  <2> HIDE DEF d
  <2>2. QED
    BY <1>0, <1>2, <2>1 DEF IsConfig, d, p
<1>3. CASE ~ q.cursors
  <2>1. d = [[c EXCEPT !.page = p, !.offset = o, !.limit = q.size] EXCEPT !.err = c.err \/ ~ (p >= 1 /\ q.size \in 0..maxPageSize /\ o <= MaxOffset)]
    BY <1>3 DEF Page, Option, p
  <2> HIDE DEF d, o
  <2>2. maxPageSize \in Nat
    BY ListingAssumption
  <2>3. /\ IsConfig(d) /\ d.filters = c.filters /\ d.keyset = FALSE /\ d.cursor = <<>> /\ d.cursorSize = 0
        /\ d.page = p /\ d.offset = o /\ d.limit = q.size
    BY <1>0, <2>1 DEF IsConfig
  <2>4. ~ d.err => q.size \in 0..maxPageSize
    BY <2>1 DEF IsConfig
  <2>5. ~ d.err /\ q.size > 0 => q.size \in 1..maxPageSize
    BY <1>0, <2>2, <2>4
  <2>6. QED
    BY <1>0, <1>3, <2>3, <2>5 DEF d, p, o
<1>4. QED
  BY <1>0, <1>1, <1>2, <1>3

\* A query's Config: where it begins, by which orders, and which filters it has, whatever its page and orders.
LEMMA ConfigIs ==
  ASSUME NEW q, IsQuery(q)
  PROVE  LET cfg == ListFromQuery(q)
         IN  /\ cfg.keyset = q.cursors /\ cfg.orders = OrdersOf(q.order) /\ cfg.fromQuery = TRUE
             /\ cfg.filters = Wanted(q.filters, DOMAIN q.filters \cap filterTypes) \cup Wanted(q.filters, DOMAIN q.filters \ filterTypes)
             /\ cfg.cursor = IF q.cursors THEN q.cursor ELSE <<>>
             /\ cfg.cursorSize = IF q.cursors /\ q.size > 0 THEN q.size ELSE 0
             /\ cfg.page = IF q.cursors THEN 0 ELSE Max({q.page, 1})
             /\ cfg.offset = IF q.cursors THEN 0 ELSE (Max({q.page, 1}) - 1) * q.size
             /\ cfg.limit = IF q.cursors THEN 0 ELSE q.size
             /\ ~ cfg.err => /\ q.size \in 0..maxPageSize
                            /\ \A i \in DOMAIN q.order : q.order[i].field \in Columns
<1> DEFINE t == typedFilters(Config, q.filters)
           d == IF q.cursors THEN cursorOrDefault(t, q.cursor, q.size) ELSE Page(t, Max({q.page, 1}), q.size)
           e == [d EXCEPT !.fromQuery = TRUE]
           names == DOMAIN q.filters \ filterTypes
           f == Order(e, q.order)
           g == Filter(f, q.filters, names)
           fine == \A i \in DOMAIN q.order : q.order[i].field \in Columns /\ q.order[i].dir \in {"", "asc", "desc"}
           sound == q.page >= 0 /\ q.size >= 0 /\ (q.cursors => q.page = 0) /\ fine /\ names \subseteq Columns
           cfg == ListFromQuery(q)
<1>1. cfg = [[g EXCEPT !.err = g.err \/ ~ sound] EXCEPT !.count = TRUE]
  BY DEF ListFromQuery, FromQuery, Count, Option
<1>2. IsConfig(t) /\ SamePages(Config, t) /\ t.filters = Wanted(q.filters, DOMAIN q.filters \cap filterTypes)
  BY TypedIs
<1> HIDE DEF t, sound, fine, names
<1> DEFINE Pages(x) ==
             /\ x.keyset = q.cursors /\ x.cursor = (IF q.cursors THEN q.cursor ELSE <<>>)
             /\ x.cursorSize = (IF q.cursors /\ q.size > 0 THEN q.size ELSE 0)
             /\ x.page = (IF q.cursors THEN 0 ELSE Max({q.page, 1}))
             /\ x.offset = (IF q.cursors THEN 0 ELSE (Max({q.page, 1}) - 1) * q.size)
             /\ x.limit = (IF q.cursors THEN 0 ELSE q.size)
<1>3. /\ IsConfig(d) /\ d.filters = t.filters /\ Pages(d)
      /\ ~ d.err /\ q.size > 0 => q.size \in 1..maxPageSize
  BY <1>2, PagedIs
<1>4. \A x, y : SamePages(x, y) /\ Pages(x) => Pages(y)
  BY DEF SamePages
<1> HIDE DEF d, Pages
<1>5. IsConfig(e) /\ SamePages(d, e) /\ e.filters = t.filters /\ e.fromQuery = TRUE /\ e.err = d.err
  <2>1. IsConfig(d) /\ d.filters = t.filters
    BY <1>3
  <2>2. IsConfig(e)
    BY <2>1, MarkedIs
  <2>3. e.filters = t.filters /\ e.fromQuery = TRUE /\ e.err = d.err
    BY <2>1 DEF IsConfig
  <2>4. SamePages(d, e)
    BY <2>1 DEF IsConfig, SamePages
  <2>5. QED
    BY <2>2, <2>3, <2>4
<1> HIDE DEF e
<1>6. Adds(e, f, OrdersOf(q.order), e.filters)
  BY <1>5, OrderIs
<1> HIDE DEF f
<1>7. Adds(f, g, f.orders, f.filters \cup Wanted(q.filters, names))
  BY <1>6, FilterIs DEF Adds
<1> HIDE DEF g, cfg
<1>8. /\ IsConfig(cfg) /\ SamePages(g, cfg) /\ cfg.orders = g.orders /\ cfg.filters = g.filters /\ cfg.fromQuery = g.fromQuery
      /\ (g.err => cfg.err) /\ (cfg.err \/ sound)
  BY <1>1, <1>7 DEF Adds, IsConfig, SamePages
<1>9. Pages(cfg)
  <2>1. SamePages(e, f) /\ SamePages(f, g)
    BY <1>6, <1>7 DEF Adds
  <2>2. QED
    BY <1>3, <1>4, <1>5, <1>8, <2>1
<1>10. cfg.orders = OrdersOf(q.order) /\ cfg.fromQuery = TRUE /\ cfg.filters = t.filters \cup Wanted(q.filters, names)
  BY <1>5, <1>6, <1>7, <1>8 DEF Adds
<1>11. ASSUME ~ cfg.err PROVE q.size \in 0..maxPageSize /\ \A i \in DOMAIN q.order : q.order[i].field \in Columns
  <2>1. sound /\ ~ g.err
    BY <1>8, <1>11
  <2>2. ~ d.err
    BY <1>5, <1>6, <1>7, <2>1 DEF Adds
  <2>3. q.size >= 0 /\ fine
    BY <2>1 DEF sound
  <2>4. q.size \in Int /\ maxPageSize \in Nat
    BY ListingAssumption DEF IsQuery
  <2>5. q.size \in 0..maxPageSize
    BY <1>3, <2>2, <2>3, <2>4
  <2>6. QED
    BY <2>3, <2>5 DEF fine
<1>12. QED
  BY <1>2, <1>9, <1>10, <1>11 DEF Pages, cfg, names

\* A page is of one row at least.
LEMMA SizeIs ==
  ASSUME NEW cfg, NEW asked \in Nat
  PROVE  SizeOf(cfg, asked) \in Nat \ {0}
<1>1. maxPageSize \in Nat \ {0} /\ DefaultPageSize \in Int /\ MaxPageSize \in Int
  BY ListingAssumption
<1> DEFINE top == IF MaxPageSize <= 0 THEN 100 ELSE MaxPageSize
           def == IF DefaultPageSize <= 0 THEN 20 ELSE DefaultPageSize
           most == Min({top, maxPageSize})
           size == IF asked = 0 THEN Min({def, most}) ELSE asked
<1>2. top \in Int /\ top > 0 /\ def \in Int /\ def > 0
  BY <1>1
<1> HIDE DEF top, def
<1>3. most \in Int /\ most > 0
  BY <1>1, <1>2, MinMax
<1> HIDE DEF most
<1>4. Min({def, most}) \in Int /\ Min({def, most}) > 0
  BY <1>2, <1>3, MinMax
<1>5. size \in Int /\ size > 0
  BY <1>4
<1> HIDE DEF size
<1>6. Min({size, most}) \in Int /\ Min({size, most}) > 0
  BY <1>3, <1>5, MinMax
<1>7. SizeOf(cfg, asked) = IF cfg.fromQuery THEN Min({size, most}) ELSE size
  BY DEF SizeOf, pageSizes, size, most, def, top
<1>8. QED
  BY <1>5, <1>6, <1>7

\* One page of the sorted rows, and the row more that says if any follow.
PageOf(s, off, size) == SubSeq(s, off + 1, Min({off + size + 1, Len(s)}))
IsPage(S, s, off, size) ==
  LET items == PageOf(s, off, size)
      page == SubSeq(items, 1, Min({size, Len(items)}))
  IN  /\ page \in Seq(S) /\ Len(items) \in Nat /\ (Len(items) > size <=> Len(s) > off + size)
      /\ Len(items) > size => items[size] = s[off + size]
      /\ off <= Len(s) => Len(page) = IF Len(s) > off + size THEN size ELSE Len(s) - off
      /\ \A i \in 1..Len(page) : off + i \in 1..Len(s) /\ page[i] = s[off + i]
LEMMA PageIs ==
  ASSUME NEW S, NEW s \in Seq(S), NEW off \in Nat, NEW size \in Nat \ {0}
  PROVE  IsPage(S, s, off, size)
<1> DEFINE n == Len(s)
           to == Min({off + size + 1, n})
           items == SubSeq(s, off + 1, to)
           end == Min({size, Len(items)})
           page == SubSeq(items, 1, end)
<1>1. n \in Nat /\ s \in [1..n -> S]
  BY LenProperties
<1>2. to = (IF off + size + 1 <= n THEN off + size + 1 ELSE n) /\ to \in Int
  <2>1. off + size + 1 \in Int /\ n \in Int
    BY <1>1
  <2>2. QED
    BY <2>1, MinMax
<1> HIDE DEF n, to
<1>3. \A i \in off + 1..to : s[i] \in S
  BY <1>1, <1>2
<1>4. /\ items \in Seq(S) /\ Len(items) = (IF off + 1 <= to THEN to - (off + 1) + 1 ELSE 0)
      /\ \A i \in 1..to - (off + 1) + 1 : items[i] = s[(off + 1) + i - 1]
  <2> DEFINE from == off + 1
  <2>1. from \in Int
    OBVIOUS
  <2> HIDE DEF from
  <2>2. \A i \in from..to : s[i] \in S
    BY <1>3 DEF from
  <2>3. /\ SubSeq(s, from, to) \in Seq(S) /\ Len(SubSeq(s, from, to)) = (IF from <= to THEN to - from + 1 ELSE 0)
        /\ \A i \in 1..to - from + 1 : SubSeq(s, from, to)[i] = s[from + i - 1]
    BY <1>2, <2>1, <2>2, SubSeqProperties
  <2>4. QED
    BY <2>3 DEF from
<1> HIDE DEF items
<1>5. Len(items) \in Nat /\ (Len(items) > size <=> n > off + size)
  BY <1>1, <1>2, <1>4
<1>6. \A i \in 1..Len(items) : items[i] \in S /\ items[i] = s[off + i] /\ off + i \in 1..n
  <2> TAKE i \in 1..Len(items)
  <2>1. i \in 1..to - (off + 1) + 1 /\ (off + 1) + i - 1 = off + i /\ off + i \in 1..n
    BY <1>1, <1>2, <1>4, <1>5
  <2>2. QED
    BY <1>1, <1>4, <2>1
<1>7. end = (IF size <= Len(items) THEN size ELSE Len(items)) /\ end \in Nat
  BY <1>5, MinMax
<1> HIDE DEF end
<1>8. /\ page \in Seq(S) /\ Len(page) = (IF 1 <= end THEN end - 1 + 1 ELSE 0)
      /\ \A i \in 1..end - 1 + 1 : page[i] = items[1 + i - 1]
  <2>1. \A i \in 1..end : items[i] \in S
    BY <1>5, <1>6, <1>7
  <2>2. 1 \in Int /\ end \in Int
    BY <1>7
  <2>3. QED
    BY <2>1, <2>2, SubSeqProperties
<1> HIDE DEF page
<1>9. Len(page) = end /\ \A i \in 1..end : page[i] = items[i]
  BY <1>7, <1>8
<1>10. \A i \in 1..Len(page) : off + i \in 1..n /\ page[i] = s[off + i]
  BY <1>5, <1>6, <1>7, <1>9
<1>11. Len(items) > size => items[size] = s[off + size]
  BY <1>5, <1>6
<1>12. off <= n => Len(page) = IF n > off + size THEN size ELSE n - off
  BY <1>1, <1>2, <1>4, <1>5, <1>7, <1>9
<1>13. QED
  BY <1>5, <1>8, <1>10, <1>11, <1>12 DEF IsPage, PageOf, page, end, items, to, n

\* The sort key of a query's Config.
LEMMA KeyIs ==
  ASSUME NEW q, IsQuery(q)
  PROVE  /\ orderOf(ListFromQuery(q)) = KeyOf(q.order) /\ Len(ListFromQuery(q).orders) = Len(q.order)
         /\ ~ ListFromQuery(q).err => /\ KeyOf(q.order).field \in Columns
                                      /\ \A i \in 1..Len(q.order) : ListFromQuery(q).orders[i].field \in Columns
<1> DEFINE p == q.order
           cfg == ListFromQuery(q)
<1>1. p \in Seq(Part) /\ Len(p) \in Nat /\ DOMAIN p = 1..Len(p) /\ p \in [1..Len(p) -> Part]
  BY LenProperties DEF IsQuery
<1>2. cfg.orders = OrdersOf(p) /\ (~ cfg.err => \A i \in DOMAIN p : p[i].field \in Columns)
  BY ConfigIs
<1> HIDE DEF p, cfg
<1>3. OrdersOf(p) = [i \in 1..Len(p) |-> [field |-> p[i].field, desc |-> p[i].dir = "desc"]]
  BY <1>1 DEF OrdersOf
<1> DEFINE By == [field : STRING, desc : BOOLEAN]
<1>4. OrdersOf(p) \in Seq(By) /\ Len(OrdersOf(p)) = Len(p)
  <2>1. OrdersOf(p) \in [1..Len(p) -> By]
    BY <1>1, <1>3 DEF Part
  <2> HIDE DEF By
  <2>2. QED
    BY <1>1, <2>1
<1> HIDE DEF By
<1>5. OrdersOf(p) = <<>> <=> p = <<>>
  BY <1>1, <1>4, EmptySeq
<1>6. orderOf(cfg) = KeyOf(p)
  BY <1>2, <1>5 DEF orderOf, KeyOf
<1>7. ~ cfg.err => \A i \in 1..Len(p) : cfg.orders[i].field \in Columns
  BY <1>1, <1>2, <1>3
<1>8. ~ cfg.err => KeyOf(p).field \in Columns
  <2>1. CASE p = <<>>
    BY <2>1 DEF KeyOf, Columns
  <2>2. CASE p # <<>>
    <3>1. 1 \in 1..Len(p)
      BY <1>1, <2>2, EmptySeq
    <3>2. QED
      BY <1>2, <1>7, <2>2, <3>1 DEF KeyOf
  <2>3. QED
    BY <2>1, <2>2
<1>9. QED
  BY <1>2, <1>4, <1>6, <1>7, <1>8 DEF p, cfg

\* A query without a page asks for the first.
LEMMA FirstPage ==
  ASSUME NEW p \in Int
  PROVE  Max({p, 1}) \in Nat /\ Max({p, 1}) = IF p >= 1 THEN p ELSE 1
<1> DEFINE one == 1
<1>1. one \in Int
  OBVIOUS
<1> HIDE DEF one
<1>2. Max({p, one}) = IF p >= one THEN p ELSE one
  BY <1>1, MinMax
<1>3. QED
  BY <1>2 DEF one

(***************************************************************************)
(* The steps of a walk, and what other callers do meanwhile.               *)
(***************************************************************************)

\* The rows that a query matches depend on its filters alone.
LEMMA ReadIs ==
  ASSUME NEW rows, NEW q, IsQuery(q), NEW p, IsQuery(p), p.filters = q.filters
  PROVE  read(rows, ListFromQuery(p)) = read(rows, ListFromQuery(q))
<1>1. ListFromQuery(p).filters = ListFromQuery(q).filters
  BY ConfigIs
<1>2. QED
  BY <1>1 DEF read

\* A query with another order is a query, and so is one with another page and cursor.
LEMMA OrderedAnew ==
  ASSUME NEW q, IsQuery(q), NEW parts \in Seq(Part)
  PROVE  LET p == [q EXCEPT !.order = parts]
         IN  /\ IsQuery(p) /\ p.page = q.page /\ p.size = q.size /\ p.order = parts
             /\ p.cursors = q.cursors /\ p.cursor = q.cursor /\ p.filters = q.filters
             /\ parts = q.order => p = q
<1> DEFINE p == [q EXCEPT !.order = parts]
<1>1. p = [page |-> q.page, size |-> q.size, order |-> parts, cursors |-> q.cursors, cursor |-> q.cursor, filters |-> q.filters]
  BY DEF IsQuery
<1> HIDE DEF p
<1>2. QED
  BY <1>1 DEF IsQuery, p

Anew(q, p, cursor, page) ==
  /\ IsQuery(p) /\ p.page = page /\ p.size = q.size /\ p.order = q.order
  /\ p.cursors = q.cursors /\ p.cursor = cursor /\ p.filters = q.filters
LEMMA PagedAnew ==
  ASSUME NEW q, IsQuery(q), NEW page \in Int, NEW cursor
  PROVE  Anew(q, [q EXCEPT !.cursor = cursor, !.page = page], cursor, page)
<1> DEFINE p == [q EXCEPT !.cursor = cursor, !.page = page]
           r == [q EXCEPT !.cursor = cursor]
<1>0. r = [page |-> q.page, size |-> q.size, order |-> q.order, cursors |-> q.cursors, cursor |-> cursor, filters |-> q.filters]
  BY DEF IsQuery
<1>1. p = [page |-> page, size |-> q.size, order |-> q.order, cursors |-> q.cursors, cursor |-> cursor, filters |-> q.filters]
  <2>1. p = [r EXCEPT !.page = page]
    OBVIOUS
  <2> HIDE DEF r, p
  <2>2. QED
    BY <1>0, <2>1
<1> HIDE DEF p
<1>2. Anew(q, p, cursor, page)
  BY <1>1 DEF IsQuery, Anew
<1>3. QED
  BY <1>2 DEF p

\* A row that keeps its contents is matched, and is after a cursor, as it was.
LEMMA RowStays ==
  ASSUME NEW rows, NEW next, NEW cfg, NEW id \in DOMAIN next, next[id] = rows[id], NEW token, NEW order
  PROVE  /\ id \in read(rows, cfg) => id \in read(next, cfg)
         /\ After(rows, id, token, order) => After(next, id, token, order)
<1>1. \A field : Value(next, id, field) = Value(rows, id, field)
  BY DEF Value
<1>2. QED
  BY <1>1 DEF read, Passes, After

\* Rows come, go and move, and those that count as kept stay as they are.
LEMMA TableStep ==
  ASSUME IsWalk(walk), WalkOK(table, walk), Walking(walk), NEW next, NEW k \in SUBSET walk.kept,
         \A id \in k : id \in DOMAIN table => id \in DOMAIN next /\ next[id] = table[id],
         NEW w, w = [walk EXCEPT !.kept = k, !.still = FALSE]
  PROVE  WalkOK(next, w)
<1>1. /\ w.at = walk.at /\ w.query = walk.query /\ w.order = walk.order /\ w.got = walk.got /\ w.total = walk.total
      /\ w.kept = k /\ w.still = FALSE
  BY DEF IsWalk
<1>2. IsWalk(w)
  <2>1. w = [at |-> walk.at, query |-> walk.query, order |-> walk.order, got |-> walk.got, total |-> walk.total,
             kept |-> k, still |-> FALSE]
    BY DEF IsWalk
  <2>2. QED
    BY <1>1, <2>1 DEF IsWalk
<1>3. IF walk.query.cursors THEN ByCursor(table, walk) ELSE ByNumber(table, walk)
  <2>1. walk # NoWalk
    BY DEF IsWalk, NoWalk
  <2>2. QED
    BY <2>1 DEF WalkOK
<1>4. CASE walk.query.cursors
  <2> DEFINE order == KeyOf(walk.order)
  <2>1. ByCursor(table, walk)
    BY <1>3, <1>4
  <2>2. CursorAt(w, order) /\ Walking(w) /\ w.at # "done"
    BY <1>1, <2>1 DEF ByCursor, CursorAt, Walking
  <2>3. KeptAhead(next, w, order)
    <3> SUFFICES ASSUME NEW id \in k
                 PROVE  /\ id \in read(next, ListFromQuery(walk.query))
                        /\ walk.query.cursor = <<>> \/ id \in IdsIn(walk.got) \/ After(next, id, walk.query.cursor[1], order)
      BY <1>1 DEF KeptAhead
    <3>1. /\ id \in read(table, ListFromQuery(walk.query))
          /\ walk.query.cursor = <<>> \/ id \in IdsIn(walk.got) \/ After(table, id, walk.query.cursor[1], order)
      BY <2>1 DEF ByCursor, KeptAhead
    <3>2. id \in DOMAIN table
      BY <3>1 DEF read
    <3>3. id \in DOMAIN next /\ next[id] = table[id]
      BY <3>2
    <3>4. QED
      BY <3>1, <3>3, RowStays
  <2>4. ByCursor(next, w)
    BY <1>1, <2>1, <2>2, <2>3 DEF ByCursor
  <2>5. QED
    BY <1>1, <1>2, <1>4, <2>4 DEF WalkOK
<1>5. CASE ~ walk.query.cursors
  <2>1. walk.query.order = walk.order
    BY <1>3, <1>5 DEF ByNumber
  <2>2. ByNumber(next, w)
    BY <1>1, <2>1 DEF ByNumber
  <2>3. QED
    BY <1>1, <1>2, <1>5, <2>2 DEF WalkOK
<1>6. QED
  BY <1>4, <1>5

\* A walk that went on, by what changed.
Onward(v, w, a, q) ==
  w = [at |-> a, query |-> q, order |-> v.order, got |-> v.got, total |-> v.total, kept |-> v.kept, still |-> v.still]
LEMMA AsksAnew ==
  ASSUME NEW v, IsWalk(v), NEW a, NEW parts
  PROVE  Onward(v, [v EXCEPT !.at = a, !.query.order = parts], a, [v.query EXCEPT !.order = parts])
<1> DEFINE u == [v EXCEPT !.at = a]
           q == [v.query EXCEPT !.order = parts]
<1>1. u = [at |-> a, query |-> v.query, order |-> v.order, got |-> v.got, total |-> v.total, kept |-> v.kept, still |-> v.still]
  BY DEF IsWalk
<1>2. [v EXCEPT !.at = a, !.query.order = parts] = [u EXCEPT !.query = [u.query EXCEPT !.order = parts]]
  OBVIOUS
<1> HIDE DEF u
<1>3. u.query = v.query
  BY <1>1
<1>4. [u EXCEPT !.query = [u.query EXCEPT !.order = parts]] = [u EXCEPT !.query = q]
  BY <1>3
<1> HIDE DEF q
<1>5. Onward(v, [u EXCEPT !.query = q], a, q)
  BY <1>1 DEF Onward
<1>6. QED
  BY <1>2, <1>4, <1>5 DEF q

\* Asking for another page, or in vain: what was got stays got, and the cursor where it was.
LEMMA AskStep ==
  ASSUME IsWalk(walk), WalkOK(table, walk), Walking(walk), NEW a \in {"count", "more", "refused"}, NEW parts \in Seq(Part),
         NEW w, Onward(walk, w, a, [walk.query EXCEPT !.order = parts]),
         a = "count" => walk.at = "more" /\ (parts = walk.order \/ walk.query.cursors),
         a = "more" => walk.query.order # walk.order /\ parts = walk.order,
         a = "refused" => parts = walk.order
  PROVE  WalkOK(table, w)
<1> DEFINE q == [walk.query EXCEPT !.order = parts]
<1>1. /\ IsQuery(q) /\ q.order = parts /\ q.cursors = walk.query.cursors /\ q.cursor = walk.query.cursor
      /\ q.filters = walk.query.filters /\ (parts = walk.query.order => q = walk.query)
  BY OrderedAnew DEF IsWalk
<1> HIDE DEF q
<1>2. /\ IsWalk(w) /\ w.at = a /\ w.query = q /\ w.order = walk.order /\ w.got = walk.got
      /\ w.total = walk.total /\ w.kept = walk.kept /\ w.still = walk.still
  <2>1. Onward(walk, w, a, q)
    BY DEF q
  <2>2. /\ w.at = a /\ w.query = q /\ w.order = walk.order /\ w.got = walk.got
        /\ w.total = walk.total /\ w.kept = walk.kept /\ w.still = walk.still
    BY <2>1 DEF Onward
  <2>3. w = [at |-> w.at, query |-> w.query, order |-> w.order, got |-> w.got, total |-> w.total, kept |-> w.kept, still |-> w.still]
    BY <2>1, <2>2 DEF Onward
  <2>4. QED
    BY <1>1, <2>2, <2>3 DEF IsWalk
<1>3. IF walk.query.cursors THEN ByCursor(table, walk) ELSE ByNumber(table, walk)
  <2>1. walk # NoWalk
    BY DEF IsWalk, NoWalk
  <2>2. QED
    BY <2>1 DEF WalkOK
<1>4. CASE walk.query.cursors
  <2> DEFINE order == KeyOf(walk.order)
  <2>1. ByCursor(table, walk)
    BY <1>3, <1>4
  <2>2. read(table, ListFromQuery(q)) = read(table, ListFromQuery(walk.query))
    BY <1>1, ReadIs DEF IsWalk
  <2>3. CursorAt(walk, order) /\ KeptAhead(table, walk, order)
    BY <2>1 DEF ByCursor
  <2>4. Walking(w) => CursorAt(w, order)
    BY <1>1, <1>2, <2>3 DEF CursorAt, Walking
  <2>5. KeptAhead(table, w, order)
    BY <1>1, <1>2, <2>2, <2>3 DEF KeptAhead
  <2>6. ByCursor(table, w)
    BY <1>2, <2>1, <2>4, <2>5 DEF ByCursor
  <2>7. QED
    BY <1>1, <1>2, <1>4, <2>6 DEF WalkOK
<1>5. CASE ~ walk.query.cursors
  <2>1. ByNumber(table, walk)
    BY <1>3, <1>5
  <2>2. a # "more" /\ parts = walk.order /\ walk.query.order = walk.order /\ q = walk.query
    BY <1>1, <1>5, <2>1 DEF ByNumber
  <2>3. CASE a = "refused"
    BY <1>1, <1>2, <1>5, <2>2, <2>3 DEF WalkOK, ByNumber, Walking
  <2>4. CASE a = "count"
    <3>1. FirstGot(table, walk, ListFromQuery(q)) => FirstGot(table, w, ListFromQuery(q))
      BY <1>2, <2>4 DEF FirstGot
    <3>2. ByNumber(table, w)
      BY <1>2, <2>1, <2>2, <2>4, <3>1 DEF ByNumber, Walking
    <3>3. QED
      BY <1>1, <1>2, <1>5, <3>2 DEF WalkOK
  <2>5. QED
    BY <2>2, <2>3, <2>4
<1>6. QED
  BY <1>4, <1>5

\* A page that is refused, and the next one.
LEMMA StaysStep ==
  ASSUME IsWalk(walk), WalkOK(table, walk), Walking(walk)
  PROVE  WalkOK(table, Stays)
<1> DEFINE a == IF walk.query.order = walk.order THEN "refused" ELSE "more"
<1>1. Stays = [walk EXCEPT !.at = a, !.query.order = walk.order]
  BY DEF Stays
<1>2. a \in {"count", "more", "refused"} /\ a # "count" /\ (a = "more" => walk.query.order # walk.order)
  OBVIOUS
<1> HIDE DEF a
<1>3. Onward(walk, Stays, a, [walk.query EXCEPT !.order = walk.order])
  BY ONLY <1>1, AsksAnew, IsWalk(walk)
<1>4. walk.order \in Seq(Part)
  BY DEF IsWalk
<1>5. QED
  BY <1>2, <1>3, <1>4, AskStep

LEMMA NextStep ==
  ASSUME IsWalk(walk), WalkOK(table, walk), walk.at = "more", NEW parts \in Seq(Part), parts = walk.order \/ walk.query.cursors
  PROVE  WalkOK(table, [walk EXCEPT !.at = "count", !.query.order = parts])
<1> DEFINE w == [walk EXCEPT !.at = "count", !.query.order = parts]
<1>1. Onward(walk, w, "count", [walk.query EXCEPT !.order = parts])
  BY AsksAnew
<1> HIDE DEF w
<1>2. WalkOK(table, w)
  BY <1>1, AskStep DEF Walking
<1>3. QED
  BY <1>2 DEF w

Counted(v, w, n) ==
  w = [at |-> "find", query |-> v.query, order |-> v.order, got |-> v.got, total |-> n, kept |-> v.kept, still |-> v.still]
LEMMA CountedIs ==
  ASSUME NEW v, IsWalk(v), NEW n
  PROVE  Counted(v, [v EXCEPT !.at = "find", !.total = n], n)
<1> DEFINE u == [v EXCEPT !.at = "find"]
<1>1. u = [at |-> "find", query |-> v.query, order |-> v.order, got |-> v.got, total |-> v.total, kept |-> v.kept, still |-> v.still]
  BY DEF IsWalk
<1>2. [v EXCEPT !.at = "find", !.total = n] = [u EXCEPT !.total = n]
  OBVIOUS
<1> HIDE DEF u
<1>3. Counted(v, [u EXCEPT !.total = n], n)
  BY <1>1 DEF Counted
<1>4. QED
  BY <1>2, <1>3

LEMMA CountStep ==
  ASSUME IsWalk(walk), WalkOK(table, walk), walk.at = "count", ~ ListFromQuery(walk.query).err,
         NEW w, Counted(walk, w, Cardinality(read(table, ListFromQuery(walk.query))))
  PROVE  WalkOK(table, w)
<1> DEFINE cfg == ListFromQuery(walk.query)
           n == Cardinality(read(table, cfg))
<1> HIDE DEF cfg, n
<1>1. w = [at |-> "find", query |-> walk.query, order |-> walk.order, got |-> walk.got, total |-> n,
           kept |-> walk.kept, still |-> walk.still]
  BY DEF Counted, cfg, n
<1>2. /\ w.at = "find" /\ w.query = walk.query /\ w.order = walk.order /\ w.got = walk.got
      /\ w.total = n /\ w.kept = walk.kept /\ w.still = walk.still
  BY <1>1
<1>3. IsWalk(w)
  BY <1>1, <1>2 DEF IsWalk
<1>4. IF walk.query.cursors THEN ByCursor(table, walk) ELSE ByNumber(table, walk)
  <2>1. walk # NoWalk
    BY DEF IsWalk, NoWalk
  <2>2. QED
    BY <2>1 DEF WalkOK
<1>5. CASE walk.query.cursors
  <2>1. ByCursor(table, w)
    BY <1>2, <1>4, <1>5 DEF ByCursor, Walking, CursorAt, KeptAhead
  <2>2. QED
    BY <1>2, <1>3, <1>5, <2>1 DEF WalkOK
<1>6. CASE ~ walk.query.cursors
  <2>1. walk.query.order = walk.order /\ (walk.still => FirstGot(table, walk, cfg))
    BY <1>4, <1>6 DEF ByNumber, Walking, cfg
  <2>2. walk.still => FirstGot(table, w, cfg)
    BY <1>2, <2>1 DEF FirstGot, n
  <2>3. ByNumber(table, w)
    BY <1>2, <2>1, <2>2 DEF ByNumber, cfg
  <2>4. QED
    BY <1>2, <1>3, <1>6, <2>3 DEF WalkOK
<1>7. QED
  BY <1>5, <1>6

\* A walk begins with all of its rows ahead.
Begun(w, query, parts, kept) ==
  w = [at |-> "count", query |-> query, order |-> parts, got |-> <<>>, total |-> 0, kept |-> kept, still |-> TRUE]
WalkRecord(v) ==
  v = [at |-> v.at, query |-> v.query, order |-> v.order, got |-> v.got, total |-> v.total, kept |-> v.kept, still |-> v.still]
Afresh(v, w, query, parts, kept) ==
  w = [at |-> "count", query |-> query, order |-> parts, got |-> v.got, total |-> v.total, kept |-> kept, still |-> v.still]
LEMMA BegunFrom ==
  ASSUME NEW v, NEW query, NEW parts, NEW kept, WalkRecord(v)
  PROVE  Afresh(v, [v EXCEPT !.at = "count", !.query = query, !.order = parts, !.kept = kept], query, parts, kept)
<1> DEFINE b == [v EXCEPT !.at = "count"]
           c == [b EXCEPT !.query = query]
           d == [c EXCEPT !.order = parts]
<1>1. b = [at |-> "count", query |-> v.query, order |-> v.order, got |-> v.got, total |-> v.total, kept |-> v.kept, still |-> v.still]
  BY DEF WalkRecord
<1>2. [v EXCEPT !.at = "count", !.query = query, !.order = parts, !.kept = kept] = [d EXCEPT !.kept = kept]
  OBVIOUS
<1> HIDE DEF b
<1>3. c = [at |-> "count", query |-> query, order |-> v.order, got |-> v.got, total |-> v.total, kept |-> v.kept, still |-> v.still]
  BY <1>1
<1> HIDE DEF c
<1>4. d = [at |-> "count", query |-> query, order |-> parts, got |-> v.got, total |-> v.total, kept |-> v.kept, still |-> v.still]
  BY <1>3
<1> HIDE DEF d
<1>5. Afresh(v, [d EXCEPT !.kept = kept], query, parts, kept)
  BY <1>4 DEF Afresh
<1>6. QED
  BY <1>2, <1>5

LEMMA BegunIs ==
  ASSUME NEW query, NEW parts, NEW kept
  PROVE  Begun([NoWalk EXCEPT !.at = "count", !.query = query, !.order = parts, !.kept = kept], query, parts, kept)
<1>1. /\ NoWalk.at = "idle" /\ NoWalk.query = [cursors |-> FALSE] /\ NoWalk.order = <<>> /\ NoWalk.got = <<>>
      /\ NoWalk.total = 0 /\ NoWalk.kept = {} /\ NoWalk.still = TRUE
  BY DEF NoWalk
<1>2. WalkRecord(NoWalk)
  BY ONLY <1>1 DEF NoWalk, WalkRecord
<1> DEFINE w == [NoWalk EXCEPT !.at = "count", !.query = query, !.order = parts, !.kept = kept]
<1>3. Afresh(NoWalk, w, query, parts, kept)
  BY ONLY <1>2, BegunFrom
<1> HIDE DEF w
<1>4. Begun(w, query, parts, kept)
  BY <1>1, <1>3 DEF Begun, Afresh
<1>5. QED
  BY <1>4 DEF w

LEMMA BeginStep ==
  ASSUME NEW query \in Queries, IsTable(table),
         NEW w, Begun(w, query, query.order, read(table, ListFromQuery([query EXCEPT !.cursor = <<>>])))
  PROVE  WalkOK(table, w)
<1> DEFINE q == [query EXCEPT !.cursor = <<>>]
           cfg == ListFromQuery(query)
           kept == read(table, ListFromQuery(q))
<1>1. IsQuery(query) /\ query.cursor = <<>> /\ query.page <= 1
  BY QueriesAssumption DEF IsQuery
<1>2. q = query
  BY <1>1 DEF IsQuery
<1>3. kept = read(table, cfg)
  BY <1>2
<1>4. Begun(w, query, query.order, kept)
  OBVIOUS
<1> HIDE DEF q, kept
<1>5. w = [at |-> "count", query |-> query, order |-> query.order, got |-> <<>>, total |-> 0, kept |-> kept, still |-> TRUE]
  BY <1>4 DEF Begun
<1>6. /\ w.at = "count" /\ w.query = query /\ w.order = query.order /\ w.got = <<>> /\ w.kept = kept /\ w.still = TRUE
  BY <1>5
<1>7. IsWalk(w)
  BY <1>1, <1>5, <1>6 DEF IsWalk, IsQuery
<1>8. CASE query.cursors
  <2>1. ByCursor(table, w)
    BY <1>1, <1>3, <1>6 DEF ByCursor, Ascends, CursorAt, KeptAhead
  <2>2. QED
    BY <1>6, <1>7, <1>8, <2>1 DEF WalkOK
<1>9. CASE ~ query.cursors
  <2>1. ASSUME ~ cfg.err PROVE FirstGot(table, w, cfg)
    <3>1. cfg.page = 1 /\ cfg.limit \in Nat /\ \A i \in 1..Len(cfg.orders) : cfg.orders[i].field \in Columns
      <4>1. /\ cfg.page = Max({query.page, 1}) /\ cfg.limit = query.size /\ query.size \in 0..maxPageSize
        BY <1>1, <1>9, <2>1, ConfigIs
      <4>2. \A i \in 1..Len(cfg.orders) : cfg.orders[i].field \in Columns
        BY <1>1, <2>1, KeyIs
      <4>3. query.page \in Int /\ Max({query.page, 1}) = 1
        <5>1. query.page \in Int
          BY <1>1 DEF IsQuery
        <5>2. Max({query.page, 1}) = IF query.page >= 1 THEN query.page ELSE 1
          BY <5>1, FirstPage
        <5>3. QED
          BY <1>1, <5>1, <5>2
      <4>4. query.size \in Nat
        BY <4>1, ListingAssumption
      <4>5. QED
        BY <4>1, <4>2, <4>3, <4>4
    <3>2. SizeOf(cfg, cfg.limit) \in Nat
      BY <3>1, SizeIs
    <3>3. Len(w.got) = 0 /\ 0 = (cfg.page - 1) * SizeOf(cfg, cfg.limit)
      BY <1>6, <3>1, <3>2
    <3>4. Len(Ordered(table, cfg)) \in Nat
      <4> DEFINE met == read(table, cfg)
      <4>1. met \in SUBSET DOMAIN table /\ IsFiniteSet(met)
        BY FS_Subset DEF read, IsTable
      <4>2. Len(cfg.orders) \in Nat
        BY <1>1, KeyIs, LenProperties DEF IsQuery
      <4>3. Total(met, {pair \in met \X met : Sorts(table, cfg.orders, pair[1], pair[2])})
        BY <3>1, <4>1, <4>2, SortsTotal
      <4>4. QED
        BY <4>1, <4>3, SortedRows DEF Ordered
    <3>5. w.kept = read(table, cfg) /\ w.at # "find"
      BY <1>3, <1>6
    <3>6. QED
      BY <3>3, <3>4, <3>5 DEF FirstGot
  <2>2. ByNumber(table, w)
    BY <1>6, <2>1 DEF ByNumber
  <2>3. QED
    BY <1>6, <1>7, <1>9, <2>2 DEF WalkOK
<1>10. QED
  BY <1>1, <1>8, <1>9 DEF IsQuery

Answered(a, items, size, cursor) ==
  /\ a.items = SubSeq(items, 1, Min({size, Len(items)})) /\ (a.more <=> Len(items) > size) /\ a.more \in BOOLEAN
  /\ a.cursor = cursor
LEMMA AnswerIs ==
  ASSUME NEW items, NEW size, NEW cursor
  PROVE  Answered(Answer(items, size, cursor), items, size, cursor)
<1> DEFINE page == SubSeq(items, 1, Min({size, Len(items)}))
           more == Len(items) > size
<1>1. more \in BOOLEAN /\ Answer(items, size, cursor) = [err |-> FALSE, items |-> page, more |-> more, cursor |-> cursor]
  BY DEF Answer
<1> HIDE DEF page, more
<1>2. LET a == Answer(items, size, cursor) IN a.items = page /\ a.more = more /\ a.cursor = cursor
  BY <1>1
<1>3. QED
  BY <1>1, <1>2 DEF Answered, page, more

\* What a page by cursor holds.
Ahead(rows, cfg) == {id \in read(rows, cfg) : cfg.cursor = <<>> \/ After(rows, id, cfg.cursor[1], orderOf(cfg))}
LEMMA KeysetIs ==
  ASSUME NEW rows, IsTable(rows), NEW cfg, cfg.cursorSize \in Nat, orderOf(cfg).field \in Columns, ~ keyset(rows, cfg).err
  PROVE  LET order == orderOf(cfg)
             met == Ahead(rows, cfg)
             a == keyset(rows, cfg)
             n == Len(a.items)
         IN  /\ cfg.cursor # <<>> => decodeCursor(cfg.cursor[1], order)
             /\ n \in Nat /\ a.items \in [1..n -> met] /\ met \subseteq DOMAIN rows /\ a.more \in BOOLEAN
             /\ \A i \in 1..n - 1 : Keys(rows, order, a.items[i], a.items[i + 1])
             /\ a.more => /\ n > 0 /\ a.cursor # <<>> /\ a.cursor = encodeCursor(rows, a.items[n], order)
                          /\ \A id \in met : (\E i \in 1..n : a.items[i] = id) \/ Keys(rows, order, a.items[n], id)
             /\ ~ a.more => \A id \in met : \E i \in 1..n : a.items[i] = id
<1> DEFINE off == 0
<1>0. off = 0 /\ off \in Nat
  OBVIOUS
<1> HIDE DEF off
<1> DEFINE order == orderOf(cfg)
           size == SizeOf(cfg, cfg.cursorSize)
           met == {id \in read(rows, cfg) : cfg.cursor = <<>> \/ After(rows, id, cfg.cursor[1], order)}
           R == {pair \in met \X met : Keys(rows, order, pair[1], pair[2])}
           sorted == Sorted(met, R)
           items == PageOf(sorted, off, size)
           next == IF Len(items) > size THEN encodeCursor(rows, items[size], order) ELSE <<>>
           bad == \/ cfg.page > 0 \/ cfg.offset > 0 \/ cfg.limit > 0 \/ Len(cfg.orders) > 1
                  \/ specOf(order.field) = "none"
                  \/ cfg.cursor # <<>> /\ ~ decodeCursor(cfg.cursor[1], order)
                  \/ Len(items) > size /\ next = <<>>
           page == SubSeq(items, 1, Min({size, Len(items)}))
           n == Len(page)
<1>1. size \in Nat \ {0}
  BY SizeIs
<1>2. met \in SUBSET DOMAIN rows /\ IsFiniteSet(met)
  BY FS_Subset DEF IsTable, read
<1>3. Total(met, R)
  BY <1>2, KeysTotal
<1>4. keyset(rows, cfg) = IF bad THEN Refused ELSE Answer(items, size, next)
  <2>1. off + 1 = 1 /\ off + size + 1 = size + 1
    BY <1>0, <1>1
  <2>2. items = SubSeq(sorted, 1, Min({size + 1, Len(sorted)}))
    BY <2>1 DEF PageOf
  <2>3. QED
    BY <2>2 DEF keyset
<1>5. ~ bad
  <2>1. Refused.err = TRUE
    BY DEF Refused
  <2>2. QED
    BY <1>4, <2>1
<1>6. /\ keyset(rows, cfg).items = page /\ (keyset(rows, cfg).more <=> Len(items) > size) /\ keyset(rows, cfg).more \in BOOLEAN
      /\ keyset(rows, cfg).cursor = next
  <2>1. keyset(rows, cfg) = Answer(items, size, next)
    BY <1>4, <1>5
  <2> HIDE DEF items, size, next
  <2>2. QED
    <3>1. Answered(keyset(rows, cfg), items, size, next)
      BY <2>1, AnswerIs
    <3>2. QED
      BY <3>1, Zenon DEF Answered
<1>7. cfg.cursor # <<>> => decodeCursor(cfg.cursor[1], order)
  BY <1>5
<1>8. Len(items) > size => next # <<>> /\ next = encodeCursor(rows, items[size], order)
  BY <1>5
<1>9. met = Ahead(rows, cfg)
  BY DEF Ahead
<1> HIDE DEF order, size, met, bad, next
<1>10. /\ Cardinality(met) \in Nat /\ sorted \in Seq(met) /\ Len(sorted) = Cardinality(met)
       /\ \A x \in met : \E k \in 1..Cardinality(met) : sorted[k] = x
       /\ \A i, k \in 1..Cardinality(met) : i < k => <<sorted[i], sorted[k]>> \in R
  BY <1>2, <1>3, SortedRows
<1>11. \A i, k \in 1..Len(sorted) : i < k => Keys(rows, order, sorted[i], sorted[k])
  <2> SUFFICES ASSUME NEW i \in 1..Len(sorted), NEW k \in 1..Len(sorted), i < k PROVE Keys(rows, order, sorted[i], sorted[k])
    OBVIOUS
  <2>1. <<sorted[i], sorted[k]>> \in R
    BY <1>10
  <2>2. QED
    BY <2>1
<1> HIDE DEF R, sorted
<1>12. /\ page \in Seq(met) /\ Len(items) \in Nat /\ (Len(items) > size <=> Len(sorted) > off + size)
       /\ Len(items) > size => items[size] = sorted[off + size]
       /\ off <= Len(sorted) => n = IF Len(sorted) > off + size THEN size ELSE Len(sorted) - off
       /\ \A i \in 1..n : off + i \in 1..Len(sorted) /\ page[i] = sorted[off + i]
  <2>1. sorted \in Seq(met)
    BY <1>10
  <2>2. QED
    <3>1. IsPage(met, sorted, off, size)
      BY <1>0, <1>1, <2>1, PageIs
    <3>2. QED
      BY <3>1, Zenon DEF IsPage
<1> HIDE DEF items, page
<1>13. n \in Nat /\ page \in [1..n -> met]
  BY <1>12, LenProperties
<1> HIDE DEF n
<1>14. /\ Len(items) > size <=> Len(sorted) > size
       /\ Len(items) > size => items[size] = sorted[size] /\ n = size
       /\ ~ (Len(items) > size) => n = Len(sorted)
       /\ \A i \in 1..n : i \in 1..Len(sorted) /\ page[i] = sorted[i]
  BY <1>0, <1>1, <1>10, <1>12, <1>13
<1>15. \A i \in 1..n - 1 : Keys(rows, order, page[i], page[i + 1])
  <2> SUFFICES ASSUME NEW i \in 1..n - 1 PROVE Keys(rows, order, page[i], page[i + 1])
    OBVIOUS
  <2>1. i \in 1..n /\ i + 1 \in 1..n /\ i < i + 1
    BY <1>13
  <2>2. page[i] = sorted[i] /\ page[i + 1] = sorted[i + 1] /\ i \in 1..Len(sorted) /\ i + 1 \in 1..Len(sorted)
    BY <1>14, <2>1
  <2>3. QED
    BY <1>11, <2>1, <2>2
<1>16. ASSUME Len(items) > size
       PROVE  /\ n > 0 /\ next # <<>> /\ next = encodeCursor(rows, page[n], order)
              /\ \A id \in met : (\E i \in 1..n : page[i] = id) \/ Keys(rows, order, page[n], id)
  <2>1. n = size /\ n > 0 /\ n \in 1..n /\ page[n] = sorted[n] /\ items[size] = page[n] /\ n \in 1..Len(sorted)
    BY <1>1, <1>14, <1>16
  <2>2. ASSUME NEW id \in met PROVE (\E i \in 1..n : page[i] = id) \/ Keys(rows, order, page[n], id)
    <3>1. PICK k \in 1..Len(sorted) : sorted[k] = id
      BY <1>10
    <3>2. CASE k <= n
      BY <1>13, <1>14, <3>1, <3>2
    <3>3. CASE k > n
      BY <1>11, <2>1, <3>1, <3>3
    <3>4. QED
      BY <1>13, <3>2, <3>3
  <2>3. QED
    BY <1>8, <1>16, <2>1, <2>2
<1>17. ASSUME ~ (Len(items) > size), NEW id \in met PROVE \E i \in 1..n : page[i] = id
  <2>1. PICK k \in 1..Len(sorted) : sorted[k] = id
    BY <1>10
  <2>2. k \in 1..n /\ page[k] = sorted[k]
    BY <1>14, <1>17
  <2>3. QED
    BY <2>1, <2>2
<1>18. QED
  <2> DEFINE a == keyset(rows, cfg)
  <2>0. a.items = page /\ n = Len(a.items)
    BY <1>6 DEF n
  <2>6. (a.more <=> Len(items) > size) /\ a.more \in BOOLEAN /\ a.cursor = next
    BY <1>6
  <2> HIDE DEF a
  <2>1. a.items \in [1..n -> met] /\ \A i \in 1..n - 1 : Keys(rows, order, a.items[i], a.items[i + 1])
    BY <1>13, <1>15, <2>0
  <2>2. a.more => /\ n > 0 /\ a.cursor # <<>> /\ a.cursor = encodeCursor(rows, a.items[n], order)
                  /\ \A id \in met : (\E i \in 1..n : a.items[i] = id) \/ Keys(rows, order, a.items[n], id)
    BY <1>16, <2>0, <2>6
  <2>3. ~ a.more => \A id \in met : \E i \in 1..n : a.items[i] = id
    BY <1>17, <2>0, <2>6
  <2>4. n = Len(a.items) /\ n \in Nat
    BY <1>13, <2>0
  <2>5. QED
    BY <1>2, <1>7, <1>9, <2>6, <2>1, <2>2, <2>3, <2>4 DEF a, order

\* The rows of a page as the client gets them, and the walk with them.
GotOf(rows, id, field) == [id |-> id, rid |-> RidOf[id], key |-> Value(rows, id, field)]
GotItems(rows, ids, field) == [i \in 1..Len(ids) |-> GotOf(rows, ids[i], field)]
NextNumber(page, cursors) == IF cursors THEN page ELSE Max({page, 1}) + 1
PageFound(v, w, a, items, q) ==
  w = [at |-> a, query |-> q, order |-> v.order, got |-> v.got \o items, total |-> v.total, kept |-> v.kept, still |-> v.still]
LEMMA FoundIs ==
  ASSUME NEW v, IsWalk(v), NEW a, NEW items, NEW c, NEW k
  PROVE  PageFound(v, [v EXCEPT !.at = a, !.got = @ \o items, !.query.cursor = c, !.query.page = IF k THEN @ ELSE Max({@, 1}) + 1],
               a, items, [v.query EXCEPT !.cursor = c, !.page = NextNumber(v.query.page, k)])
<1> DEFINE w == [v EXCEPT !.at = a, !.got = @ \o items, !.query.cursor = c, !.query.page = IF k THEN @ ELSE Max({@, 1}) + 1]
           g == v.got \o items
           t == [v EXCEPT !.at = a]
           u == [t EXCEPT !.got = g]
           p == [v.query EXCEPT !.cursor = c]
           x == [u EXCEPT !.query.cursor = c]
           n == IF k THEN v.query.page ELSE Max({v.query.page, 1}) + 1
           q == [p EXCEPT !.page = n]
<1>1. t = [at |-> a, query |-> v.query, order |-> v.order, got |-> v.got, total |-> v.total, kept |-> v.kept, still |-> v.still]
  BY DEF IsWalk
<1>2. p.page = v.query.page
  BY DEF IsWalk, IsQuery
<1>3. w = [[[t EXCEPT !.got = t.got \o items] EXCEPT !.query.cursor = c] EXCEPT !.query.page = IF k THEN @ ELSE Max({@, 1}) + 1]
  OBVIOUS
<1>4. t.got = v.got
  BY <1>1
<1> HIDE DEF t, w
<1>5. w = [x EXCEPT !.query.page = IF k THEN @ ELSE Max({@, 1}) + 1]
  BY <1>3, <1>4
<1> HIDE DEF g
<1>6. u = [at |-> a, query |-> v.query, order |-> v.order, got |-> g, total |-> v.total, kept |-> v.kept, still |-> v.still]
  BY <1>1
<1> HIDE DEF u
<1>7. u.query = v.query
  BY <1>6
<1>8. x = [u EXCEPT !.query = [u.query EXCEPT !.cursor = c]]
  OBVIOUS
<1>9. x = [u EXCEPT !.query = p]
  BY <1>7, <1>8
<1> HIDE DEF x, p
<1>10. x = [at |-> a, query |-> p, order |-> v.order, got |-> g, total |-> v.total, kept |-> v.kept, still |-> v.still]
  BY <1>6, <1>9
<1>12. x.query = p
  BY <1>10
<1>13. w = [x EXCEPT !.query = [x.query EXCEPT !.page = IF k THEN x.query.page ELSE Max({x.query.page, 1}) + 1]]
  BY <1>5
<1>14. w = [x EXCEPT !.query = q]
  BY <1>2, <1>12, <1>13
<1> HIDE DEF n, q
<1>15. w = [at |-> a, query |-> q, order |-> v.order, got |-> g, total |-> v.total, kept |-> v.kept, still |-> v.still]
  BY <1>10, <1>14
<1>16. q = [v.query EXCEPT !.cursor = c, !.page = NextNumber(v.query.page, k)]
  BY DEF q, p, n, NextNumber
<1>17. PageFound(v, w, a, items, q)
  BY <1>15 DEF PageFound, g
<1>18. QED
  BY <1>16, <1>17 DEF w

\* The rows of a page have the types of rows got, and one that comes after another as sort keys go has its key beyond.
AreItems(rows, ids, field, items) ==
  /\ items \in Seq(GotRow) /\ Len(items) = Len(ids)
  /\ \A i \in 1..Len(ids) : /\ items[i].id = ids[i] /\ items[i].rid = RidOf[ids[i]]
                            /\ items[i].key = Value(rows, ids[i], field) /\ items[i].rid \in Int /\ items[i].key \in Int
LEMMA GotTypes ==
  ASSUME NEW rows, IsTable(rows), NEW ids, Len(ids) \in Nat, ids \in [1..Len(ids) -> DOMAIN rows], NEW field \in Columns
  PROVE  AreItems(rows, ids, field, GotItems(rows, ids, field))
<1> DEFINE n == Len(ids)
           items == GotItems(rows, ids, field)
<1>1. \A i \in 1..n : ids[i] \in DOMAIN rows
  OBVIOUS
<1>2. \A i \in 1..n : ids[i] \in Int /\ RidOf[ids[i]] \in Int /\ Value(rows, ids[i], field) \in Int
  BY <1>1, RowFacts
<1> HIDE DEF n
<1>3. \A i \in 1..n : GotOf(rows, ids[i], field) \in GotRow
  BY <1>2 DEF GotOf, GotRow
<1>4. items = [i \in 1..n |-> GotOf(rows, ids[i], field)]
  BY DEF GotItems, n
<1>5. items \in [1..n -> GotRow]
  BY <1>3, <1>4
<1>6. n \in Nat
  BY DEF n
<1>7. items \in Seq(GotRow)
  BY <1>5, <1>6
<1>8. Len(items) = n
  BY <1>5, <1>6, <1>7, LenProperties
<1>9. \A i \in 1..n : /\ items[i].id = ids[i] /\ items[i].rid = RidOf[ids[i]] /\ items[i].key = Value(rows, ids[i], field)
  BY <1>4 DEF GotOf
<1>10. QED
  BY <1>2, <1>7, <1>8, <1>9 DEF AreItems, n

\* What was got, put together.
Join(S, a, b, g) ==
  /\ Len(a) \in Nat /\ Len(b) \in Nat /\ g \in Seq(S) /\ Len(g) = Len(a) + Len(b)
  /\ \A i \in 1..Len(a) : g[i] = a[i]
  /\ \A i \in 1..Len(b) : g[Len(a) + i] = b[i]
LEMMA Joined ==
  ASSUME NEW S, NEW a \in Seq(S), NEW b \in Seq(S)
  PROVE  Join(S, a, b, a \o b)
<1>1. Len(a) \in Nat /\ Len(b) \in Nat /\ a \o b \in Seq(S) /\ Len(a \o b) = Len(a) + Len(b)
  BY LenProperties, ConcatProperties
<1>2. \A i \in 1..Len(a) + Len(b) : (a \o b)[i] = IF i <= Len(a) THEN a[i] ELSE b[i - Len(a)]
  BY ConcatProperties
<1>3. ASSUME NEW i \in 1..Len(a) PROVE (a \o b)[i] = a[i]
  BY <1>1, <1>2
<1>4. ASSUME NEW i \in 1..Len(b) PROVE (a \o b)[Len(a) + i] = b[i]
  <2>1. Len(a) + i \in 1..Len(a) + Len(b) /\ ~ (Len(a) + i <= Len(a)) /\ (Len(a) + i) - Len(a) = i
    BY <1>1
  <2>2. QED
    BY <1>2, <2>1
<1>5. QED
  BY <1>1, <1>3, <1>4 DEF Join

LEMMA JoinedIds ==
  ASSUME NEW a \in Seq(GotRow), NEW b \in Seq(GotRow)
  PROVE  \A id : id \in IdsIn(a \o b) <=> id \in IdsIn(a) \/ \E i \in 1..Len(b) : b[i].id = id
<1> DEFINE g == a \o b
           m == Len(a)
           n == Len(b)
<1>1. /\ m \in Nat /\ n \in Nat /\ Len(g) = m + n
      /\ \A i \in 1..m : g[i] = a[i]
      /\ \A i \in 1..n : g[m + i] = b[i]
  <2>1. Join(GotRow, a, b, g)
    BY Joined
  <2> HIDE DEF g
  <2>2. QED
    BY <2>1 DEF Join
<1> HIDE DEF g, m, n
<1> SUFFICES ASSUME NEW id
             PROVE  (\E i \in 1..m + n : g[i].id = id) <=> (\E i \in 1..m : a[i].id = id) \/ \E i \in 1..n : b[i].id = id
  BY <1>1 DEF IdsIn, g, m, n
<1>2. ASSUME NEW i \in 1..m + n, g[i].id = id PROVE (\E j \in 1..m : a[j].id = id) \/ \E j \in 1..n : b[j].id = id
  <2>1. CASE i <= m
    <3>1. i \in 1..m
      BY <1>1, <2>1
    <3>2. a[i].id = id
      BY <1>1, <1>2, <3>1
    <3>3. QED
      BY <3>1, <3>2
  <2>2. CASE i > m
    <3>1. i - m \in 1..n /\ m + (i - m) = i
      BY <1>1, <2>2
    <3>2. b[i - m].id = id
      BY <1>1, <1>2, <3>1
    <3>3. QED
      BY <3>1, <3>2
  <2>3. QED
    BY <1>1, <2>1, <2>2
<1>3. ASSUME NEW i \in 1..m, a[i].id = id PROVE \E j \in 1..m + n : g[j].id = id
  BY <1>1, <1>3
<1>4. ASSUME NEW i \in 1..n, b[i].id = id PROVE \E j \in 1..m + n : g[j].id = id
  <2>1. m + i \in 1..m + n
    BY <1>1
  <2>2. QED
    BY <1>1, <1>4, <2>1
<1>5. QED
  BY <1>2, <1>3, <1>4

\* A page by cursor: its rows go on from those got, and a row that stayed is got now or still ahead.
LEMMA FindByCursor ==
  ASSUME IsTable(table), IsWalk(walk), WalkOK(table, walk), walk.at = "find", walk.query.cursors,
         ~ keyset(table, ListFromQuery(walk.query)).err, NEW w, NEW q,
         LET cfg == ListFromQuery(walk.query)
             a == keyset(table, cfg)
         IN  /\ Anew(walk.query, q, a.cursor, walk.query.page)
             /\ PageFound(walk, w, IF a.more THEN "more" ELSE "done", GotItems(table, a.items, orderOf(cfg).field), q)
  PROVE  WalkOK(table, w)
<1> DEFINE cfg == ListFromQuery(walk.query)
           order == KeyOf(walk.order)
           a == keyset(table, cfg)
           field == orderOf(cfg).field
           items == GotItems(table, a.items, field)
           met == Ahead(table, cfg)
           at == IF a.more THEN "more" ELSE "done"
           n == Len(a.items)
           got == walk.got
           m == Len(got)
<1>1. IsQuery(walk.query) /\ ~ cfg.err /\ got \in Seq(GotRow) /\ walk.order \in Seq(Part)
  BY DEF IsWalk
<1>2. PageFound(walk, w, at, items, q)
  OBVIOUS
<1>3. ByCursor(table, walk)
  <2>1. walk # NoWalk
    BY DEF IsWalk, NoWalk
  <2>2. QED
    BY <2>1 DEF WalkOK
<1>4. CursorAt(walk, order) /\ KeptAhead(table, walk, order)
  BY <1>3 DEF ByCursor, Walking
<1>5. /\ IsQuery(q) /\ q.order = walk.query.order /\ q.cursors = walk.query.cursors /\ q.cursor = a.cursor
      /\ q.filters = walk.query.filters
  BY DEF Anew
<1>6. /\ cfg.cursor = walk.query.cursor /\ cfg.cursorSize \in Nat
      /\ orderOf(cfg) = KeyOf(walk.query.order) /\ orderOf(cfg).field \in Columns
  <2>1. cfg.cursor = walk.query.cursor /\ cfg.cursorSize = IF walk.query.size > 0 THEN walk.query.size ELSE 0
    BY <1>1, ConfigIs
  <2>2. walk.query.size \in Int
    BY <1>1 DEF IsQuery
  <2>3. orderOf(cfg) = KeyOf(walk.query.order) /\ KeyOf(walk.query.order).field \in Columns
    BY <1>1, KeyIs
  <2>4. cfg.cursorSize \in Nat
    BY <2>1, <2>2
  <2>5. QED
    BY <2>1, <2>3, <2>4
<1>7. /\ cfg.cursor # <<>> => decodeCursor(cfg.cursor[1], orderOf(cfg))
      /\ n \in Nat /\ a.items \in [1..n -> met] /\ met \subseteq DOMAIN table /\ a.more \in BOOLEAN
      /\ \A i \in 1..n - 1 : Keys(table, orderOf(cfg), a.items[i], a.items[i + 1])
      /\ a.more => /\ n > 0 /\ a.cursor # <<>> /\ a.cursor = encodeCursor(table, a.items[n], orderOf(cfg))
                   /\ \A id \in met : (\E i \in 1..n : a.items[i] = id) \/ Keys(table, orderOf(cfg), a.items[n], id)
      /\ ~ a.more => \A id \in met : \E i \in 1..n : a.items[i] = id
  BY <1>6, KeysetIs
<1> HIDE DEF cfg, a, n, got, m, met, at
<1>8. orderOf(cfg) = order
  <2>1. CASE walk.query.order = walk.order
    BY <1>6, <2>1
  <2>2. CASE walk.query.order # walk.order
    <3>1. walk.query.cursor = <<TokenOf(walk.got[Len(walk.got)], order)>>
      BY <1>4, <2>2 DEF CursorAt
    <3>2. cfg.cursor # <<>> /\ cfg.cursor[1] = TokenOf(walk.got[Len(walk.got)], order)
      BY <1>6, <3>1
    <3>3. TokenOf(walk.got[Len(walk.got)], order).order = orderOf(cfg)
      BY <1>7, <3>2 DEF decodeCursor
    <3>4. QED
      BY <3>3 DEF TokenOf
  <2>3. QED
    BY <2>1, <2>2
<1> HIDE DEF order
<1>9. field = order.field /\ order.field \in Columns
  BY <1>6, <1>8
<1> HIDE DEF field
<1>10. /\ items \in Seq(GotRow) /\ Len(items) = n
       /\ \A i \in 1..n : /\ items[i].id = a.items[i] /\ items[i].rid = RidOf[a.items[i]]
                          /\ items[i].key = Value(table, a.items[i], field) /\ items[i].rid \in Int /\ items[i].key \in Int
  <2>1. a.items \in [1..n -> DOMAIN table]
    BY <1>7
  <2>2. AreItems(table, a.items, field, items)
    BY <1>7, <1>9, <2>1, GotTypes DEF n
  <2> HIDE DEF items
  <2>3. QED
    BY <2>2 DEF AreItems, n
<1> HIDE DEF items
<1>11. /\ w.at = at /\ w.query = q /\ w.order = walk.order /\ w.got = got \o items /\ w.total = walk.total
       /\ w.kept = walk.kept /\ w.still = walk.still /\ WalkRecord(w)
  <2> DEFINE g == got \o items
  <2>1. w = [at |-> at, query |-> q, order |-> walk.order, got |-> g, total |-> walk.total, kept |-> walk.kept, still |-> walk.still]
    BY <1>2 DEF PageFound, got
  <2> HIDE DEF g
  <2>2. /\ w.at = at /\ w.query = q /\ w.order = walk.order /\ w.got = g /\ w.total = walk.total
        /\ w.kept = walk.kept /\ w.still = walk.still
    BY <2>1
  <2>3. WalkRecord(w)
    BY <2>1, <2>2 DEF WalkRecord
  <2>4. QED
    BY <2>2, <2>3 DEF g
<1> DEFINE g == got \o items
<1>12. /\ m \in Nat /\ g \in Seq(GotRow) /\ Len(g) = m + n
       /\ \A i \in 1..m : g[i] = got[i]
       /\ \A i \in 1..n : g[m + i] = items[i]
  <2>1. items \in Seq(GotRow) /\ Len(items) = n /\ got \in Seq(GotRow)
    BY <1>1, <1>10
  <2>2. Join(GotRow, got, items, g)
    BY <2>1, Joined
  <2> HIDE DEF g
  <2>3. QED
    BY <2>1, <2>2 DEF Join, m
<1>13. \A id : id \in IdsIn(g) <=> id \in IdsIn(got) \/ \E i \in 1..n : items[i].id = id
  BY <1>1, <1>10, JoinedIds
<1> HIDE DEF g
<1>14. IsWalk(w)
  <2>1. at \in {"more", "done"}
    BY DEF at
  <2>2. w.query = q /\ w.got = g
    BY <1>11 DEF g
  <2>3. QED
    BY <1>1, <1>5, <1>11, <1>12, <2>1, <2>2 DEF IsWalk, WalkRecord
<1>15. \A i \in 1..n : a.items[i] \in met /\ a.items[i] \in DOMAIN table
  BY <1>7
<1>16. order.field = "id" => \A i \in 1..Len(g) : g[i].key = g[i].rid
  <2> SUFFICES ASSUME order.field = "id", NEW i \in 1..Len(g) PROVE g[i].key = g[i].rid
    OBVIOUS
  <2>1. CASE i <= m
    <3>1. i \in 1..m /\ g[i] = got[i]
      BY <1>12, <2>1
    <3>2. QED
      BY <1>3, <3>1 DEF ByCursor, order, got, m
  <2>2. CASE i > m
    <3>1. i - m \in 1..n /\ g[i] = items[i - m]
      <4>1. i - m \in 1..n /\ m + (i - m) = i
        BY <1>7, <1>12, <2>2
      <4>2. g[m + (i - m)] = items[i - m]
        BY <1>12, <4>1
      <4>3. QED
        BY <4>1, <4>2
    <3>2. items[i - m].key = items[i - m].rid
      BY <1>9, <1>10, <3>1 DEF Value
    <3>3. QED
      BY <3>1, <3>2
  <2>3. QED
    BY <1>12, <2>1, <2>2
<1>17. Ascends(g, order)
  <2> DEFINE Follows(x, y) == \/ Beyond(order.desc, y.key, x.key)
                              \/ y.key = x.key /\ Beyond(order.desc, y.rid, x.rid)
  <2> SUFFICES ASSUME NEW i \in 1..Len(g) - 1 PROVE Follows(g[i], g[i + 1])
    BY DEF Ascends
  <2>1. CASE i < m
    <3>1. i \in 1..m - 1 /\ g[i] = got[i] /\ g[i + 1] = got[i + 1]
      BY <1>12, <2>1
    <3>2. QED
      BY <1>3, <3>1 DEF ByCursor, Ascends, order, got, m
  <2>2. CASE i = m
    <3>1. 1 \in 1..n /\ m \in 1..m /\ g[i] = got[m]
      BY <1>7, <1>12, <2>2
    <3>2. g[i + 1] = items[1]
      BY <1>12, <2>2, <3>1
    <3>3. walk.query.cursor = <<TokenOf(got[m], order)>>
      <4>1. got # <<>>
        BY <3>1 DEF m
      <4>2. QED
        BY <1>4, <4>1 DEF CursorAt, got, m
    <3>4. cfg.cursor # <<>> /\ cfg.cursor[1] = TokenOf(got[m], order)
      BY <1>6, <3>3
    <3>5. After(table, a.items[1], TokenOf(got[m], order), order)
      BY <1>8, <1>15, <3>1, <3>4 DEF met, Ahead
    <3>6. TokenOf(got[m], order).value = got[m].key /\ TokenOf(got[m], order).rid = got[m].rid
      BY DEF TokenOf
    <3>7. \/ order.field # "id" /\ Beyond(order.desc, items[1].key, got[m].key)
          \/ (items[1].key = got[m].key \/ order.field = "id") /\ Beyond(order.desc, items[1].rid, got[m].rid)
      BY <1>9, <1>10, <3>1, <3>5, <3>6 DEF After
    <3>8. order.field = "id" => items[1].key = items[1].rid /\ got[m].key = got[m].rid
      <4>1. Len(g) \in Nat /\ i \in 1..Len(g) /\ i + 1 \in 1..Len(g)
        BY <1>7, <1>12
      <4>2. QED
        BY <1>16, <3>1, <3>2, <4>1
    <3>9. QED
      BY <3>1, <3>2, <3>7, <3>8
  <2>3. CASE i > m
    <3> DEFINE j == i - m
    <3>1. j \in 1..n - 1 /\ j \in 1..n /\ j + 1 \in 1..n /\ m + j = i /\ m + (j + 1) = i + 1
      BY <1>7, <1>12, <2>3
    <3> HIDE DEF j
    <3>2. g[m + j] = items[j] /\ g[m + (j + 1)] = items[j + 1]
      BY <1>12, <3>1
    <3>3. Keys(table, order, a.items[j], a.items[j + 1])
      BY <1>7, <1>8, <3>1
    <3>4. Follows(items[j], items[j + 1])
      BY <1>9, <1>10, <3>1, <3>3 DEF Keys
    <3>5. QED
      BY <3>1, <3>2, <3>4
  <2>4. QED
    BY <1>12, <2>1, <2>2, <2>3
<1>18. \A id \in walk.kept : id \in read(table, cfg) /\ (id \in IdsIn(got) \/ id \in met)
  <2> SUFFICES ASSUME NEW id \in walk.kept PROVE id \in read(table, cfg) /\ (id \in IdsIn(got) \/ id \in met)
    OBVIOUS
  <2>1. /\ id \in read(table, cfg)
        /\ walk.query.cursor = <<>> \/ id \in IdsIn(got) \/ After(table, id, walk.query.cursor[1], order)
    BY <1>4 DEF KeptAhead, cfg, got
  <2>2. QED
    BY <1>6, <1>8, <2>1 DEF met, Ahead
<1>19. \A id : (\E i \in 1..n : a.items[i] = id) => id \in IdsIn(g)
  BY <1>10, <1>13
<1>20. CASE a.more
  <2>1. at = "more" /\ n > 0 /\ n \in 1..n
    BY <1>7, <1>20 DEF at
  <2>2. a.cursor = <<TokenOf(items[n], order)>>
    <3> DEFINE id == a.items[n]
               v == Value(table, id, order.field)
    <3>1. a.cursor # <<>> /\ a.cursor = encodeCursor(table, id, order)
      BY <1>7, <1>8, <1>20
    <3>2. items[n].key = v /\ items[n].rid = RidOf[id]
      BY <1>9, <1>10, <2>1
    <3> HIDE DEF id, v
    <3>3. encodeValue(order.field, v) # <<>> => encodeValue(order.field, v)[1].kind = specOf(order.field) /\ encodeValue(order.field, v)[1].value = v
      BY DEF encodeValue
    <3>4. encodeValue(order.field, v) # <<>>
      BY <3>1 DEF encodeCursor, v
    <3>5. a.cursor = <<[v |-> 1, order |-> order, kind |-> encodeValue(order.field, v)[1].kind,
                        value |-> encodeValue(order.field, v)[1].value, rid |-> RidOf[id]]>>
      BY <3>1, <3>4 DEF encodeCursor, v
    <3>6. a.cursor = <<[v |-> 1, order |-> order, kind |-> specOf(order.field), value |-> v, rid |-> RidOf[id]]>>
      BY <3>3, <3>4, <3>5
    <3>7. QED
      BY <3>2, <3>6 DEF TokenOf
  <2>3. m + n \in 1..m + n /\ g[Len(g)] = items[n] /\ g # <<>>
    <3>1. m + n > 0 /\ g[m + n] = items[n] /\ Len(g) = m + n
      BY <1>12, <2>1
    <3>2. g # <<>>
      BY <3>1
    <3>3. QED
      BY <1>7, <1>12, <3>1, <3>2
  <2>4. CursorAt(w, order)
    BY <1>5, <1>11, <2>2, <2>3 DEF CursorAt, g
  <2>5. KeptAhead(table, w, order)
    <3> SUFFICES ASSUME NEW id \in walk.kept
                 PROVE  /\ id \in read(table, ListFromQuery(q))
                        /\ id \in IdsIn(g) \/ After(table, id, TokenOf(items[n], order), order)
      <4>1. w.query.cursor = <<TokenOf(items[n], order)>> /\ w.query.cursor[1] = TokenOf(items[n], order)
        BY <1>5, <1>11, <2>2
      <4>2. w.kept = walk.kept /\ w.query = q /\ w.got = g
        BY <1>11 DEF g
      <4>3. QED
        BY <4>1, <4>2 DEF KeptAhead
    <3>1. id \in read(table, ListFromQuery(q))
      BY <1>1, <1>5, <1>18, ReadIs DEF cfg
    <3>2. CASE id \in IdsIn(got)
      BY <1>13, <3>1, <3>2
    <3>3. CASE id \in met /\ Keys(table, order, a.items[n], id)
      <4>1. items[n].key = Value(table, a.items[n], order.field) /\ items[n].rid = RidOf[a.items[n]]
        BY <1>9, <1>10, <2>1
      <4>2. TokenOf(items[n], order).value = items[n].key /\ TokenOf(items[n], order).rid = items[n].rid
        BY DEF TokenOf
      <4>3. \/ Beyond(order.desc, Value(table, id, order.field), items[n].key)
            \/ items[n].key = Value(table, id, order.field) /\ Beyond(order.desc, RidOf[id], items[n].rid)
        BY <3>3, <4>1 DEF Keys
      <4>4. order.field = "id" => Value(table, id, order.field) = RidOf[id] /\ items[n].key = items[n].rid
        BY <4>1 DEF Value
      <4>5. After(table, id, TokenOf(items[n], order), order)
        BY <4>2, <4>3, <4>4 DEF After
      <4>6. QED
        BY <3>1, <4>5
    <3>4. QED
      BY <1>7, <1>8, <1>18, <1>19, <1>20, <3>1, <3>2, <3>3
  <2>6. ByCursor(table, w)
    <3>1. w.at = "more" /\ w.order = walk.order /\ w.got = g
      BY <1>11, <2>1 DEF g
    <3>2. QED
      BY <1>16, <1>17, <2>4, <2>5, <3>1 DEF ByCursor, order
  <2>7. QED
    BY <1>5, <1>11, <1>14, <2>6 DEF WalkOK
<1>21. CASE ~ a.more
  <2>1. at = "done"
    BY <1>21 DEF at
  <2>2. walk.kept \subseteq IdsIn(g)
    BY <1>7, <1>13, <1>18, <1>19, <1>21
  <2>3. w.at = "done" /\ w.order = walk.order /\ w.got = g /\ w.kept = walk.kept
    BY <1>11, <2>1 DEF g
  <2>4. ByCursor(table, w)
    BY <1>16, <1>17, <2>2, <2>3 DEF ByCursor, Walking, order
  <2>5. QED
    BY <1>5, <1>11, <1>14, <2>4 DEF WalkOK
<1>22. QED
  BY <1>20, <1>21

\* What a numbered page holds.
Numbered(rows, cfg) ==
  LET size == SizeOf(cfg, cfg.limit)
      off == (cfg.page - 1) * size
      met == read(rows, cfg)
      sorted == Ordered(rows, cfg)
      a == List(rows, cfg)
      n == Len(a.items)
  IN  /\ size \in Nat /\ off \in Nat /\ off + size = cfg.page * size
      /\ sorted \in Seq(met) /\ Len(sorted) \in Nat /\ Len(sorted) = Cardinality(met)
      /\ \A id \in met : \E i \in 1..Len(sorted) : sorted[i] = id
      /\ n \in Nat /\ a.items \in [1..n -> DOMAIN rows] /\ a.more \in BOOLEAN
      /\ \A i \in 1..n : off + i \in 1..Len(sorted) /\ a.items[i] = sorted[off + i]
      /\ off <= Len(sorted) => IF a.more THEN n = size /\ Len(sorted) > off + size ELSE off + n = Len(sorted)
LEMMA ListIs ==
  ASSUME NEW rows, IsTable(rows), NEW cfg, cfg.limit \in Nat, cfg.page \in Nat \ {0}, Len(cfg.orders) \in Nat,
         \A i \in 1..Len(cfg.orders) : cfg.orders[i].field \in Columns, ~ List(rows, cfg).err
  PROVE  Numbered(rows, cfg)
<1> DEFINE size == SizeOf(cfg, cfg.limit)
           off == (cfg.page - 1) * size
           met == read(rows, cfg)
           R == {pair \in met \X met : Sorts(rows, cfg.orders, pair[1], pair[2])}
           sorted == Sorted(met, R)
           items == PageOf(sorted, off, size)
           page == SubSeq(items, 1, Min({size, Len(items)}))
           n == Len(page)
           a == List(rows, cfg)
<1>1. size \in Nat \ {0}
  BY SizeIs
<1>2. met \in SUBSET DOMAIN rows /\ IsFiniteSet(met)
  BY FS_Subset DEF IsTable, read
<1>3. Total(met, R)
  BY <1>2, SortsTotal
<1>4. a = IF off > MaxOffset THEN Refused ELSE Answer(items, size, <<>>)
  <2>1. cfg.page > 0
    OBVIOUS
  <2>2. QED
    BY <2>1 DEF List, PageOf
<1>5. a = Answer(items, size, <<>>)
  <2>1. Refused.err = TRUE
    BY DEF Refused
  <2>2. QED
    BY <1>4, <2>1
<1>6. sorted = Ordered(rows, cfg)
  BY DEF Ordered
<1>7. off \in Nat /\ off + size = cfg.page * size
  <2> DEFINE p == cfg.page
  <2>1. p \in Nat \ {0}
    OBVIOUS
  <2> HIDE DEF p, size
  <2>2. (p - 1) * size \in Nat /\ (p - 1) * size + size = p * size
    BY <1>1, <2>1
  <2>3. QED
    BY <2>2 DEF p
<1> HIDE DEF size, off, met, R
<1>8. /\ Cardinality(met) \in Nat /\ sorted \in Seq(met) /\ Len(sorted) = Cardinality(met)
      /\ \A x \in met : \E k \in 1..Cardinality(met) : sorted[k] = x
  BY <1>2, <1>3, SortedRows
<1> HIDE DEF sorted
<1>9. IsPage(met, sorted, off, size)
  BY <1>1, <1>7, <1>8, PageIs
<1>10. /\ page \in Seq(met) /\ Len(items) \in Nat /\ (Len(items) > size <=> Len(sorted) > off + size)
       /\ off <= Len(sorted) => n = IF Len(sorted) > off + size THEN size ELSE Len(sorted) - off
       /\ \A i \in 1..n : off + i \in 1..Len(sorted) /\ page[i] = sorted[off + i]
  BY <1>9, Zenon DEF IsPage
<1> HIDE DEF items, a
<1>11. Answered(a, items, size, <<>>)
  BY <1>5, AnswerIs
<1>12. a.items = page /\ (a.more <=> Len(items) > size) /\ a.more \in BOOLEAN
  BY <1>11, Zenon DEF Answered
<1> HIDE DEF page
<1>13. n \in Nat /\ page \in [1..n -> met]
  BY <1>10, LenProperties
<1>14. page \in [1..n -> DOMAIN rows]
  BY <1>2, <1>13
<1> HIDE DEF n
<1>15. off <= Len(sorted) => IF a.more THEN n = size /\ Len(sorted) > off + size ELSE off + n = Len(sorted)
  BY <1>1, <1>7, <1>8, <1>10, <1>12
<1>16. n = Len(a.items)
  BY <1>12 DEF n
<1>17. \A i \in 1..n : off + i \in 1..Len(sorted) /\ a.items[i] = sorted[off + i]
  BY <1>10, <1>12
<1>18. a.items \in [1..n -> DOMAIN rows]
  BY <1>12, <1>14
<1>19. Len(sorted) \in Nat /\ \A id \in met : \E i \in 1..Len(sorted) : sorted[i] = id
  BY <1>8
<1>20. size \in Nat
  BY <1>1
<1>21. QED
  BY <1>6, <1>7, <1>8, <1>12, <1>13, <1>15, <1>16, <1>17, <1>18, <1>19, <1>20 DEF Numbered, a, size, off, met

\* A numbered page: the rows got are still the first of all, and with the last page all of them.
LEMMA FindByNumber ==
  ASSUME IsTable(table), IsWalk(walk), WalkOK(table, walk), walk.at = "find", ~ walk.query.cursors,
         ~ List(table, ListFromQuery(walk.query)).err, NEW w, NEW q,
         LET cfg == ListFromQuery(walk.query)
             a == List(table, cfg)
         IN  /\ Anew(walk.query, q, a.cursor, Max({walk.query.page, 1}) + 1)
             /\ PageFound(walk, w, IF a.more THEN "more" ELSE "done", GotItems(table, a.items, orderOf(cfg).field), q)
  PROVE  WalkOK(table, w)
<1> DEFINE cfg == ListFromQuery(walk.query)
           next == ListFromQuery(q)
           a == List(table, cfg)
           field == orderOf(cfg).field
           items == GotItems(table, a.items, field)
           at == IF a.more THEN "more" ELSE "done"
           n == Len(a.items)
           got == walk.got
           m == Len(got)
           met == read(table, cfg)
           sorted == Ordered(table, cfg)
           size == SizeOf(cfg, cfg.limit)
           off == (cfg.page - 1) * size
<1>1. IsQuery(walk.query) /\ ~ cfg.err /\ got \in Seq(GotRow) /\ walk.order \in Seq(Part)
  BY DEF IsWalk
<1>2. PageFound(walk, w, at, items, q)
  OBVIOUS
<1>3. ByNumber(table, walk)
  <2>1. walk # NoWalk
    BY DEF IsWalk, NoWalk
  <2>2. QED
    BY <2>1 DEF WalkOK
<1>4. walk.query.order = walk.order /\ (walk.still => FirstGot(table, walk, cfg))
  BY <1>1, <1>3 DEF ByNumber, Walking
<1>5. /\ IsQuery(q) /\ q.page = Max({walk.query.page, 1}) + 1 /\ q.size = walk.query.size /\ q.order = walk.query.order
      /\ ~ q.cursors /\ q.filters = walk.query.filters
  BY DEF Anew
<1>6. /\ cfg.limit \in Nat /\ cfg.page \in Nat \ {0} /\ cfg.orders = OrdersOf(walk.query.order) /\ Len(cfg.orders) \in Nat
      /\ cfg.fromQuery = TRUE /\ cfg.limit = walk.query.size /\ cfg.page = Max({walk.query.page, 1})
      /\ (\A i \in 1..Len(cfg.orders) : cfg.orders[i].field \in Columns) /\ field \in Columns
  <2>1. /\ cfg.orders = OrdersOf(walk.query.order) /\ cfg.fromQuery = TRUE /\ cfg.limit = walk.query.size
        /\ cfg.page = Max({walk.query.page, 1}) /\ walk.query.size \in 0..maxPageSize
    BY <1>1, ConfigIs
  <2>2. Len(cfg.orders) = Len(walk.query.order) /\ field \in Columns
        /\ \A i \in 1..Len(walk.query.order) : cfg.orders[i].field \in Columns
    BY <1>1, KeyIs
  <2>3. Len(walk.query.order) \in Nat /\ walk.query.page \in Int
    BY <1>1, LenProperties DEF IsQuery
  <2>4. Max({walk.query.page, 1}) \in Nat \ {0}
    BY <2>3, FirstPage
  <2>5. walk.query.size \in Nat
    BY <2>1, ListingAssumption
  <2>6. QED
    BY <2>1, <2>2, <2>3, <2>4, <2>5
<1>7. /\ size \in Nat /\ off \in Nat /\ off + size = cfg.page * size
      /\ sorted \in Seq(met) /\ Len(sorted) \in Nat /\ Len(sorted) = Cardinality(met)
      /\ \A id \in met : \E i \in 1..Len(sorted) : sorted[i] = id
      /\ n \in Nat /\ a.items \in [1..n -> DOMAIN table] /\ a.more \in BOOLEAN
      /\ \A i \in 1..n : off + i \in 1..Len(sorted) /\ a.items[i] = sorted[off + i]
      /\ off <= Len(sorted) => IF a.more THEN n = size /\ Len(sorted) > off + size ELSE off + n = Len(sorted)
  <2>1. Numbered(table, cfg)
    BY <1>6, ListIs
  <2>2. QED
    BY <2>1, Zenon DEF Numbered
<1>8. ~ next.err => /\ read(table, next) = met /\ Ordered(table, next) = sorted
                    /\ next.page = cfg.page + 1 /\ SizeOf(next, next.limit) = size
  <2>1. /\ next.orders = OrdersOf(q.order) /\ next.fromQuery = TRUE /\ next.limit = q.size /\ next.page = Max({q.page, 1})
    BY <1>5, ConfigIs
  <2>2. q.page \in Int /\ q.page > 1 /\ q.page = cfg.page + 1
    BY <1>5, <1>6
  <2>3. Max({q.page, 1}) = q.page
    BY <2>2, FirstPage
  <2>4. read(table, next) = met
    BY <1>1, <1>5, ReadIs
  <2>5. next.orders = cfg.orders /\ next.limit = cfg.limit /\ next.fromQuery = cfg.fromQuery /\ next.page = cfg.page + 1
    BY <1>5, <1>6, <2>1, <2>2, <2>3
  <2>6. SizeOf(next, next.limit) = size
    BY <2>5 DEF SizeOf
  <2>7. Ordered(table, next) = sorted
    BY <2>4, <2>5 DEF Ordered
  <2>8. QED
    BY <2>4, <2>5, <2>6, <2>7
<1> HIDE DEF cfg, next, a, n, got, m, at, field, met, sorted, size, off
<1>9. AreItems(table, a.items, field, items)
  BY <1>6, <1>7, GotTypes DEF n
<1> HIDE DEF items
<1>10. /\ items \in Seq(GotRow) /\ Len(items) = n /\ \A i \in 1..n : items[i].id = a.items[i]
  BY <1>9 DEF AreItems, n
<1>11. /\ w.at = at /\ w.query = q /\ w.order = walk.order /\ w.got = got \o items /\ w.total = walk.total
       /\ w.kept = walk.kept /\ w.still = walk.still /\ WalkRecord(w)
  <2> DEFINE g == got \o items
  <2>1. w = [at |-> at, query |-> q, order |-> walk.order, got |-> g, total |-> walk.total, kept |-> walk.kept, still |-> walk.still]
    BY <1>2 DEF PageFound, got
  <2> HIDE DEF g
  <2>2. /\ w.at = at /\ w.query = q /\ w.order = walk.order /\ w.got = g /\ w.total = walk.total
        /\ w.kept = walk.kept /\ w.still = walk.still
    BY <2>1
  <2>3. WalkRecord(w)
    BY <2>1, <2>2 DEF WalkRecord
  <2>4. QED
    BY <2>2, <2>3 DEF g
<1> DEFINE g == got \o items
<1>12. /\ m \in Nat /\ g \in Seq(GotRow) /\ Len(g) = m + n
       /\ \A i \in 1..m : g[i] = got[i]
       /\ \A i \in 1..n : g[m + i] = items[i]
  <2>1. items \in Seq(GotRow) /\ Len(items) = n /\ got \in Seq(GotRow)
    BY <1>1, <1>10
  <2>2. Join(GotRow, got, items, g)
    BY <2>1, Joined
  <2> HIDE DEF g
  <2>3. QED
    BY <2>1, <2>2 DEF Join, m
<1>13. w.got = g
  BY <1>11
<1> HIDE DEF g
<1>14. IsWalk(w)
  <2>1. at \in {"more", "done"}
    BY DEF at
  <2>2. QED
    BY <1>1, <1>5, <1>11, <1>12, <1>13, <2>1 DEF IsWalk, WalkRecord
<1>15. ASSUME walk.still
       PROVE  /\ walk.kept = met /\ walk.total = Cardinality(met) /\ m = off /\ off <= Len(sorted)
              /\ \A i \in 1..m + n : i \in 1..Len(sorted) /\ g[i].id = sorted[i]
  <2>1. /\ walk.kept = met /\ walk.total = Cardinality(met) /\ m = off /\ off <= Len(sorted)
        /\ \A i \in 1..m : got[i].id = sorted[i]
    BY <1>4, <1>15 DEF FirstGot, met, got, m, off, sorted, size
  <2>2. ASSUME NEW i \in 1..m + n PROVE i \in 1..Len(sorted) /\ g[i].id = sorted[i]
    <3>1. CASE i <= m
      <4>1. i \in 1..m /\ i \in 1..Len(sorted)
        BY <1>7, <1>12, <2>1, <3>1
      <4>2. QED
        BY <1>12, <2>1, <4>1
    <3>2. CASE i > m
      <4> DEFINE j == i - m
      <4>1. j \in 1..n /\ m + j = i /\ off + j = i
        BY <1>7, <1>12, <2>1, <3>2
      <4> HIDE DEF j
      <4>2. g[m + j] = items[j] /\ items[j].id = a.items[j] /\ off + j \in 1..Len(sorted) /\ a.items[j] = sorted[off + j]
        BY <1>7, <1>10, <1>12, <4>1
      <4>3. QED
        BY <4>1, <4>2
    <3>3. QED
      BY <1>7, <1>12, <3>1, <3>2
  <2>3. QED
    BY <2>1, <2>2
<1>16. CASE a.more
  <2>1. w.at = "more"
    BY <1>11, <1>16 DEF at
  <2>2. ASSUME walk.still, ~ next.err PROVE FirstGot(table, w, next)
    <3>1. m + n = off + size /\ m + n <= Len(sorted) /\ m + n = cfg.page * size
      BY <1>7, <1>15, <1>16, <2>2
    <3>2. (next.page - 1) * SizeOf(next, next.limit) = cfg.page * size
      <4>1. next.page = cfg.page + 1 /\ SizeOf(next, next.limit) = size
        BY <1>8, <2>2
      <4>2. next.page - 1 = cfg.page
        BY <1>6, <4>1
      <4>3. QED
        BY <4>1, <4>2
    <3>3. w.kept = read(table, next) /\ Len(w.got) = (next.page - 1) * SizeOf(next, next.limit)
      BY <1>8, <1>11, <1>12, <1>13, <1>15, <2>2, <3>1, <3>2
    <3>4. Len(w.got) <= Len(Ordered(table, next)) /\ \A i \in 1..Len(w.got) : w.got[i].id = Ordered(table, next)[i]
      BY <1>8, <1>12, <1>13, <1>15, <2>2, <3>1
    <3>5. QED
      BY <2>1, <3>3, <3>4 DEF FirstGot
  <2>3. ByNumber(table, w)
    BY <1>4, <1>5, <1>11, <2>1, <2>2 DEF ByNumber, next
  <2>4. QED
    BY <1>5, <1>11, <1>14, <2>3 DEF WalkOK
<1>17. CASE ~ a.more
  <2>1. w.at = "done"
    BY <1>11, <1>17 DEF at
  <2>2. ASSUME walk.still PROVE IdsIn(g) = met /\ Len(g) = walk.total
    <3>1. m + n = Len(sorted)
      BY <1>7, <1>15, <1>17, <2>2
    <3>2. \A i \in 1..Len(sorted) : sorted[i] \in met
      BY <1>7, LenProperties
    <3>3. IdsIn(g) = {sorted[i] : i \in 1..Len(sorted)}
      <4>1. Len(g) = Len(sorted) /\ \A i \in 1..Len(sorted) : g[i].id = sorted[i]
        BY <1>12, <1>15, <2>2, <3>1
      <4>2. QED
        BY <4>1 DEF IdsIn
    <3>4. {sorted[i] : i \in 1..Len(sorted)} = met
      BY <1>7, <3>2
    <3>5. QED
      BY <1>7, <1>12, <1>15, <2>2, <3>1, <3>3, <3>4
  <2>3. ByNumber(table, w)
    <3>1. w.still => IdsIn(w.got) = w.kept /\ Len(w.got) = w.total /\ w.total = Cardinality(w.kept)
      BY <1>11, <1>13, <1>15, <2>2
    <3>2. QED
      BY <1>4, <1>5, <1>11, <2>1, <3>1 DEF ByNumber, Walking
  <2>4. QED
    BY <1>5, <1>11, <1>14, <2>3 DEF WalkOK
<1>18. QED
  BY <1>16, <1>17

LEMMA WalkBegins == ListingInit => WalkInv
<1> SUFFICES ASSUME ListingInit PROVE WalkInv
  OBVIOUS
<1> DEFINE n == Len(RidOf)
<1>1. n \in Nat /\ DOMAIN RidOf = 1..n
  BY ListingAssumption, LenProperties
<1>2. nextId = n /\ table \in [1..n - 1 -> Contents] /\ walk = NoWalk
  BY DEF ListingInit
<1> HIDE DEF n
<1>3. DOMAIN table = 1..n - 1 /\ IsFiniteSet(1..n - 1)
  BY <1>1, <1>2, FS_Interval
<1>4. 1..n - 1 \subseteq Nat /\ 1..n - 1 \subseteq 1..n
  BY <1>1
<1>5. IsTable(table)
  BY <1>1, <1>2, <1>3, <1>4 DEF IsTable
<1>6. QED
  BY <1>1, <1>2, <1>3, <1>5 DEF WalkInv, TableInv, WalkOK

\* The shape of a walk that is under way.
LEMMA UnderWay ==
  ASSUME WalkOK(table, walk), walk.at # "idle"
  PROVE  IsWalk(walk)
  BY DEF WalkOK, NoWalk

LEMMA ChangeStep ==
  ASSUME WalkInv, NEW k \in SUBSET walk.kept, Changes(k),
         \A id \in k : id \in DOMAIN table => id \in DOMAIN table' /\ table'[id] = table[id]
  PROVE  WalkOK(table', walk')
<1>1. Walking(walk) /\ walk.at # "idle"
  BY DEF Changes, Walking
<1>2. IsWalk(walk) /\ WalkOK(table, walk)
  BY <1>1, UnderWay DEF WalkInv
<1>3. walk' = [walk EXCEPT !.kept = k, !.still = FALSE]
  BY DEF Changes
<1>4. QED
  BY <1>1, <1>2, <1>3, TableStep

LEMMA InsertedStep ==
  ASSUME WalkInv, NEW row \in Contents, Inserted(row)
  PROVE  TableInv' /\ WalkOK(table', walk')
<1>1. /\ nextId \in Nat /\ DOMAIN table \subseteq 1..nextId - 1 /\ IsTable(table)
      /\ nextId \in DOMAIN RidOf /\ nextId' = nextId + 1
      /\ table' = [id \in DOMAIN table \cup {nextId} |-> IF id = nextId THEN row ELSE table[id]]
  BY DEF WalkInv, TableInv, Inserted
<1>2. nextId \notin DOMAIN table /\ nextId \in 1..nextId' - 1 /\ nextId' \in Nat /\ 1..nextId - 1 \subseteq 1..nextId' - 1
  <2>1. nextId \in 1..nextId
    BY <1>1, ListingAssumption, LenProperties
  <2>2. QED
    BY <1>1, <2>1
<1>3. DOMAIN table' = DOMAIN table \cup {nextId} /\ \A id \in DOMAIN table : table'[id] = table[id]
  BY <1>1, <1>2
<1>4. IsFiniteSet(DOMAIN table')
  BY <1>1, <1>3, FS_AddElement DEF IsTable
<1>5. table' \in [DOMAIN table \cup {nextId} -> Contents]
  <2>1. \A id \in DOMAIN table : table[id] \in Contents
    BY <1>1 DEF IsTable
  <2>2. QED
    BY <1>1, <2>1
<1>6. IsTable(table')
  BY <1>1, <1>3, <1>4, <1>5 DEF IsTable
<1>7. TableInv'
  BY <1>1, <1>2, <1>3, <1>6 DEF TableInv
<1>8. Changes(walk.kept) /\ walk.kept \in SUBSET walk.kept
  BY DEF Inserted
<1>9. WalkOK(table', walk')
  BY <1>3, <1>8, ChangeStep
<1>10. QED
  BY <1>7, <1>9

LEMMA DeletedStep ==
  ASSUME WalkInv, NEW id \in DOMAIN table, Deleted(id)
  PROVE  TableInv' /\ WalkOK(table', walk')
<1>1. /\ nextId \in Nat /\ DOMAIN table \subseteq 1..nextId - 1 /\ IsTable(table) /\ nextId' = nextId
      /\ table' = [other \in DOMAIN table \ {id} |-> table[other]]
  BY DEF WalkInv, TableInv, Deleted, Restrict
<1>2. DOMAIN table' = DOMAIN table \ {id} /\ \A other \in DOMAIN table : other # id => table'[other] = table[other]
  BY <1>1
<1>3. IsFiniteSet(DOMAIN table')
  BY <1>1, <1>2, FS_Subset DEF IsTable
<1>4. table' \in [DOMAIN table' -> Contents]
  <2>1. \A other \in DOMAIN table : table[other] \in Contents
    BY <1>1 DEF IsTable
  <2>2. QED
    BY <1>1, <1>2, <2>1
<1>5. IsTable(table')
  BY <1>1, <1>2, <1>3, <1>4 DEF IsTable
<1>6. TableInv'
  BY <1>1, <1>2, <1>5 DEF TableInv
<1>7. Changes(walk.kept \ {id}) /\ walk.kept \ {id} \in SUBSET walk.kept
  BY DEF Deleted
<1>8. \A other \in walk.kept \ {id} : other \in DOMAIN table => other \in DOMAIN table' /\ table'[other] = table[other]
  BY <1>2
<1>9. WalkOK(table', walk')
  BY <1>7, <1>8, ChangeStep
<1>10. QED
  BY <1>6, <1>9

LEMMA MovedStep ==
  ASSUME WalkInv, NEW id \in DOMAIN table, NEW row \in Contents, Moved(id, row)
  PROVE  TableInv' /\ WalkOK(table', walk')
<1>1. /\ nextId \in Nat /\ DOMAIN table \subseteq 1..nextId - 1 /\ IsTable(table) /\ nextId' = nextId
      /\ table' = [table EXCEPT ![id] = row]
  BY DEF WalkInv, TableInv, Moved
<1>2. DOMAIN table' = DOMAIN table /\ \A other \in DOMAIN table : other # id => table'[other] = table[other]
  BY <1>1
<1>3. table' \in [DOMAIN table -> Contents]
  BY <1>1 DEF IsTable
<1>4. IsTable(table')
  BY <1>1, <1>2, <1>3 DEF IsTable
<1>5. TableInv'
  BY <1>1, <1>2, <1>4 DEF TableInv
<1>6. Changes(walk.kept \ {id}) /\ walk.kept \ {id} \in SUBSET walk.kept
  BY DEF Moved
<1>7. \A other \in walk.kept \ {id} : other \in DOMAIN table => other \in DOMAIN table' /\ table'[other] = table[other]
  BY <1>2
<1>8. WalkOK(table', walk')
  BY <1>6, <1>7, ChangeStep
<1>9. QED
  BY <1>5, <1>8

LEMMA FindStep ==
  ASSUME WalkInv, FindRows
  PROVE  WalkOK(table, walk')
<1> DEFINE cfg == ListFromQuery(walk.query)
           order == orderOf(cfg)
           answer == IF cfg.keyset THEN keyset(table, cfg) ELSE List(table, cfg)
           items == GotItems(table, answer.items, order.field)
           at == IF answer.more THEN "more" ELSE "done"
           q == [walk.query EXCEPT !.cursor = answer.cursor, !.page = NextNumber(walk.query.page, cfg.keyset)]
<1>1. walk.at = "find" /\ walk.at # "idle" /\ Walking(walk)
  BY DEF FindRows, Walking
<1>2. IsTable(table) /\ IsWalk(walk) /\ WalkOK(table, walk)
  BY <1>1, UnderWay DEF WalkInv, TableInv
<1>3. IsQuery(walk.query) /\ cfg.keyset = walk.query.cursors /\ walk.query.cursors \in BOOLEAN /\ walk.query.page \in Int
  BY <1>2, ConfigIs DEF IsWalk, IsQuery
<1>4. walk' = IF answer.err THEN Stays
              ELSE [walk EXCEPT !.at = at, !.got = @ \o items, !.query.cursor = answer.cursor,
                                !.query.page = IF cfg.keyset THEN @ ELSE Max({@, 1}) + 1]
  BY DEF FindRows, GotItems, GotOf
<1>5. CASE answer.err
  <2>1. walk' = Stays
    BY <1>4, <1>5
  <2>2. QED
    BY <1>1, <1>2, <2>1, StaysStep
<1>6. CASE ~ answer.err
  <2> HIDE DEF answer, items, at, cfg
  <2>1. walk' = [walk EXCEPT !.at = at, !.got = @ \o items, !.query.cursor = answer.cursor,
                             !.query.page = IF cfg.keyset THEN @ ELSE Max({@, 1}) + 1]
    BY <1>4, <1>6
  <2>2. PageFound(walk, walk', at, items, q)
    BY <1>2, <2>1, FoundIs
  <2>3. NextNumber(walk.query.page, cfg.keyset) \in Int
    <3>1. Max({walk.query.page, 1}) \in Nat
      BY <1>3, FirstPage
    <3>2. QED
      BY <1>3, <3>1 DEF NextNumber
  <2>4. Anew(walk.query, q, answer.cursor, NextNumber(walk.query.page, cfg.keyset))
    BY <1>3, <2>3, PagedAnew
  <2> HIDE DEF q
  <2>5. CASE walk.query.cursors
    <3>1. NextNumber(walk.query.page, cfg.keyset) = walk.query.page
      BY <1>3, <2>5 DEF NextNumber
    <3>2. answer = keyset(table, cfg)
      BY <1>3, <2>5 DEF answer
    <3>3. /\ Anew(walk.query, q, answer.cursor, walk.query.page)
          /\ PageFound(walk, walk', IF answer.more THEN "more" ELSE "done", GotItems(table, answer.items, orderOf(cfg).field), q)
      BY <2>2, <2>4, <3>1 DEF at, items
    <3>4. QED
      BY <1>1, <1>2, <1>6, <2>5, <3>2, <3>3, FindByCursor DEF cfg
  <2>6. CASE ~ walk.query.cursors
    <3>1. NextNumber(walk.query.page, cfg.keyset) = Max({walk.query.page, 1}) + 1
      BY <1>3, <2>6 DEF NextNumber
    <3>2. answer = List(table, cfg)
      BY <1>3, <2>6 DEF answer
    <3>3. /\ Anew(walk.query, q, answer.cursor, Max({walk.query.page, 1}) + 1)
          /\ PageFound(walk, walk', IF answer.more THEN "more" ELSE "done", GotItems(table, answer.items, orderOf(cfg).field), q)
      BY <2>2, <2>4, <3>1 DEF at, items
    <3>4. QED
      BY <1>1, <1>2, <1>6, <2>6, <3>2, <3>3, FindByNumber DEF cfg
  <2>7. QED
    BY <2>5, <2>6
<1>7. QED
  BY <1>5, <1>6

LEMMA WalkStep == WalkInv /\ [ListingNext]_listVars => WalkInv'
<1> SUFFICES ASSUME WalkInv, [ListingNext]_listVars PROVE WalkInv'
  OBVIOUS
<1>0. TableInv /\ IsTable(table) /\ WalkOK(table, walk)
  BY DEF WalkInv, TableInv
<1>1. ASSUME NEW query \in Queries, Begin(query) PROVE WalkInv'
  <2> DEFINE kept == read(table, ListFromQuery([query EXCEPT !.cursor = <<>>]))
  <2>1. walk' = [NoWalk EXCEPT !.at = "count", !.query = query, !.order = query.order, !.kept = kept]
    BY <1>1 DEF Begin
  <2>2. Begun(walk', query, query.order, kept)
    BY <2>1, BegunIs
  <2>3. WalkOK(table, walk')
    BY <1>0, <2>2, BeginStep
  <2>4. UNCHANGED <<table, nextId>>
    BY <1>1 DEF Begin
  <2>5. QED
    BY <1>0, <2>3, <2>4 DEF WalkInv, TableInv
<1>2. ASSUME NEW order \in {query.order : query \in Queries}, NextPage(order) PROVE WalkInv'
  <2>1. /\ walk.at = "more" /\ (order = walk.order \/ walk.query.cursors) /\ UNCHANGED <<table, nextId>>
        /\ walk' = [walk EXCEPT !.at = "count", !.query.order = order]
    BY <1>2 DEF NextPage
  <2>2. IsWalk(walk) /\ order \in Seq(Part)
    BY <1>0, <2>1, UnderWay, QueriesAssumption
  <2>3. WalkOK(table, walk')
    BY <1>0, <2>1, <2>2, NextStep
  <2>4. QED
    BY <1>0, <2>1, <2>3 DEF WalkInv, TableInv
<1>3. ASSUME CountRows PROVE WalkInv'
  <2> DEFINE cfg == ListFromQuery(walk.query)
             n == Cardinality(read(table, cfg))
  <2>1. walk.at = "count" /\ UNCHANGED <<table, nextId>>
    BY <1>3 DEF CountRows
  <2>2. walk' = IF Refuses(cfg) THEN Stays ELSE [walk EXCEPT !.at = "find", !.total = n]
    BY <1>3 DEF CountRows
  <2>3. IsWalk(walk) /\ Walking(walk)
    BY <1>0, <2>1, UnderWay DEF Walking
  <2>4. CASE Refuses(cfg)
    <3>1. walk' = Stays
      BY <2>2, <2>4
    <3>2. WalkOK(table, walk')
      BY <1>0, <2>3, <3>1, StaysStep
    <3>3. QED
      BY <1>0, <2>1, <3>2 DEF WalkInv, TableInv
  <2>5. CASE ~ Refuses(cfg)
    <3>1. walk' = [walk EXCEPT !.at = "find", !.total = n]
      BY <2>2, <2>5
    <3>2. ~ cfg.err
      BY <2>5 DEF Refuses
    <3>3. Counted(walk, walk', n)
      BY <2>3, <3>1, CountedIs
    <3>4. WalkOK(table, walk')
      BY <1>0, <2>1, <2>3, <3>2, <3>3, CountStep
    <3>5. QED
      BY <1>0, <2>1, <3>4 DEF WalkInv, TableInv
  <2>6. QED
    BY <2>4, <2>5
<1>4. ASSUME FindRows PROVE WalkInv'
  <2>1. WalkOK(table, walk')
    BY <1>4, FindStep
  <2>2. UNCHANGED <<table, nextId>>
    BY <1>4 DEF FindRows
  <2>3. QED
    BY <1>0, <2>1, <2>2 DEF WalkInv, TableInv
<1>5. ASSUME NEW row \in Contents, Inserted(row) PROVE WalkInv'
  BY <1>5, InsertedStep DEF WalkInv
<1>6. ASSUME NEW id \in DOMAIN table, Deleted(id) PROVE WalkInv'
  BY <1>6, DeletedStep DEF WalkInv
<1>7. ASSUME NEW id \in DOMAIN table, NEW row \in Contents, Moved(id, row) PROVE WalkInv'
  BY <1>7, MovedStep DEF WalkInv
<1>8. CASE UNCHANGED listVars
  BY <1>0, <1>8 DEF WalkInv, TableInv, listVars
<1>9. QED
  BY <1>1, <1>2, <1>3, <1>4, <1>5, <1>6, <1>7, <1>8 DEF ListingNext

LEMMA WalkInvComplete == WalkInv => WalkComplete
<1> SUFFICES ASSUME WalkInv PROVE WalkComplete
  OBVIOUS
<1> DEFINE got == walk.got
           order == orderOf(ListFromQuery([walk.query EXCEPT !.order = walk.order]))
<1>1. CASE walk.at = "idle"
  BY <1>1 DEF WalkComplete
<1>2. CASE walk.at # "idle"
  <2>1. IsWalk(walk) /\ WalkOK(table, walk) /\ walk # NoWalk
    BY <1>2, UnderWay DEF WalkInv, NoWalk
  <2>2. order = KeyOf(walk.order)
    <3> DEFINE q == [walk.query EXCEPT !.order = walk.order]
    <3>1. IsQuery(q) /\ q.order = walk.order
      BY <2>1, OrderedAnew DEF IsWalk
    <3> HIDE DEF q
    <3>2. orderOf(ListFromQuery(q)) = KeyOf(walk.order)
      BY <3>1, KeyIs
    <3>3. QED
      BY <3>2 DEF q
  <2> HIDE DEF order
  <2>3. WalkComplete = IF walk.query.cursors
                       THEN Ascends(got, order) /\ (walk.at = "done" => walk.kept \subseteq IdsIn(got))
                       ELSE walk.still /\ walk.at = "done" =>
                              IdsIn(got) = walk.kept /\ Len(got) = walk.total /\ walk.total = Cardinality(walk.kept)
    BY <1>2, Zenon DEF WalkComplete, Ascends, IdsIn, order
  <2>4. CASE walk.query.cursors
    BY <2>1, <2>2, <2>3, <2>4 DEF WalkOK, ByCursor
  <2>5. CASE ~ walk.query.cursors
    BY <2>1, <2>3, <2>5 DEF WalkOK, ByNumber
  <2>6. QED
    BY <2>4, <2>5
<1>3. QED
  BY <1>1, <1>2

(* The pages of a list, by cursor or by number, miss nothing and double    *)
(* nothing, for any rows, queries, page sizes and changes (store/read.go,  *)
(* cursor.go).                                                             *)
THEOREM WalksAreComplete == ListingSpec => []WalkComplete
<1>1. ListingInit => WalkInv
  BY WalkBegins
<1>2. WalkInv /\ [ListingNext]_listVars => WalkInv'
  BY WalkStep
<1>3. WalkInv => WalkComplete
  BY WalkInvComplete
<1>4. QED
  BY <1>1, <1>2, <1>3, PTL DEF ListingSpec

-----------------------------------------------------------------------------
(* Upserts.                                                                *)

Object == [Cols -> STRING \X {0}]

\* A row with a key and values of their time.
IsStored(r, k) ==
  /\ r = [key |-> r.key, rid |-> r.rid, title |-> r.title, slug |-> r.slug, deleted |-> r.deleted]
  /\ r.key \in 1..k /\ r.deleted \in BOOLEAN /\ \A col \in Cols : r[col][2] \in 0..k
IsUpsert(u) ==
  /\ u = [at |-> u.at, objs |-> u.objs, target |-> u.target, next |-> u.next, mine |-> u.mine, placed |-> u.placed,
          err |-> u.err, constraint |-> u.constraint]
  /\ u.at \in {"idle", "check", "insert", "commit", "done"} /\ u.objs \in Seq(Object)
  /\ u.next \in Nat \ {0} /\ u.placed \in Seq(Nat)

\* The deleted rows that hold the values of object i were deleted after it was looked up.
Between(g, key, i, objs) == \E n \in i..Len(objs) : <<key, n>> \in g
Clear(rows, g, u, i) ==
  insertValues(u.objs[i], u.target.cols) =>
    \A r \in rows : r.deleted /\ Holds(r, u.objs[i], u.target.cols) => Between(g, r.key, i, u.objs)

\* What was written for object i, when the last key given was at most k.
WrittenCols(target) == target.cols \cup {"title", "slug"}
WrittenFor(own, i, k, u, g) ==
  /\ own.key = u.placed[i] /\ (own.deleted => Between(g, own.key, i, u.objs))
  /\ \E n \in 1..k : Holds(own, InsertedRow(u.objs[i], n), WrittenCols(u.target))
PlacedOK(u, g, k) ==
  /\ IsInjective(u.placed) /\ Len(u.placed) <= Len(u.objs)
  /\ \A own \in u.mine : \E i \in DOMAIN u.placed : WrittenFor(own, i, k, u, g)
  /\ \A i \in DOMAIN u.placed : \E own \in u.mine : own.key = u.placed[i]

\* Where the call is.
PlaceOK(u, rows, g, k) ==
  /\ u.at \in {"idle", "done", "check"} => u.mine = {}
  /\ u.at \in {"check", "insert", "commit"} => u.target.cols \subseteq Cols /\ distinctConflicts(u.objs, u.target.cols)
  /\ u.at = "check" => ~ u.target.live /\ u.placed = <<>> /\ u.next <= Len(u.objs) /\ \A i \in 1..u.next - 1 : Clear(rows, g, u, i)
  /\ u.at = "insert" => /\ u.next = Len(u.placed) + 1 /\ u.next <= Len(u.objs)
                        /\ u.target.live \/ \A i \in DOMAIN u.objs : Clear(rows, g, u, i)
  /\ u.at = "commit" => Len(u.placed) = Len(u.objs)
  /\ u.at \in {"insert", "commit"} => PlacedOK(u, g, k)

\* The inductive invariant.
UpsertInv ==
  /\ lastKey \in Nat /\ IsUpsert(upsert)
  /\ \A r \in rowset \cup upsert.mine : IsStored(r, lastKey)
  /\ PlaceOK(upsert, rowset, gone, lastKey)
  /\ upsert.at = "done" => UpsertsLiveRows

-----------------------------------------------------------------------------
\* The values of an object are numbered 0.
LEMMA ObjectValues == ASSUME NEW obj \in Object, NEW col \in Cols PROVE obj[col][2] = 0
<1>1. obj[col] \in STRING \X {0}
  BY DEF Object
<1>2. QED
  BY <1>1

\* The row of an object, column by column: assigned values and those given.
IsAssigned(obj, col) == obj[col] = Zero /\ col \in Assigned \cup {"rid"}
AsInserted(row, obj, col, k) == (IsAssigned(obj, col) => row[col] = <<"new", k>>) /\ (~ IsAssigned(obj, col) => row[col] = obj[col])
LEMMA InsertedCols ==
  ASSUME NEW obj \in Object, NEW k \in Nat
  PROVE  /\ \A col \in Cols : AsInserted(InsertedRow(obj, k), obj, col, k)
         /\ InsertedRow(obj, k).key = k /\ InsertedRow(obj, k).deleted = FALSE
         /\ k > 0 => IsStored(InsertedRow(obj, k), k)
<1> DEFINE row == InsertedRow(obj, k)
<1>1. \A col \in Cols : AsInserted(row, obj, col, k)
  BY DEF Cols, InsertedRow, AsInserted, IsAssigned
<1>2. row = [key |-> row.key, rid |-> row.rid, title |-> row.title, slug |-> row.slug, deleted |-> row.deleted] /\ row.key = k /\ row.deleted = FALSE
  BY DEF InsertedRow
<1>3. ASSUME NEW col \in Cols PROVE row[col][2] \in 0..k
  <2>1. obj[col][2] = 0 /\ <<"new", k>>[2] = k
    BY ObjectValues
  <2>2. row[col] = <<"new", k>> \/ row[col] = obj[col]
    BY <1>1 DEF AsInserted
  <2>3. QED
    BY <2>1, <2>2
<1>4. k > 0 => IsStored(row, k)
  <2>1. k > 0 => k \in 1..k
    OBVIOUS
  <2>2. QED
    BY <1>2, <1>3, <2>1 DEF IsStored
<1>5. QED
  BY <1>1, <1>2, <1>4

\* Two objects inserted at different times have the same value in a column only if both had it.
LEMMA InsertedApart ==
  ASSUME NEW a \in Object, NEW b \in Object, NEW k \in Nat \ {0}, NEW n \in Nat \ {0}, k # n,
         NEW col \in Cols, InsertedRow(a, k)[col] = InsertedRow(b, n)[col]
  PROVE  a[col] = b[col] /\ ~ IsAssigned(a, col)
<1>1. a[col][2] = 0 /\ b[col][2] = 0 /\ <<"new", k>>[2] = k /\ <<"new", n>>[2] = n
  BY ObjectValues
<1>2. AsInserted(InsertedRow(a, k), a, col, k) /\ AsInserted(InsertedRow(b, n), b, col, n)
  BY InsertedCols
<1>3. ~ IsAssigned(a, col)
  BY <1>1, <1>2 DEF AsInserted
<1>4. ~ IsAssigned(b, col)
  BY <1>1, <1>2 DEF AsInserted
<1>5. QED
  BY <1>2, <1>3, <1>4 DEF AsInserted

\* A row that is there has the values of an object inserted now only if they were not assigned.
LEMMA HitAsGiven ==
  ASSUME NEW obj \in Object, NEW k \in Nat, NEW r, IsStored(r, k), NEW cols \in SUBSET Cols,
         Holds(r, InsertedRow(obj, k + 1), cols)
  PROVE  insertValues(obj, cols) /\ Holds(r, obj, cols)
<1>1. SUFFICES ASSUME NEW col \in cols
               PROVE  ~ IsAssigned(obj, col) /\ r[col] = obj[col]
  BY DEF insertValues, Holds, IsAssigned
<1>2. r[col][2] \in 0..k /\ r[col] = InsertedRow(obj, k + 1)[col]
  BY DEF IsStored, Holds
<1>3. <<"new", k + 1>>[2] = k + 1 /\ k + 1 \in Nat
  OBVIOUS
<1>4. AsInserted(InsertedRow(obj, k + 1), obj, col, k + 1)
  BY <1>3, InsertedCols
<1>5. ~ IsAssigned(obj, col)
  BY <1>2, <1>3, <1>4 DEF AsInserted
<1>6. QED
  BY <1>2, <1>4, <1>5 DEF AsInserted

\* A row of the transaction is hit by no later object.
LEMMA HitIsNew ==
  ASSUME NEW u, IsUpsert(u), NEW g, NEW k \in Nat, NEW rows, PlaceOK(u, rows, g, k), u.at = "insert", NEW own \in u.mine
  PROVE  ~ Holds(own, InsertedRow(u.objs[u.next], k + 1), u.target.cols)
<1>1. PICK i \in DOMAIN u.placed : WrittenFor(own, i, k, u, g)
  BY DEF PlaceOK, PlacedOK
<1>2. PICK n \in 1..k : Holds(own, InsertedRow(u.objs[i], n), WrittenCols(u.target))
  BY <1>1 DEF WrittenFor
<1>3. SUFFICES ASSUME Holds(own, InsertedRow(u.objs[u.next], k + 1), u.target.cols) PROVE FALSE
  OBVIOUS
<1>4. /\ i \in 1..Len(u.objs) /\ u.next \in 1..Len(u.objs) /\ i < u.next
      /\ u.target.cols \subseteq Cols /\ distinctConflicts(u.objs, u.target.cols)
  BY DEF PlaceOK, IsUpsert
<1>5. u.objs[i] \in Object /\ u.objs[u.next] \in Object
  BY <1>4 DEF IsUpsert
<1>6. ASSUME NEW col \in u.target.cols
      PROVE  u.objs[i][col] = u.objs[u.next][col] /\ ~ IsAssigned(u.objs[i], col)
  <2>1. InsertedRow(u.objs[i], n)[col] = InsertedRow(u.objs[u.next], k + 1)[col]
    BY <1>2, <1>3 DEF Holds, WrittenCols
  <2>2. n \in Nat \ {0} /\ k + 1 \in Nat \ {0} /\ n # k + 1 /\ col \in Cols
    BY <1>4
  <2>3. QED
    BY <1>5, <2>1, <2>2, InsertedApart
<1>7. QED
  BY <1>4, <1>6 DEF distinctConflicts, IsAssigned

\* What ON CONFLICT stores: a new row, or one that the transaction has not written yet.
LEMMA StoredRow ==
  ASSUME UpsertInv, upsert.at = "insert",
         NEW row, row = InsertedRow(upsert.objs[upsert.next], lastKey + 1),
         NEW stored, stored = OnConflict(row, upsert.target)
  PROVE  /\ IsStored(stored, lastKey + 1) /\ Holds(stored, row, WrittenCols(upsert.target))
         /\ \A own \in upsert.mine : own.key # stored.key
         /\ stored.deleted => Between(gone, stored.key, upsert.next, upsert.objs)
<1> DEFINE u == upsert  obj == upsert.objs[upsert.next]
           hits == {r \in Sees : (~ u.target.live \/ ~ r.deleted) /\ Holds(r, row, u.target.cols)}
<1>1. /\ IsUpsert(u) /\ lastKey \in Nat /\ lastKey + 1 \in Nat /\ lastKey + 1 > 0
      /\ u.next \in DOMAIN u.objs /\ obj \in Object /\ u.target.cols \in SUBSET Cols
      /\ PlaceOK(u, rowset, gone, lastKey)
  BY DEF UpsertInv, PlaceOK, IsUpsert
<1>2. IsStored(row, lastKey + 1) /\ row.key = lastKey + 1 /\ row.deleted = FALSE
  BY <1>1, InsertedCols
<1>3. \A r \in rowset \cup u.mine : IsStored(r, lastKey) /\ IsStored(r, lastKey + 1) /\ r.key # lastKey + 1
  BY <1>1 DEF UpsertInv, IsStored
<1>4. CASE hits = {}
  <2>1. stored = row
    BY <1>4 DEF OnConflict
  <2>2. QED
    BY <1>2, <1>3, <2>1 DEF Holds
<1>5. CASE hits # {}
  <2>1. PICK hit \in hits : stored = [hit EXCEPT !.title = row.title, !.slug = row.slug]
    BY <1>5 DEF OnConflict
  <2>2. hit \in rowset /\ \A own \in u.mine : hit.key # own.key
    BY <1>1, <2>1, HitIsNew DEF Sees
  <2>3. /\ hit = [key |-> hit.key, rid |-> hit.rid, title |-> hit.title, slug |-> hit.slug, deleted |-> hit.deleted]
        /\ IsStored(hit, lastKey)
    BY <1>3, <2>2 DEF IsStored
  <2>4. stored = [key |-> hit.key, rid |-> hit.rid, title |-> row.title, slug |-> row.slug, deleted |-> hit.deleted]
    BY <2>1, <2>3
  <2>5. IsStored(stored, lastKey + 1)
    <3>1. hit.key \in 1..lastKey /\ hit.deleted \in BOOLEAN /\ hit.rid[2] \in 0..lastKey
      BY <2>3 DEF IsStored, Cols
    <3>2. row.title[2] \in 0..lastKey + 1 /\ row.slug[2] \in 0..lastKey + 1
      BY <1>2, <1>3 DEF IsStored, Cols
    <3>3. stored.key \in 1..lastKey + 1 /\ hit.rid[2] \in 0..lastKey + 1
      BY <1>1, <2>4, <3>1
    <3>4. stored.rid = hit.rid /\ stored.title = row.title /\ stored.slug = row.slug /\ stored.deleted = hit.deleted
      BY <2>4
    <3>5. stored.rid[2] \in 0..lastKey + 1 /\ stored.title[2] \in 0..lastKey + 1 /\ stored.slug[2] \in 0..lastKey + 1
      BY <3>2, <3>3, <3>4, Zenon
    <3>6. stored["rid"] = stored.rid /\ stored["title"] = stored.title /\ stored["slug"] = stored.slug
      BY Zenon
    <3>7. \A col \in Cols : stored[col][2] \in 0..lastKey + 1
      BY <3>5, <3>6, Zenon DEF Cols
    <3>8. stored = [key |-> stored.key, rid |-> stored.rid, title |-> stored.title, slug |-> stored.slug, deleted |-> stored.deleted]
      BY <2>4
    <3>9. QED
      BY <3>1, <3>3, <3>4, <3>7, <3>8, Zenon DEF IsStored
  <2>6. Holds(stored, row, WrittenCols(u.target))
    BY <1>1, <2>1, <2>4 DEF Holds, WrittenCols, Cols
  <2>7. ASSUME stored.deleted PROVE Between(gone, stored.key, u.next, u.objs)
    <3>1. hit.deleted /\ ~ u.target.live /\ Holds(hit, row, u.target.cols)
      BY <2>1, <2>4, <2>7
    <3>2. insertValues(obj, u.target.cols) /\ Holds(hit, obj, u.target.cols)
      BY <1>1, <2>3, <3>1, HitAsGiven
    <3>3. Clear(rowset, gone, u, u.next)
      BY <1>1, <3>1 DEF PlaceOK
    <3>4. QED
      BY <2>2, <2>4, <3>1, <3>2, <3>3 DEF Clear
  <2>8. QED
    BY <2>2, <2>4, <2>5, <2>6, <2>7
<1>6. QED
  BY <1>4, <1>5

-----------------------------------------------------------------------------
\* A row does not grow younger.
LEMMA StoredLater == ASSUME NEW r, NEW k \in Nat, IsStored(r, k) PROVE IsStored(r, k + 1)
<1>1. 1..k \subseteq 1..k + 1 /\ 0..k \subseteq 0..k + 1
  OBVIOUS
<1>2. QED
  BY <1>1 DEF IsStored

\* What a written row holds: the values its object was given.
LEMMA WrittenStores ==
  ASSUME NEW obj \in Object, NEW n \in Nat, NEW own, NEW target, Holds(own, InsertedRow(obj, n), WrittenCols(target))
  PROVE  \A col \in Cols \ {"rid"} : (obj[col] = Zero /\ col \in Assigned) \/ own[col] = obj[col]
<1>1. \A col \in Cols \ {"rid"} : col \in WrittenCols(target)
  BY DEF Cols, WrittenCols
<1>2. ASSUME NEW col \in Cols \ {"rid"}
      PROVE  (obj[col] = Zero /\ col \in Assigned) \/ own[col] = obj[col]
  <2>1. AsInserted(InsertedRow(obj, n), obj, col, n)
    BY <1>2, InsertedCols
  <2>2. own[col] = InsertedRow(obj, n)[col]
    BY <1>1, <1>2 DEF Holds
  <2>3. QED
    BY <1>2, <2>1, <2>2 DEF AsInserted, IsAssigned
<1>3. QED
  BY <1>2

\* The invariant is what UpsertsLiveRows says, and more.
LEMMA UpsertInvLive == UpsertInv => UpsertsLiveRows
<1>1. SUFFICES ASSUME UpsertInv, upsert.at \in {"insert", "commit"} PROVE UpsertsLiveRows
  <2>1. UpsertInv /\ upsert.at \notin {"insert", "commit", "done"} => UpsertsLiveRows
    BY DEF UpsertsLiveRows
  <2>2. QED
    BY <2>1 DEF UpsertInv
<1> DEFINE u == upsert
<1>2. /\ IsUpsert(u) /\ PlacedOK(u, gone, lastKey) /\ lastKey \in Nat
      /\ u.at = "insert" \/ Len(u.placed) = Len(u.objs)
  BY <1>1 DEF UpsertInv, PlaceOK
<1>3. ASSUME NEW i \in DOMAIN u.placed
      PROVE  \E row \in Sees :
               /\ row.key = u.placed[i]
               /\ \A col \in Cols \ {"rid"} : (u.objs[i][col] = Zero /\ col \in Assigned) \/ row[col] = u.objs[i][col]
               /\ row.deleted => \E n \in i..Len(u.objs) : <<row.key, n>> \in gone
  <2>1. PICK own \in u.mine : own.key = u.placed[i]
    BY <1>2 DEF PlacedOK
  <2>2. PICK j \in DOMAIN u.placed : WrittenFor(own, j, lastKey, u, gone)
    BY <1>2 DEF PlacedOK
  <2>3. j = i
    BY <1>2, <2>1, <2>2 DEF WrittenFor, PlacedOK, IsInjective
  <2>4. PICK n \in 1..lastKey : Holds(own, InsertedRow(u.objs[i], n), WrittenCols(u.target))
    BY <2>2, <2>3 DEF WrittenFor
  <2>5. u.objs[i] \in Object
    <3>1. u.objs \in Seq(Object) /\ u.placed \in Seq(Nat) /\ Len(u.placed) <= Len(u.objs)
      BY <1>2 DEF IsUpsert, PlacedOK
    <3>2. i \in 1..Len(u.objs)
      BY <3>1
    <3>3. QED
      BY <3>1, <3>2
  <2>6. \A col \in Cols \ {"rid"} : (u.objs[i][col] = Zero /\ col \in Assigned) \/ own[col] = u.objs[i][col]
    BY <1>2, <2>4, <2>5, WrittenStores
  <2>7. own \in Sees /\ (own.deleted => \E m \in i..Len(u.objs) : <<own.key, m>> \in gone)
    BY <2>2, <2>3 DEF WrittenFor, Between, Sees
  <2>8. QED
    BY <2>1, <2>6, <2>7
<1>4. QED
  BY <1>1, <1>2, <1>3 DEF UpsertsLiveRows, PlacedOK

LEMMA UpsertBegins == UpsertsInit => UpsertInv
<1>1. SUFFICES ASSUME UpsertsInit PROVE UpsertInv
  OBVIOUS
<1>2. IsUpsert(NoUpsert) /\ NoUpsert.at = "idle" /\ NoUpsert.mine = {}
  BY DEF IsUpsert, NoUpsert
<1>3. QED
  BY <1>1, <1>2 DEF UpsertsInit, UpsertInv, PlaceOK

\* A call that returned an error, and named no constraint, said nothing.
LEMMA ReturnInv ==
  ASSUME UpsertInv, NEW err \in {"clash", "failed"}, Returns(err, ""), UNCHANGED <<rowset, gone>>,
         lastKey' \in Nat, \A r \in rowset : IsStored(r, lastKey')
  PROVE  UpsertInv'
<1>1. /\ IsUpsert(upsert) /\ upsert'.at = "done" /\ upsert'.mine = {} /\ upsert'.err = err /\ upsert'.constraint = ""
      /\ IsUpsert(upsert')
  BY DEF UpsertInv, IsUpsert, Returns
<1>2. PlaceOK(upsert', rowset', gone', lastKey')
  BY <1>1 DEF PlaceOK
<1>3. UpsertsLiveRows'
  BY <1>1 DEF UpsertsLiveRows
<1>4. QED
  BY <1>1, <1>2, <1>3 DEF UpsertInv

\* Nothing is placed yet.
LEMMA NothingPlaced == IsInjective(<<>>) /\ DOMAIN <<>> = {} /\ Len(<<>>) = 0 /\ <<>> \in Seq(Nat) /\ <<>> \in Seq(Object)
  BY DEF IsInjective

LEMMA BegunPlaced ==
  ASSUME NEW u, NEW g, NEW k, u.objs \in Seq(Object), u.mine = {}, u.placed = <<>>
  PROVE  PlacedOK(u, g, k) /\ Len(u.placed) = 0 /\ DOMAIN u.placed = {} /\ IsInjective(u.placed)
<1>1. Len(u.placed) = 0 /\ DOMAIN u.placed = {} /\ IsInjective(u.placed)
  BY NothingPlaced
<1>2. Len(u.placed) <= Len(u.objs)
  BY <1>1
<1>3. QED
  BY <1>1, <1>2 DEF PlacedOK

LEMMA BegunOK ==
  ASSUME NEW u, NEW rows, NEW g, NEW k, u.objs \in Seq(Object), u.mine = {}, u.placed = <<>>, u.next = 1,
         u.at \in {"done", "insert", "check"},
         u.at # "done" => /\ u.objs # <<>> /\ u.target.cols \subseteq Cols /\ distinctConflicts(u.objs, u.target.cols)
                          /\ (u.at = "insert" <=> u.target.live)
  PROVE  PlaceOK(u, rows, g, k)
<1>1. PlacedOK(u, g, k) /\ Len(u.placed) = 0
  BY BegunPlaced
<1>2. u.at # "done" => 1 <= Len(u.objs)
  <2>1. ASSUME u.objs # <<>> PROVE 1 <= Len(u.objs)
    BY <2>1, EmptySeq
  <2>2. QED
    BY <2>1
<1>3. 1..u.next - 1 = {}
  OBVIOUS
<1>4. CASE u.at = "done"
  BY <1>4 DEF PlaceOK
<1>5. CASE u.at = "insert"
  BY <1>1, <1>2, <1>5 DEF PlaceOK
<1>6. CASE u.at = "check"
  BY <1>1, <1>2, <1>3, <1>6 DEF PlaceOK
<1>7. QED
  BY <1>4, <1>5, <1>6

LEMMA BatchUpsertInv ==
  ASSUME UpsertInv, NEW objs \in Batches, NEW fields \in Conflicts, BatchUpsert(objs, fields) PROVE UpsertInv'
<1> DEFINE target == conflictTarget(fields)
           v == upsert'
<1>1. /\ IsUpsert(v) /\ v.objs = objs /\ v.target = target /\ v.next = 1 /\ v.mine = {} /\ v.placed = <<>>
      /\ v.err \in {"", "invalid"} /\ v.at \in {"done", "insert", "check"}
      /\ v.at = "done" => v.err = "invalid" \/ objs = <<>>
      /\ v.at # "done" => objs # <<>> /\ target.ok /\ distinctConflicts(objs, target.cols) /\ (v.at = "insert" <=> target.live)
  <2> DEFINE invalid == objs # <<>> /\ ~ (target.ok /\ distinctConflicts(objs, target.cols))
             where == IF objs = <<>> \/ invalid THEN "done" ELSE IF target.live THEN "insert" ELSE "check"
             err == IF invalid THEN "invalid" ELSE ""
  <2>1. upsert' = [NoUpsert EXCEPT !.objs = objs, !.target = target, !.err = err, !.at = where]
    BY DEF BatchUpsert
  <2>2. /\ where \in {"done", "insert", "check"} /\ err \in {"", "invalid"} /\ (where = "done" => err = "invalid" \/ objs = <<>>)
        /\ where # "done" => objs # <<>> /\ target.ok /\ distinctConflicts(objs, target.cols) /\ (where = "insert" <=> target.live)
    OBVIOUS
  <2>3. objs \in Seq(Object)
    BY UpsertsAssumption DEF Object
  <2> HIDE DEF where, err, target
  <2>4. upsert' = [at |-> where, objs |-> objs, target |-> target, next |-> 1, mine |-> {}, placed |-> <<>>, err |-> err, constraint |-> ""]
    BY <2>1 DEF NoUpsert
  <2>5. /\ v.at = where /\ v.err = err /\ v.objs = objs /\ v.target = target /\ v.next = 1 /\ v.mine = {} /\ v.placed = <<>>
        /\ v = [at |-> v.at, objs |-> v.objs, target |-> v.target, next |-> v.next, mine |-> v.mine, placed |-> v.placed,
                err |-> v.err, constraint |-> v.constraint]
    BY <2>4
  <2>6. IsUpsert(v)
    <3>1. v.objs \in Seq(Object) /\ v.placed \in Seq(Nat) /\ v.next \in Nat \ {0}
      BY <2>3, <2>5, NothingPlaced
    <3>2. v.at \in {"idle", "check", "insert", "commit", "done"}
      BY <2>2, <2>5
    <3>3. QED
      BY <2>5, <3>1, <3>2 DEF IsUpsert
  <2>7. QED
    BY <2>2, <2>5, <2>6
<1>2. UNCHANGED <<rowset, lastKey>> /\ objs \in Seq(Object)
  BY UpsertsAssumption DEF BatchUpsert, Object
<1>3. \A r \in rowset' \cup v.mine : IsStored(r, lastKey')
  BY <1>1, <1>2 DEF UpsertInv
<1>4. target.ok => target.cols \subseteq Cols
  BY DEF conflictTarget
<1> HIDE DEF target, v
<1>5. PlaceOK(v, rowset', gone', lastKey')
  BY <1>1, <1>2, <1>4, BegunOK
<1>6. v.at = "done" => UpsertsLiveRows'
  <2>1. SUFFICES ASSUME v.at = "done", objs = <<>> \/ v.err = "invalid" PROVE UpsertsLiveRows'
    BY <1>1
  <2>2. IsInjective(v.placed) /\ DOMAIN v.placed = {} /\ (objs = <<>> => Len(v.placed) = Len(v.objs))
    BY <1>1, NothingPlaced
  <2>3. v.err # "duplicate" /\ (v.err = "" => objs = <<>>)
    BY <1>1, <2>1
  <2>4. QED
    BY <2>1, <2>2, <2>3 DEF UpsertsLiveRows, v
<1>7. QED
  BY <1>1, <1>2, <1>3, <1>5, <1>6 DEF UpsertInv, v

\* A chunk looked up: its objects are clear, or the call returns the index that clashes.
LEMMA LookUpInv == ASSUME UpsertInv, deletedConflict PROVE UpsertInv'
<1> DEFINE u == upsert  cols == upsert.target.cols
           ends == u.next + batchSize > Len(u.objs)
<1>1. /\ u.at = "check" /\ IsUpsert(u) /\ PlaceOK(u, rowset, gone, lastKey) /\ UNCHANGED <<rowset, lastKey, gone>>
      /\ lastKey \in Nat /\ batchSize \in Nat \ {0} /\ u.next \in Nat \ {0} /\ Len(u.objs) \in Nat
      /\ DOMAIN u.objs = 1..Len(u.objs) /\ cols \subseteq Cols
  BY UpsertsAssumption DEF deletedConflict, LooksUp, UpsertInv, IsUpsert, PlaceOK
<1>2. CASE \E i \in Chunk(u.next) \cap DOMAIN u.objs, row \in rowset :
             row.deleted /\ insertValues(u.objs[i], cols) /\ Holds(row, u.objs[i], cols)
  <2>1. PICK i \in DOMAIN u.objs, row \in rowset : row.deleted /\ insertValues(u.objs[i], cols) /\ Holds(row, u.objs[i], cols)
    BY <1>2
  <2>2. /\ upsert' = [u EXCEPT !.at = "done", !.mine = {}, !.err = "duplicate", !.constraint = uniqueIndexOf(cols)]
    BY <1>2 DEF deletedConflict, LooksUp, deletedDuplicate, Returns
  <2>3. /\ IsUpsert(upsert') /\ upsert'.at = "done" /\ upsert'.mine = {} /\ upsert'.err = "duplicate"
        /\ upsert'.constraint = uniqueIndexOf(cols) /\ upsert'.objs = u.objs
    BY <1>1, <2>2 DEF IsUpsert
  <2>4. ASSUME uniqueIndexOf(cols) # ""
        PROVE  \E idx \in Indexes : idx.name = uniqueIndexOf(cols) /\ ClashesIn(rowset, InsertedRow(u.objs[i], lastKey + 1), idx)
    <3>1. PICK idx \in Indexes : ~ idx.soft /\ ToSet(idx.cols) = cols /\ idx.name = uniqueIndexOf(cols)
      BY <2>4 DEF uniqueIndexOf
    <3>2. u.objs[i] \in Object /\ lastKey + 1 \in Nat
      BY <1>1 DEF IsUpsert
    <3>3. ASSUME NEW col \in cols PROVE row[col] = InsertedRow(u.objs[i], lastKey + 1)[col]
      <4>1. col \in Cols /\ ~ IsAssigned(u.objs[i], col) /\ row[col] = u.objs[i][col]
        <5>1. col \in Cols
          BY <1>1, <3>3
        <5>2. row[col] = u.objs[i][col]
          BY <2>1, <3>3, Zenon DEF Holds
        <5>3. ~ IsAssigned(u.objs[i], col)
          BY <2>1, <3>3, Zenon DEF insertValues, IsAssigned
        <5>4. QED
          BY <5>1, <5>2, <5>3, Zenon
      <4>2. AsInserted(InsertedRow(u.objs[i], lastKey + 1), u.objs[i], col, lastKey + 1)
        BY <3>2, <4>1, InsertedCols, Zenon
      <4>3. QED
        BY <4>1, <4>2, Zenon DEF AsInserted
    <3>4. QED
      BY <3>1, <3>3 DEF ClashesIn, Holds
  <2>5. UpsertsLiveRows'
    BY <1>1, <2>3, <2>4 DEF UpsertsLiveRows
  <2>6. PlaceOK(upsert', rowset', gone', lastKey')
    BY <2>3 DEF PlaceOK
  <2>7. QED
    BY <1>1, <2>3, <2>5, <2>6 DEF UpsertInv
<1>3. CASE ~ \E i \in Chunk(u.next) \cap DOMAIN u.objs, row \in rowset :
               row.deleted /\ insertValues(u.objs[i], cols) /\ Holds(row, u.objs[i], cols)
  <2>1. upsert' = IF ends THEN [u EXCEPT !.at = "insert", !.next = 1] ELSE [u EXCEPT !.next = u.next + batchSize]
    BY <1>3 DEF deletedConflict, LooksUp
  <2>2. \A i \in DOMAIN u.objs : i < u.next + batchSize => Clear(rowset, gone, u, i)
    <3>1. SUFFICES ASSUME NEW i \in DOMAIN u.objs, i < u.next + batchSize PROVE Clear(rowset, gone, u, i)
      OBVIOUS
    <3>2. CASE i < u.next
      BY <1>1, <3>2 DEF PlaceOK
    <3>3. CASE i >= u.next
      <4>1. i \in Chunk(u.next)
        BY <1>1, <3>1, <3>3 DEF Chunk
      <4>2. QED
        BY <1>3, <4>1 DEF Clear
    <3>4. QED
      BY <1>1, <3>2, <3>3
  <2>3. /\ IsUpsert(upsert') /\ upsert'.objs = u.objs /\ upsert'.target = u.target /\ upsert'.mine = u.mine /\ upsert'.placed = u.placed
        /\ upsert'.at = IF ends THEN "insert" ELSE "check"
        /\ upsert'.next = IF ends THEN 1 ELSE u.next + batchSize
    <3>1. u.next + batchSize \in Nat \ {0}
      BY <1>1
    <3>2. CASE ends
      <4>1. upsert' = [u EXCEPT !.at = "insert", !.next = 1]
        BY <2>1, <3>2
      <4>2. u = [at |-> u.at, objs |-> u.objs, target |-> u.target, next |-> u.next, mine |-> u.mine, placed |-> u.placed,
                 err |-> u.err, constraint |-> u.constraint]
        BY <1>1 DEF IsUpsert
      <4>3. upsert' = [at |-> "insert", objs |-> u.objs, target |-> u.target, next |-> 1, mine |-> u.mine, placed |-> u.placed,
                       err |-> u.err, constraint |-> u.constraint]
        BY <4>1, <4>2
      <4>4. IsUpsert(upsert')
        BY <1>1, <4>3 DEF IsUpsert
      <4>5. QED
        BY <3>2, <4>3, <4>4
    <3>3. CASE ~ ends
      BY <1>1, <2>1, <3>1, <3>3 DEF IsUpsert
    <3>4. QED
      BY <3>2, <3>3
  <2>4. \A i : Clear(rowset', gone', upsert', i) <=> Clear(rowset, gone, u, i)
    BY <1>1, <2>3 DEF Clear
  <2>5. u.mine = {} /\ u.placed = <<>> /\ ~ u.target.live /\ distinctConflicts(u.objs, cols) /\ u.next <= Len(u.objs)
    BY <1>1 DEF PlaceOK
  <2>6. PlacedOK(upsert', gone', lastKey')
    BY <1>1, <2>3, <2>5 DEF PlacedOK, IsInjective
  <2>7. PlaceOK(upsert', rowset', gone', lastKey')
    <3>1. CASE ends
      <4>1. \A i \in DOMAIN u.objs : Clear(rowset', gone', upsert', i)
        BY <1>1, <2>2, <2>4, <3>1
      <4>2. Len(u.placed) = 0 /\ 1 <= Len(u.objs)
        BY <1>1, <2>5
      <4>3. QED
        BY <1>1, <2>3, <2>5, <2>6, <3>1, <4>1, <4>2 DEF PlaceOK
    <3>2. CASE ~ ends
      <4>1. \A i \in 1..upsert'.next - 1 : Clear(rowset', gone', upsert', i)
        BY <1>1, <2>2, <2>3, <2>4, <3>2
      <4>2. QED
        BY <1>1, <2>3, <2>5, <2>6, <3>2, <4>1 DEF PlaceOK
    <3>3. QED
      BY <3>1, <3>2
  <2>8. QED
    BY <1>1, <2>3, <2>7 DEF UpsertInv
<1>4. QED
  BY <1>2, <1>3

-----------------------------------------------------------------------------
\* What is written for an object stays written while the keys go on and rows go.
LEMMA WrittenStays ==
  ASSUME NEW u, NEW v, NEW g, NEW h, NEW own, NEW i, NEW k \in Nat, NEW n \in Nat, k <= n, WrittenFor(own, i, k, u, g),
         v.placed[i] = u.placed[i], v.objs = u.objs, v.target = u.target, g \subseteq h
  PROVE  WrittenFor(own, i, n, v, h)
<1>1. Between(h, own.key, i, v.objs) \/ ~ own.deleted
  BY DEF WrittenFor, Between
<1>2. \E m \in 1..n : Holds(own, InsertedRow(v.objs[i], m), WrittenCols(v.target))
  BY DEF WrittenFor
<1>3. QED
  BY <1>1, <1>2 DEF WrittenFor

\* An object inserted: a row of its own is added to what the transaction wrote.
LEMMA PlacedOneMore ==
  ASSUME NEW u, NEW v, NEW g, NEW k \in Nat, NEW stored, IsUpsert(u), PlacedOK(u, g, k),
         u.next = Len(u.placed) + 1, u.next <= Len(u.objs),
         v.objs = u.objs, v.target = u.target, v.placed = Append(u.placed, stored.key), v.mine = Except(u.mine, stored.key) \cup {stored},
         \A own \in u.mine : own.key # stored.key,
         Holds(stored, InsertedRow(u.objs[u.next], k + 1), WrittenCols(u.target)),
         stored.deleted => Between(g, stored.key, u.next, u.objs),
         stored.key \in Nat
  PROVE  PlacedOK(v, g, k + 1)
<1>1. /\ u.placed \in Seq(Nat) /\ Len(u.placed) \in Nat /\ DOMAIN u.placed = 1..Len(u.placed)
      /\ v.placed \in Seq(Nat) /\ Len(v.placed) = u.next /\ DOMAIN v.placed = 1..u.next
      /\ \A i \in DOMAIN u.placed : i \in DOMAIN v.placed /\ v.placed[i] = u.placed[i]
      /\ v.placed[u.next] = stored.key /\ u.next \in DOMAIN v.placed
      /\ \A i \in DOMAIN v.placed : i \in DOMAIN u.placed \/ i = u.next
  BY DEF IsUpsert
<1>2. v.mine = u.mine \cup {stored}
  BY DEF Except
<1>3. \A i \in DOMAIN u.placed : u.placed[i] # stored.key
  BY DEF PlacedOK
<1>4. IsInjective(v.placed)
  <2>1. IsInjective(u.placed)
    BY DEF PlacedOK
  <2>2. QED
    BY <1>1, <1>3, <2>1 DEF IsInjective
<1>5. WrittenFor(stored, u.next, k + 1, v, g)
  <2>1. k + 1 \in 1..k + 1
    OBVIOUS
  <2>2. QED
    BY <1>1, <2>1 DEF WrittenFor
<1>6. ASSUME NEW own \in u.mine PROVE \E i \in DOMAIN v.placed : WrittenFor(own, i, k + 1, v, g)
  <2>1. PICK i \in DOMAIN u.placed : WrittenFor(own, i, k, u, g)
    BY DEF PlacedOK
  <2>2. k + 1 \in Nat /\ k <= k + 1
    OBVIOUS
  <2>3. i \in DOMAIN v.placed /\ v.placed[i] = u.placed[i]
    BY <1>1
  <2>4. WrittenFor(own, i, k + 1, v, g)
    BY <2>1, <2>2, <2>3, WrittenStays
  <2>5. QED
    BY <2>3, <2>4
<1>7. ASSUME NEW i \in DOMAIN v.placed PROVE \E own \in v.mine : own.key = v.placed[i]
  BY <1>1, <1>2, <1>7 DEF PlacedOK
<1>8. \A own \in v.mine : \E i \in DOMAIN v.placed : WrittenFor(own, i, k + 1, v, g)
  BY <1>1, <1>2, <1>5, <1>6
<1>9. QED
  BY <1>1, <1>4, <1>7, <1>8 DEF PlacedOK

LEMMA InsertInv == ASSUME UpsertInv, CreateInBatches PROVE UpsertInv'
<1> DEFINE u == upsert
           stored == OnConflict(InsertedRow(u.objs[u.next], lastKey + 1), u.target)
           fails == \/ ~ \E idx \in Indexes : ToSet(idx.cols) = u.target.cols /\ idx.soft = u.target.live
                    \/ \E idx \in Indexes : ClashesIn(Except(Sees, stored.key), stored, idx)
<1>1. /\ u.at = "insert" /\ IsUpsert(u) /\ PlaceOK(u, rowset, gone, lastKey) /\ UNCHANGED <<rowset, gone>>
      /\ lastKey \in Nat /\ lastKey' = lastKey + 1 /\ lastKey' \in Nat
  <2>1. u.at = "insert" /\ UNCHANGED <<rowset, gone>> /\ lastKey' = lastKey + 1
    BY Zenon DEF CreateInBatches
  <2>2. IsUpsert(u) /\ PlaceOK(u, rowset, gone, lastKey) /\ lastKey \in Nat
    BY Zenon DEF UpsertInv
  <2>3. QED
    BY <2>1, <2>2
<1>2. \A r \in rowset \cup u.mine : IsStored(r, lastKey')
  BY <1>1, StoredLater DEF UpsertInv
<1>3. CASE fails
  <2>1. Returns("clash", "")
    BY <1>3 DEF CreateInBatches
  <2>2. QED
    BY <1>1, <1>2, <2>1, ReturnInv
<1>4. CASE ~ fails
  <2>1. /\ IsStored(stored, lastKey + 1) /\ Holds(stored, InsertedRow(u.objs[u.next], lastKey + 1), WrittenCols(u.target))
        /\ \A own \in u.mine : own.key # stored.key
        /\ stored.deleted => Between(gone, stored.key, u.next, u.objs)
    BY <1>1, StoredRow
  <2> DEFINE where == IF u.next = Len(u.objs) THEN "commit" ELSE "insert"
  <2>2. upsert' = [u EXCEPT !.mine = Except(u.mine, stored.key) \cup {stored}, !.placed = Append(u.placed, stored.key),
                            !.next = u.next + 1, !.at = where]
    BY <1>4 DEF CreateInBatches
  <2> HIDE DEF stored, where, fails
  <2>3. stored.key \in Nat
    BY <1>1, <2>1 DEF IsStored
  <2>4. u = [at |-> u.at, objs |-> u.objs, target |-> u.target, next |-> u.next, mine |-> u.mine, placed |-> u.placed,
             err |-> u.err, constraint |-> u.constraint]
    BY <1>1 DEF IsUpsert
  <2>5. upsert' = [at |-> where, objs |-> u.objs, target |-> u.target, next |-> u.next + 1,
                   mine |-> Except(u.mine, stored.key) \cup {stored}, placed |-> Append(u.placed, stored.key),
                   err |-> u.err, constraint |-> u.constraint]
    BY <2>2, <2>4
  <2>6. where \in {"insert", "commit"} /\ (where = "commit" <=> u.next = Len(u.objs))
    BY DEF where
  <2>7. u.objs \in Seq(Object) /\ u.placed \in Seq(Nat) /\ u.next \in Nat \ {0}
    BY <1>1 DEF IsUpsert
  <2>8. Append(u.placed, stored.key) \in Seq(Nat) /\ Len(Append(u.placed, stored.key)) = Len(u.placed) + 1
    BY <2>3, <2>7
  <2>9. IsUpsert(upsert')
    <3>1. u.next + 1 \in Nat \ {0}
      BY <2>7
    <3>2. QED
      BY <2>5, <2>6, <2>7, <2>8, <3>1 DEF IsUpsert
  <2>10. /\ PlacedOK(u, gone, lastKey) /\ u.next = Len(u.placed) + 1 /\ u.next <= Len(u.objs)
         /\ u.target.cols \subseteq Cols /\ distinctConflicts(u.objs, u.target.cols)
         /\ u.target.live \/ \A i \in DOMAIN u.objs : Clear(rowset, gone, u, i)
    BY <1>1 DEF PlaceOK
  <2>11. PlacedOK(upsert', gone', lastKey')
    <3>1. /\ upsert'.objs = u.objs /\ upsert'.target = u.target /\ upsert'.placed = Append(u.placed, stored.key)
          /\ upsert'.mine = Except(u.mine, stored.key) \cup {stored}
      BY <2>5
    <3>2. PlacedOK(upsert', gone, lastKey + 1)
      BY <1>1, <2>1, <2>3, <2>10, <3>1, PlacedOneMore
    <3>3. QED
      BY <1>1, <3>2
  <2>12. \A i : Clear(rowset', gone', upsert', i) <=> Clear(rowset, gone, u, i)
    BY <1>1, <2>5 DEF Clear
  <2>13. PlaceOK(upsert', rowset', gone', lastKey')
    <3>1. /\ upsert'.at = where /\ upsert'.objs = u.objs /\ upsert'.target = u.target /\ upsert'.next = u.next + 1
          /\ Len(upsert'.placed) = u.next
      BY <2>5, <2>8, <2>10
    <3>2. Len(u.objs) \in Nat
      BY <2>7
    <3>3. CASE where = "commit"
      BY <2>6, <2>10, <2>11, <3>1, <3>3 DEF PlaceOK
    <3>4. CASE where = "insert"
      <4>1. u.next + 1 = Len(upsert'.placed) + 1 /\ u.next + 1 <= Len(u.objs)
        BY <2>6, <2>7, <2>10, <3>1, <3>2, <3>4
      <4>2. QED
        BY <2>10, <2>11, <2>12, <3>1, <3>4, <4>1 DEF PlaceOK
    <3>5. QED
      BY <2>6, <3>3, <3>4
  <2>14. \A r \in rowset' \cup upsert'.mine : IsStored(r, lastKey')
    BY <1>1, <1>2, <2>1, <2>5 DEF Except
  <2>15. QED
    BY <1>1, <2>5, <2>6, <2>9, <2>13, <2>14 DEF UpsertInv
<1>5. QED
  BY <1>3, <1>4

\* What was written is what the rows then are.
LEMMA CommitInv == ASSUME UpsertInv, Commits PROVE UpsertInv'
<1>1. /\ upsert.at = "commit" /\ IsUpsert(upsert) /\ rowset' = Sees /\ UNCHANGED <<lastKey, gone>> /\ lastKey \in Nat
      /\ upsert' = [upsert EXCEPT !.at = "done", !.mine = {}, !.err = "", !.constraint = ""]
  BY DEF Commits, Returns, UpsertInv
<1>2. /\ IsUpsert(upsert') /\ upsert'.at = "done" /\ upsert'.mine = {} /\ upsert'.err = ""
      /\ upsert'.objs = upsert.objs /\ upsert'.placed = upsert.placed
  BY <1>1 DEF IsUpsert
<1>3. Sees' = Sees
  BY <1>1, <1>2 DEF Sees
<1>4. UpsertsLiveRows
  BY UpsertInvLive
<1>5. UpsertsLiveRows'
  BY <1>1, <1>2, <1>3, <1>4 DEF UpsertsLiveRows
<1>6. PlaceOK(upsert', rowset', gone', lastKey')
  BY <1>2 DEF PlaceOK
<1>7. \A r \in rowset' \cup upsert'.mine : IsStored(r, lastKey')
  BY <1>1, <1>2 DEF UpsertInv, Sees
<1>8. QED
  BY <1>1, <1>2, <1>5, <1>6, <1>7 DEF UpsertInv

\* A row deleted or restored beside the transaction.
LEMMA TrashInv == ASSUME UpsertInv, NEW row \in rowset, Trashes(row) PROVE UpsertInv'
<1> DEFINE u == upsert  flipped == [row EXCEPT !.deleted = ~ row.deleted]
<1>1. /\ IsUpsert(u) /\ PlaceOK(u, rowset, gone, lastKey) /\ lastKey \in Nat /\ UNCHANGED lastKey
      /\ rowset' = (rowset \ {row}) \cup {flipped} /\ IsStored(row, lastKey)
  BY DEF UpsertInv, Trashes
<1>2. flipped = [key |-> row.key, rid |-> row.rid, title |-> row.title, slug |-> row.slug, deleted |-> ~ row.deleted]
  BY <1>1 DEF IsStored
<1>3. IsStored(flipped, lastKey)
  BY <1>1, <1>2 DEF IsStored, Cols
<1>4. CASE ~ InUpsert
  <2>1. upsert' = NoUpsert
    BY <1>4 DEF Trashes
  <2>2. IsUpsert(NoUpsert) /\ NoUpsert.at = "idle" /\ NoUpsert.mine = {}
    BY DEF IsUpsert, NoUpsert
  <2>3. \A r \in rowset' \cup upsert'.mine : IsStored(r, lastKey')
    BY <1>1, <1>3, <2>1, <2>2 DEF UpsertInv
  <2>4. PlaceOK(upsert', rowset', gone', lastKey')
    BY <2>1, <2>2 DEF PlaceOK
  <2>5. QED
    BY <1>1, <2>1, <2>2, <2>3, <2>4 DEF UpsertInv
<1>5. CASE InUpsert
  <2> DEFINE looked == IF u.at = "check" THEN u.next - 1 ELSE Len(u.objs)
  <2>1. /\ UNCHANGED upsert /\ u.at \in {"check", "insert", "commit"}
        /\ gone' = IF row.deleted THEN gone ELSE gone \cup {<<row.key, looked>>}
    BY <1>5 DEF Trashes, InUpsert
  <2>2. gone \subseteq gone' /\ (~ row.deleted => <<row.key, looked>> \in gone')
    BY <2>1
  <2>3. \A r \in rowset' \cup upsert'.mine : IsStored(r, lastKey')
    BY <1>1, <1>3, <2>1 DEF UpsertInv
  <2>4. ASSUME NEW i \in Nat, Clear(rowset, gone, u, i), i <= looked, looked \in Nat, looked <= Len(u.objs), u.target.cols \subseteq Cols
        PROVE  Clear(rowset', gone', upsert', i)
    <3>1. SUFFICES ASSUME insertValues(u.objs[i], u.target.cols), NEW r \in rowset', r.deleted, Holds(r, u.objs[i], u.target.cols)
                   PROVE  Between(gone', r.key, i, u.objs)
      BY <2>1 DEF Clear
    <3>2. CASE r \in rowset
      <4>1. Between(gone, r.key, i, u.objs)
        BY <2>4, <3>1, <3>2 DEF Clear
      <4>2. QED
        BY <2>2, <4>1 DEF Between
    <3>3. CASE r = flipped
      <4>1. ~ row.deleted /\ r.key = row.key
        BY <1>1, <1>2, <3>1, <3>3 DEF IsStored
      <4>2. looked \in i..Len(u.objs) /\ <<r.key, looked>> \in gone'
        BY <2>2, <2>4, <4>1
      <4>3. QED
        BY <4>2 DEF Between
    <3>4. QED
      BY <1>1, <3>1, <3>2, <3>3
  <2>5. Len(u.objs) \in Nat /\ DOMAIN u.objs = 1..Len(u.objs) /\ u.next \in Nat \ {0}
    BY <1>1 DEF IsUpsert
  <2>6. u.at \in {"insert", "commit"} => PlacedOK(upsert', gone', lastKey')
    <3>1. SUFFICES ASSUME u.at \in {"insert", "commit"} PROVE PlacedOK(u, gone', lastKey)
      BY <1>1, <2>1
    <3>2. PlacedOK(u, gone, lastKey)
      BY <1>1, <3>1 DEF PlaceOK
    <3>3. \A own, i : WrittenFor(own, i, lastKey, u, gone) => WrittenFor(own, i, lastKey, u, gone')
      BY <1>1, <2>2, WrittenStays
    <3>4. QED
      BY <3>2, <3>3 DEF PlacedOK
  <2>7. u.at = "check" => \A i \in 1..u.next - 1 : Clear(rowset', gone', upsert', i)
    <3>1. SUFFICES ASSUME u.at = "check", NEW i \in 1..u.next - 1 PROVE Clear(rowset', gone', upsert', i)
      OBVIOUS
    <3>2. Clear(rowset, gone, u, i) /\ u.next <= Len(u.objs) /\ u.target.cols \subseteq Cols
      BY <1>1, <3>1 DEF PlaceOK
    <3>3. looked = u.next - 1 /\ looked \in Nat /\ i \in Nat /\ i <= looked /\ looked <= Len(u.objs)
      BY <2>5, <3>1, <3>2
    <3>4. QED
      BY <2>4, <3>2, <3>3
  <2>8. u.at = "insert" => u.target.live \/ \A i \in DOMAIN u.objs : Clear(rowset', gone', upsert', i)
    <3>1. SUFFICES ASSUME u.at = "insert", ~ u.target.live, NEW i \in DOMAIN u.objs PROVE Clear(rowset', gone', upsert', i)
      OBVIOUS
    <3>2. Clear(rowset, gone, u, i) /\ u.target.cols \subseteq Cols
      BY <1>1, <3>1 DEF PlaceOK
    <3>3. looked = Len(u.objs) /\ i \in Nat /\ i <= looked
      BY <2>5, <3>1
    <3>4. QED
      BY <2>4, <2>5, <3>2, <3>3
  <2>9. PlaceOK(upsert', rowset', gone', lastKey')
    <3>1. UNCHANGED <<upsert, lastKey>>
      BY <1>1, <2>1
    <3>2. QED
      BY <1>1, <2>6, <2>7, <2>8, <3>1 DEF PlaceOK
  <2>10. QED
    BY <1>1, <2>1, <2>3, <2>9 DEF UpsertInv
<1>6. QED
  BY <1>4, <1>5

LEMMA UpsertsStep == UpsertInv /\ [UpsertsNext]_upsertVars => UpsertInv'
<1>1. SUFFICES ASSUME UpsertInv, [UpsertsNext]_upsertVars PROVE UpsertInv'
  OBVIOUS
<1>2. ASSUME NEW objs \in Batches, NEW fields \in Conflicts, BatchUpsert(objs, fields) PROVE UpsertInv'
  BY <1>1, <1>2, BatchUpsertInv
<1>3. ASSUME Fails PROVE UpsertInv'
  <2>1. Returns("failed", "") /\ UNCHANGED <<rowset, gone, lastKey>>
    BY <1>3 DEF Fails
  <2>2. lastKey' \in Nat /\ \A r \in rowset : IsStored(r, lastKey')
    BY <1>1, <2>1 DEF UpsertInv
  <2>3. QED
    BY <1>1, <2>1, <2>2, ReturnInv
<1>4. ASSUME UNCHANGED upsertVars PROVE UpsertInv'
  <2>1. UNCHANGED <<engine, rowset, lastKey, upsert, gone, upserts>>
    BY <1>4 DEF upsertVars
  <2>2. UpsertsLiveRows => UpsertsLiveRows'
    <3>1. Sees' = Sees
      BY <2>1 DEF Sees
    <3>2. QED
      BY <2>1, <3>1, ZenonT(60) DEF UpsertsLiveRows
  <2>3. PlaceOK(upsert', rowset', gone', lastKey')
    BY <1>1, <2>1 DEF UpsertInv
  <2>4. QED
    BY <1>1, <2>1, <2>2, <2>3 DEF UpsertInv
<1>5. QED
  BY <1>1, <1>2, <1>3, <1>4, LookUpInv, InsertInv, CommitInv, TrashInv DEF UpsertsNext

\* BatchUpsert gives each object a row of its own and writes to no deleted row but one that another
\* call deleted after the object was looked up; a duplicate it reports names an index that clashes:
\* for every batch, conflict target, set of unique indexes and chunk size, whatever rows others
\* delete and restore meanwhile.
THEOREM UpsertsKeepLive == UpsertsSpec => []UpsertsLiveRows
<1>1. UpsertsSpec => []UpsertInv
  BY UpsertBegins, UpsertsStep, PTL DEF UpsertsSpec
<1>2. QED
  BY <1>1, UpsertInvLive, PTL
=============================================================================
