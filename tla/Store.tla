--------------------------------- MODULE Store ---------------------------------
(***************************************************************************)
(* The rows of an owned, soft-deleted model behind a store (store/write.go,*)
(* read.go, store.go), and the transactions of its handle (db/tx.go).      *)
(* Every statement is one step; a write that matched no row asks again, in *)
(* another step, why.  A row's "edits" are the column that callers read,   *)
(* add to and write back; slug is under a SoftUnique index.  Isolation is  *)
(* READ COMMITTED: a transaction's writes are its own until it commits, it *)
(* holds the rows it wrote or read for update, and on SQLite it is the     *)
(* only writer.  A caller reads its object anew after a rollback.          *)
(***************************************************************************)
EXTENDS Integers, Sequences, FiniteSets, SequencesExt, Functions

CONSTANTS
  Callers,
  Principals,     \* of "ann", "bob", "admin", "none", and "system", whose store has no owner scope
  Rids,           \* the rows there may be; the first exists
  MaxOps,         \* bound: operations
  MaxStaged       \* bound: callbacks a transaction stages

ASSUME StoreAssumption == 1 \in Rids /\ MaxOps \in Nat /\ MaxStaged \in Nat

VARIABLES
  dialect,   \* sqlite, or another
  who,       \* the principal of each caller
  records,      \* the committed rows, by rid
  calls,     \* where each caller is
  ops,       \* operations so far
  saved,     \* <<rid, edit>> of the updates a caller was told are done
  staged,    \* <<caller, n>> of callbacks staged by a transaction that committed, in order
  called     \* <<caller, n>> of callbacks run

storeVars == <<dialect, who, records, calls, ops, saved, staged, called>>

NoObject == [rid |-> 0, version |-> 0, edits |-> {}, held |-> FALSE]
NoTx == [open |-> FALSE, writes |-> <<>>, held |-> {}, pending |-> <<>>, edits |-> {}]
NoCall == [at |-> "idle", rid |-> 0, lock |-> 0, object |-> NoObject, answer |-> "none", tx |-> NoTx, flush |-> <<>>]
NewRow(owner, slug) == [owner |-> owner, slug |-> slug, edits |-> {}, version |-> 1, deleted |-> FALSE]

StoreInit ==
  /\ dialect \in {"sqlite", "postgres"}
  /\ who \in [Callers -> Principals]
  /\ records = [rid \in {1} |-> NewRow("ann", "s")]
  /\ calls = [c \in Callers |-> NoCall]
  /\ ops = 0 /\ saved = {} /\ staged = <<>> /\ called = <<>>

-----------------------------------------------------------------------------
(* A row put among rows, and rows over others.                             *)
Put(rows, rid, row) == [r \in DOMAIN rows \cup {rid} |-> IF r = rid THEN row ELSE rows[r]]
Overlay(rows, under) == [rid \in DOMAIN rows \cup DOMAIN under |-> IF rid \in DOMAIN rows THEN rows[rid] ELSE under[rid]]

InTx(c) == calls[c].tx.open
View(c) == Overlay(calls[c].tx.writes, records)

(* A write waits for the transactions that hold the row.                   *)
Busy(c) == dialect = "sqlite" /\ \E other \in Callers \ {c} : InTx(other) \/ calls[other].at = "upsert"
Free(c, rid) == ~ Busy(c) /\ \A other \in Callers \ {c} : rid \notin calls[other].tx.held

(* ownerScope, of a write and of a read.                                   *)
HasPrincipal(c) == who[c] # "none"
ownerScope(c, row) == who[c] \in {"admin", "system"} \/ row.owner = who[c]
readScoped(c) == {rid \in DOMAIN View(c) : HasPrincipal(c) /\ ownerScope(c, View(c)[rid])}
Live(c) == {rid \in DOMAIN View(c) : ~ View(c)[rid].deleted}

(* A statement on a row, in the caller's transaction or on its own; what   *)
(* it answers, and the object the caller then has.                         *)
Writes(c, rid, row, object, edits) ==
  /\ calls[c].at = "idle" /\ ops < MaxOps /\ Free(c, rid)
  /\ ops' = ops + 1
  /\ IF InTx(c)
     THEN /\ LET tx == calls[c].tx
             IN  calls' = [calls EXCEPT ![c] = [@ EXCEPT
                   !.tx = [tx EXCEPT !.writes = Put(tx.writes, rid, row), !.held = tx.held \cup {rid}, !.edits = tx.edits \cup edits],
                   !.object = object, !.answer = "ok"]]
          /\ UNCHANGED <<records, saved>>
     ELSE /\ records' = Put(records, rid, row)
          /\ saved' = saved \cup edits
          /\ calls' = [calls EXCEPT ![c] = [@ EXCEPT !.object = object, !.answer = "ok"]]
  /\ UNCHANGED <<dialect, who, staged, called>>

Answers(c, at, rid, lock, answer) ==
  /\ calls[c].at = "idle" /\ ops < MaxOps
  /\ ops' = ops + 1
  /\ calls' = [calls EXCEPT ![c] = [@ EXCEPT !.at = at, !.rid = rid, !.lock = lock, !.answer = answer]]
  /\ UNCHANGED <<dialect, who, records, saved, staged, called>>

-----------------------------------------------------------------------------
(* Reads.                                                                  *)

get(c, rid, lock) ==
  LET found == rid \in readScoped(c) \cap Live(c)
      tx == calls[c].tx
  IN  /\ calls[c].at = "idle" /\ ops < MaxOps
      /\ lock => InTx(c) /\ Free(c, rid)
      /\ ops' = ops + 1
      /\ calls' = [calls EXCEPT ![c] = [@ EXCEPT
           !.object = IF ~ found THEN NoObject
                      ELSE [rid |-> rid, version |-> View(c)[rid].version, edits |-> View(c)[rid].edits, held |-> lock],
           !.tx = [tx EXCEPT !.held = IF found /\ lock THEN tx.held \cup {rid} ELSE tx.held],
           !.rid = rid, !.answer = IF found THEN "found" ELSE "not_found"]]
      /\ UNCHANGED <<dialect, who, records, saved, staged, called>>

Get(c, rid) == get(c, rid, FALSE)
GetForUpdate(c, rid) == get(c, rid, TRUE)

-----------------------------------------------------------------------------
(* Writes.                                                                 *)

Clashes(c, rid, slug) == \E other \in Live(c) : other # rid /\ View(c)[other].slug = slug

(* Another transaction's uncommitted row with the slug makes an insert     *)
(* wait too.                                                               *)
Waits(c, slug) == \E other \in Callers \ {c}, rid \in Rids :
  rid \in DOMAIN calls[other].tx.writes /\ calls[other].tx.writes[rid].slug = slug

(* fillOwner: the owner of a new row, "" for a refusal.                    *)
fillOwner(c, given) ==
  CASE who[c] = "system" -> given
    [] who[c] = "none" -> given
    [] who[c] = "admin" /\ given # "" -> given
    [] OTHER -> who[c]

Create(c, rid, slug, given) ==
  LET owner == fillOwner(c, given)
  IN  /\ rid \notin DOMAIN View(c) /\ ~ Waits(c, slug)
      /\ CASE who[c] = "none" /\ owner = "" -> Answers(c, "idle", rid, 0, "no_principal")
           [] Clashes(c, rid, slug) /\ ~ (who[c] = "none" /\ owner = "") -> Answers(c, "idle", rid, 0, "duplicate")
           [] OTHER -> Writes(c, rid, NewRow(owner, slug), calls[c].object, {})

(* The rows write's query meets, trashed ones when restoring.              *)
Meets(c, rid, trashed) ==
  /\ rid \in DOMAIN View(c) /\ ownerScope(c, View(c)[rid])
  /\ View(c)[rid].deleted = trashed

Unmoved(c, rid, lock) == lock > 0 => View(c)[rid].version = lock

(* Update: Patch(...).Onto(object) locks on the object's version, Set on   *)
(* none.  The edit of an object read for update needs no version.          *)
Update(c, rid, lock, edits) ==
  IF ~ HasPrincipal(c) THEN Answers(c, "idle", rid, lock, "no_principal")
  ELSE IF Meets(c, rid, FALSE) /\ Unmoved(c, rid, lock)
       THEN LET row == [View(c)[rid] EXCEPT !.version = @ + 1, !.edits = IF edits = {} THEN @ ELSE edits]
            IN  Writes(c, rid, row,
                       IF edits = {} THEN calls[c].object
                       ELSE [calls[c].object EXCEPT !.edits = edits, !.version = IF lock > 0 THEN lock + 1 ELSE @],
                       {<<rid, edit>> : edit \in edits})
       ELSE Free(c, rid) /\ Answers(c, IF lock > 0 THEN "missed" ELSE "idle", rid, lock, "not_found")

UpdateOnto(c) ==
  LET object == calls[c].object
  IN  object.rid # 0 /\ Update(c, object.rid, object.version, object.edits \cup {ops})
UpdateHeld(c) ==
  LET object == calls[c].object
  IN  object.held /\ InTx(c) /\ Update(c, object.rid, 0, object.edits \cup {ops})
UpdateOther(c, rid) == Update(c, rid, 0, {})

Delete(c, rid, lock) ==
  IF ~ HasPrincipal(c) THEN Answers(c, "idle", rid, lock, "no_principal")
  ELSE IF Meets(c, rid, FALSE) /\ Unmoved(c, rid, lock)
       THEN Writes(c, rid, [View(c)[rid] EXCEPT !.version = @ + 1, !.deleted = TRUE], calls[c].object, {})
       ELSE Free(c, rid) /\ Answers(c, IF lock > 0 THEN "missed" ELSE "idle", rid, lock, "ok")

(* missed: a row there is, deleted or not, has moved.                      *)
exists(rid, rids) == rid \in rids
missed_Unfenced(c) == {rid \in DOMAIN View(c) : TRUE}
missed(c) == {rid \in DOMAIN View(c) : ownerScope(c, View(c)[rid])}

Missed(c) ==
  /\ calls[c].at = "missed"
  /\ calls' = [calls EXCEPT ![c] = [@ EXCEPT !.at = "idle", !.answer = IF exists(calls[c].rid, missed(c)) THEN "conflict" ELSE "not_found"]]
  /\ UNCHANGED <<dialect, who, records, ops, saved, staged, called>>

Restore(c, rid) ==
  IF ~ HasPrincipal(c) THEN Answers(c, "idle", rid, 0, "no_principal")
  ELSE IF Meets(c, rid, TRUE)
       THEN LET slug == View(c)[rid].slug
            IN  /\ ~ Waits(c, slug)
                /\ IF Clashes(c, rid, slug) THEN Answers(c, "idle", rid, 0, "duplicate")
                   ELSE Writes(c, rid, [View(c)[rid] EXCEPT !.version = @ + 1, !.deleted = FALSE], calls[c].object, {})
       ELSE Free(c, rid) /\ Answers(c, "restore", rid, 0, "none")

RestoreMissed(c) ==
  /\ calls[c].at = "restore"
  /\ calls' = [calls EXCEPT ![c] = [@ EXCEPT
       !.at = "idle", !.answer = IF exists(calls[c].rid, readScoped(c) \cap Live(c)) THEN "ok" ELSE "not_found"]]
  /\ UNCHANGED <<dialect, who, records, ops, saved, staged, called>>

(* Upsert on the RID: in one transaction, a look for a deleted row with    *)
(* that RID, then the insert, which updates the row there is, deleted or   *)
(* not.  Only a store without a scope takes it.                            *)
deletedTwin(rid) == records[rid].deleted
Upsert(c, rid) ==
  /\ who[c] = "system" /\ ~ InTx(c) /\ ~ Busy(c)
  /\ rid \in DOMAIN records
  /\ IF deletedTwin(rid) THEN Answers(c, "idle", rid, 0, "duplicate") ELSE Answers(c, "upsert", rid, 0, "none")

UpsertWrites(c) ==
  LET rid == calls[c].rid
  IN  /\ calls[c].at = "upsert" /\ Free(c, rid)
      /\ records' = [records EXCEPT ![rid] = [@ EXCEPT !.version = records[rid].version + 1]]
      /\ calls' = [calls EXCEPT ![c] = [@ EXCEPT !.at = "idle", !.answer = "ok"]]
      /\ UNCHANGED <<dialect, who, ops, saved, staged, called>>

-----------------------------------------------------------------------------
(* Transactions.  A RunInTx inside another joins it.                       *)

RunInTx(c) ==
  /\ calls[c].at = "idle" /\ ~ InTx(c) /\ calls[c].flush = <<>> /\ ops < MaxOps /\ ~ Busy(c)
  /\ ops' = ops + 1
  /\ calls' = [calls EXCEPT ![c] = [@ EXCEPT !.tx = [NoTx EXCEPT !.open = TRUE], !.object = NoObject]]
  /\ UNCHANGED <<dialect, who, records, saved, staged, called>>

AfterCommit(c) ==
  /\ calls[c].at = "idle" /\ InTx(c) /\ Len(calls[c].tx.pending) < MaxStaged
  /\ LET tx == calls[c].tx
     IN  calls' = [calls EXCEPT ![c] = [@ EXCEPT
           !.tx = [tx EXCEPT !.pending = Append(tx.pending, <<c, Len(staged) + Len(tx.pending) + 1>>)]]]
  /\ UNCHANGED <<dialect, who, records, ops, saved, staged, called>>

Commit(c) ==
  /\ calls[c].at = "idle" /\ InTx(c)
  /\ records' = View(c)
  /\ saved' = saved \cup calls[c].tx.edits
  /\ staged' = staged \o calls[c].tx.pending
  /\ calls' = [calls EXCEPT ![c] = [@ EXCEPT !.tx = NoTx, !.flush = calls[c].tx.pending, !.object = [calls[c].object EXCEPT !.held = FALSE]]]
  /\ UNCHANGED <<dialect, who, ops, called>>

(* fn's error or panic, or a commit that fails.                            *)
Rollback_Flushes(c) ==
  /\ InTx(c)
  /\ calls' = [calls EXCEPT ![c] = [NoCall EXCEPT !.flush = calls[c].tx.pending]]
  /\ UNCHANGED <<dialect, who, records, ops, saved, staged, called>>
Rollback(c) ==
  /\ InTx(c)
  /\ calls' = [calls EXCEPT ![c] = NoCall]
  /\ UNCHANGED <<dialect, who, records, ops, saved, staged, called>>

flush(c) ==
  /\ calls[c].flush # <<>>
  /\ called' = Append(called, Head(calls[c].flush))
  /\ calls' = [calls EXCEPT ![c] = [@ EXCEPT !.flush = Tail(calls[c].flush)]]
  /\ UNCHANGED <<dialect, who, records, ops, saved, staged>>

StoreNext ==
  \E c \in Callers :
    \/ \E rid \in Rids :
         \/ Get(c, rid) \/ GetForUpdate(c, rid) \/ UpdateOther(c, rid) \/ Restore(c, rid) \/ Upsert(c, rid)
         \/ \E slug \in {"s", "t"}, given \in {"", "ann"} : Create(c, rid, slug, given)
         \/ \E lock \in {0, calls[c].object.version} : Delete(c, rid, lock)
    \/ UpdateOnto(c) \/ UpdateHeld(c) \/ Missed(c) \/ RestoreMissed(c) \/ UpsertWrites(c)
    \/ RunInTx(c) \/ AfterCommit(c) \/ Commit(c) \/ Rollback(c) \/ flush(c)

StoreSpec == StoreInit /\ [][StoreNext]_storeVars

-----------------------------------------------------------------------------
(* No update is lost: what a caller wrote back from an object it had read, *)
(* under the object's version or the row's lock, and was told is done,     *)
(* stays in the row, whatever others wrote, deleted or restored meanwhile. *)
NoLostUpdate == \A save \in saved : save[2] \in records[save[1]].edits

(* The fence holds in writes and in words: a principal who is no admin     *)
(* changes only rows of its own, keeps their owner, and is told that a row *)
(* is there, has moved or was written only of a row of its own; the second *)
(* look of a write that met no row is fenced as the first was.             *)
Own(c, rid) == rid \in DOMAIN View(c) /\ View(c)[rid].owner = who[c]
Fenced ==
  [][ \A c \in Callers : who[c] \in {"ann", "bob", "none"} /\ calls'[c] # calls[c] =>
        /\ calls'[c].answer # calls[c].answer /\ calls'[c].answer \in {"found", "conflict"} => Own(c, calls'[c].rid)
        /\ \A rid \in DOMAIN records : records'[rid] # records[rid] => records[rid].owner = who[c] /\ records'[rid].owner = who[c] ]_storeVars

(* Callbacks are of transactions that committed, run once each, a          *)
(* transaction's own in the order it staged them.                          *)
CallbacksFollowCommit ==
  \A i \in 1..Len(called) :
    /\ \E j \in 1..Len(staged) : staged[j] = called[i]
    /\ \A k \in 1..i - 1 : called[k][1] = called[i][1] => called[k][2] < called[i][2]

(* Writes hold: none that was confirmed is lost, none passes the fence.    *)
WritesHold == []NoLostUpdate /\ Fenced
=============================================================================
