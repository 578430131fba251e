-------------------------------- MODULE Upserts --------------------------------
(***************************************************************************)
(* Upserts of a soft-delete model (BatchUpsert and what it calls in        *)
(* store/write.go): a transaction looks, a chunk of the batch at a time,   *)
(* for deleted rows in the way, and then inserts with ON CONFLICT; other   *)
(* callers delete and restore rows, on SQLite only between transactions.   *)
(* The columns are rid, title and slug; a value is a text and a number, 0  *)
(* but for one assigned at the insert; Zero is the empty value, which is   *)
(* replaced by an assigned one in the rid and where the database has a     *)
(* default.  ON CONFLICT is PostgreSQL's and SQLite's: MySQL updates on    *)
(* any unique key, as the code documents.  The store has no scope, with    *)
(* which BatchUpsert refuses every call, and no hooks.                     *)
(***************************************************************************)
EXTENDS Integers, Sequences, FiniteSets, SequencesExt, FiniteSetsExt

CONSTANTS
  Engines,       \* of "sqlite", "postgres"
  Indexes,       \* the unique indexes: [name, cols, soft]
  Assigned,      \* the columns whose zero value the database replaces
  Conflicts,     \* the conflict fields a caller may name
  Batches,       \* the batches
  batchSize,     \* objects of one statement
  MaxUpserts     \* bound: calls

Cols == {"rid", "title", "slug"}
Zero == <<"", 0>>
ASSUME UpsertsAssumption ==
  /\ batchSize \in Nat \ {0} /\ MaxUpserts \in Nat /\ Assigned \subseteq Cols
  /\ \A idx \in Indexes : ToSet(idx.cols) \subseteq Cols
  /\ \A objs \in Batches : objs \in Seq([Cols -> STRING \X {0}])

VARIABLES
  engine,     \* the database
  rowset,     \* the committed rows: [key, rid, title, slug, deleted]
  lastKey,    \* the last key given
  upsert,     \* the call under way or, "done", the last one
  gone,       \* history: <<key, n>> of a row that another deleted after n objects were looked up
  upserts     \* calls so far

upsertVars == <<engine, rowset, lastKey, upsert, gone, upserts>>

-----------------------------------------------------------------------------
(* The columns of ON CONFLICT, and whether only live rows conflict.        *)
sameSet(a, b) == Len(a) = Len(b) /\ ToSet(a) \subseteq ToSet(b)
Named(field) == IF field = "id" THEN "rid" ELSE field
conflictTarget(fields) ==
  LET cols == IF fields = <<>> THEN <<"rid">> ELSE [i \in 1..Len(fields) |-> Named(fields[i])]
  IN  [ok |-> ToSet(cols) \subseteq Cols /\ IsInjective(cols), cols |-> ToSet(cols),
       live |-> \E idx \in Indexes : idx.soft /\ sameSet(idx.cols, cols)]

(* Two objects of one conflict value; an empty rid never collides.         *)
distinctConflicts(objs, target) ==
  \A i, j \in 1..Len(objs) : i < j =>
    \/ "rid" \in target /\ Zero \in {objs[i].rid, objs[j].rid}
    \/ \E col \in target : objs[i][col] # objs[j][col]

(* The index over exactly the target that counts deleted rows.             *)
uniqueIndexOf(target) ==
  LET over == {idx \in Indexes : ~ idx.soft /\ ToSet(idx.cols) = target}
  IN  IF over = {} THEN "" ELSE (CHOOSE idx \in over : TRUE).name

-----------------------------------------------------------------------------
NoUpsert ==
  [at |-> "idle", objs |-> <<>>, target |-> [ok |-> FALSE, cols |-> {}, live |-> FALSE], next |-> 1,
   mine |-> {}, placed |-> <<>>, err |-> "", constraint |-> ""]
UpsertsInit ==
  engine \in Engines /\ rowset = {} /\ lastKey = 0 /\ upsert = NoUpsert /\ gone = {} /\ upserts = 0

InUpsert == upsert.at \in {"check", "insert", "commit"}
Returns(err, constraint) == upsert' = [upsert EXCEPT !.at = "done", !.mine = {}, !.err = err, !.constraint = constraint]

BatchUpsert(objs, fields) ==
  LET target == conflictTarget(fields)
      invalid == objs # <<>> /\ ~ (target.ok /\ distinctConflicts(objs, target.cols))
  IN  /\ ~ InUpsert /\ upserts < MaxUpserts /\ upserts' = upserts + 1
      /\ upsert' = [NoUpsert EXCEPT !.objs = objs, !.target = target, !.err = IF invalid THEN "invalid" ELSE "",
                       !.at = IF objs = <<>> \/ invalid THEN "done" ELSE IF target.live THEN "insert" ELSE "check"]
      /\ gone' = {} /\ UNCHANGED <<engine, rowset, lastKey>>

(* Deleted rows that hold an object's values, a chunk of objects at a time.*)
insertValues(obj, target) == \A col \in target : obj[col] = Zero => col \notin Assigned \cup {"rid"}
Holds(row, obj, target) == \A col \in target : row[col] = obj[col]
Chunk(first) == first..first + batchSize - 1
deletedDuplicate(target) == Returns("duplicate", uniqueIndexOf(target))
LooksUp(ends) ==
  LET cols == upsert.target.cols
  IN  /\ upsert.at = "check"
      /\ IF \E i \in Chunk(upsert.next) \cap DOMAIN upsert.objs, row \in rowset :
              row.deleted /\ insertValues(upsert.objs[i], cols) /\ Holds(row, upsert.objs[i], cols)
         THEN deletedDuplicate(cols)
         ELSE upsert' = IF ends THEN [upsert EXCEPT !.at = "insert", !.next = 1] ELSE [upsert EXCEPT !.next = @ + batchSize]
      /\ UNCHANGED <<engine, rowset, lastKey, gone, upserts>>
deletedConflict_FirstChunk == LooksUp(TRUE)
deletedConflict == LooksUp(upsert.next + batchSize > Len(upsert.objs))

-----------------------------------------------------------------------------
(* ON CONFLICT, external: a row of the same target values is updated, any  *)
(* other clash with a unique index fails the statement, as does a target   *)
(* that is of no unique index.  A transaction sees what it wrote.          *)
InsertedRow(obj, key) ==
  LET Filled(col) == IF obj[col] = Zero /\ col \in Assigned \cup {"rid"} THEN <<"new", key>> ELSE obj[col]
  IN  [key |-> key, rid |-> Filled("rid"), title |-> Filled("title"), slug |-> Filled("slug"), deleted |-> FALSE]
ClashesIn(rows, row, idx) == \E r \in rows : (~ idx.soft \/ {r.deleted, row.deleted} = {FALSE}) /\ Holds(r, row, ToSet(idx.cols))
Except(rows, key) == {r \in rows : r.key # key}
Sees == {r \in rowset : \A own \in upsert.mine : r.key # own.key} \cup upsert.mine
OnConflict(row, target) ==
  LET hits == {r \in Sees : (~ target.live \/ ~ r.deleted) /\ Holds(r, row, target.cols)}
  IN  IF hits = {} THEN row ELSE [(CHOOSE r \in hits : TRUE) EXCEPT !.title = row.title, !.slug = row.slug]
CreateInBatches ==
  LET stored == OnConflict(InsertedRow(upsert.objs[upsert.next], lastKey + 1), upsert.target)
  IN  /\ upsert.at = "insert" /\ lastKey' = lastKey + 1
      /\ IF \/ ~ \E idx \in Indexes : ToSet(idx.cols) = upsert.target.cols /\ idx.soft = upsert.target.live
            \/ \E idx \in Indexes : ClashesIn(Except(Sees, stored.key), stored, idx)
         THEN Returns("clash", "")
         ELSE upsert' = [upsert EXCEPT !.mine = Except(@, stored.key) \cup {stored}, !.placed = Append(@, stored.key),
                           !.next = @ + 1, !.at = IF upsert.next = Len(upsert.objs) THEN "commit" ELSE "insert"]
      /\ UNCHANGED <<engine, rowset, gone, upserts>>

Commits == upsert.at = "commit" /\ rowset' = Sees /\ Returns("", "") /\ UNCHANGED <<engine, lastKey, gone, upserts>>
Fails == InUpsert /\ Returns("failed", "") /\ UNCHANGED <<engine, rowset, lastKey, gone, upserts>>

(* A row is soft-deleted, or restored, by another call, which waits for    *)
(* SQLite's writer, for the rows the transaction holds, and for the values *)
(* it wrote or has written over.                                           *)
Trashes(row) ==
  /\ InUpsert => engine # "sqlite" /\ \A own \in upsert.mine : own.key # row.key
  /\ rowset' = (rowset \ {row}) \cup {[row EXCEPT !.deleted = ~ @]}
  /\ row.deleted => ~ \E idx \in Indexes : ClashesIn((rowset \ {row}) \cup upsert.mine, [row EXCEPT !.deleted = FALSE], idx)
  /\ IF InUpsert
     THEN /\ gone' = IF row.deleted THEN gone
                     ELSE gone \cup {<<row.key, IF upsert.at = "check" THEN upsert.next - 1 ELSE Len(upsert.objs)>>}
          /\ UNCHANGED upsert
     ELSE gone' = {} /\ upsert' = NoUpsert
  /\ UNCHANGED <<engine, lastKey, upserts>>

UpsertsNext ==
  \/ \E objs \in Batches, fields \in Conflicts : BatchUpsert(objs, fields)
  \/ deletedConflict \/ CreateInBatches \/ Commits \/ Fails
  \/ \E row \in rowset : Trashes(row)

UpsertsSpec == UpsertsInit /\ [][UpsertsNext]_upsertVars

-----------------------------------------------------------------------------
(* An upsert gives each object a row of its own that holds its values, and *)
(* writes to no deleted row, but for one that another call deleted after   *)
(* the object was looked up; and when it fails for a deleted row's sake it *)
(* names, if any, an index on which a plain insert of one of its objects   *)
(* would clash.                                                            *)
UpsertsLiveRows ==
  LET objs == upsert.objs
      placed == upsert.placed
      Stores(row, obj) == \A col \in Cols \ {"rid"} : (obj[col] = Zero /\ col \in Assigned) \/ row[col] = obj[col]
  IN  /\ upsert.at \in {"insert", "commit"} \/ (upsert.at = "done" /\ upsert.err = "") =>
           /\ IsInjective(placed) /\ (upsert.at = "insert" \/ Len(placed) = Len(objs))
           /\ \A i \in DOMAIN placed : \E row \in Sees :
                /\ row.key = placed[i] /\ Stores(row, objs[i])
                /\ row.deleted => \E n \in i..Len(objs) : <<row.key, n>> \in gone
      /\ upsert.at = "done" /\ upsert.err = "duplicate" /\ upsert.constraint # "" =>
           \E i \in DOMAIN objs : \E idx \in Indexes :
             idx.name = upsert.constraint /\ ClashesIn(rowset, InsertedRow(objs[i], lastKey + 1), idx)
=============================================================================
