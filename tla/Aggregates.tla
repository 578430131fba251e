------------------------------- MODULE Aggregates -------------------------------
(***************************************************************************)
(* Aggregates, projections and lists by value (store/aggregate.go) over a  *)
(* table that changes between their statements.  A row holds a number, a   *)
(* time, with the zone it was written in, and a name, each a sequence of   *)
(* one value or, for NULL, of none.  The number is the column n of int64,  *)
(* u of uint64, x of float64 and label, an integer declared as text; doc   *)
(* is a JSON column.  int64 ends at IntMax, a float is exact to FloatExact.*)
(***************************************************************************)
EXTENDS Integers, Sequences, FiniteSets, SequencesExt, FiniteSetsExt, Functions

CONSTANTS
  Dialects,        \* of "sqlite", "postgres", "mysql"
  RowContents,     \* what a row may hold: [n, when, name]
  RowIds,          \* the ids
  Asks,            \* the calls
  Fold,            \* each name, in lower case
  IntMax, FloatExact, Milli, ZoneLong,   \* the numbers' limits; ticks of a millisecond and of an hour
  ChunkSize,       \* values of one statement of ListIn, 500 in the code
  MaxRowChanges    \* bound: changes of the table

ASSUME AggregatesAssumption ==
  /\ {IntMax, FloatExact} \subseteq Nat /\ {Milli, ZoneLong, ChunkSize} \subseteq Nat \ {0}

VARIABLES
  flavor,    \* the database
  tuples,       \* the table
  ask,        \* the call
  chunkAt,       \* where the call is
  reply,     \* its answer
  held,       \* history: what each row that never changed since the call began holds
  drifted       \* changes so far

aggVars == <<flavor, tuples, ask, chunkAt, reply, held, drifted>>

-----------------------------------------------------------------------------
(* The fields, by their Go type and their declared type.                   *)

specOfField == [n |-> "int", u |-> "uint", x |-> "float", when |-> "time", name |-> "string", label |-> "int"]
textual(field) == field = "label"
aggField(field) == field \in DOMAIN specOfField
Cell(row, field) ==
  CASE field = "when" -> row.when
    [] field = "name" -> row.name
    [] field = "u" -> IF row.n # <<>> /\ row.n[1] < 0 THEN <<>> ELSE row.n
    [] OTHER -> row.n

(* An instant is the clock's reading less its zone.  SQLite keeps the text *)
(* and orders it as text; strftime makes it UTC, to the millisecond.       *)
Instant(time) == time.clock - time.zone * ZoneLong
aggExpr_Raw(cell, kind) ==
  IF kind # "time" \/ cell = <<>> THEN cell
  ELSE IF flavor = "sqlite" THEN <<[at |-> Instant(cell[1]), sorts |-> cell[1].clock]>>
  ELSE <<[at |-> Instant(cell[1]), sorts |-> Instant(cell[1])]>>
aggExpr(cell, kind) ==
  IF kind # "time" \/ cell = <<>> THEN cell
  ELSE LET at == IF flavor = "sqlite" THEN Instant(cell[1]) - (Instant(cell[1]) % Milli) ELSE Instant(cell[1])
       IN  <<[at |-> at, sorts |-> at]>>

(* What a function of a column returns, and whether N holds it.            *)
resultKind(fn, field) ==
  LET kind == specOfField[field]
  IN  CASE textual(field) -> "error"
        [] kind \in {"int", "uint"} -> IF fn = "AVG" THEN "float" ELSE "int"
        [] kind = "float" -> "float"
        [] kind = "time" /\ fn \in {"MIN", "MAX"} -> "time"
        [] OTHER -> "error"
readAs(n, kind) ==
  CASE n = "int64" -> IF kind = "int" THEN kind ELSE "error"
    [] n = "float64" -> IF kind \in {"int", "float"} THEN "float" ELSE "error"
    [] OTHER -> IF kind = "time" THEN kind ELSE "error"

-----------------------------------------------------------------------------
(* The database, external: an aggregate of the cells that are not NULL, as *)
(* the driver gives it.  SQLite adds in int64 and fails past its range;    *)
(* the others answer with the text of a number of any size.                *)

Fits(v) == v >= -IntMax - 1 /\ v <= IntMax
Raw(as, v) == [as |-> as, v |-> v]
Select(fn, field, ids) ==
  LET kind == specOfField[field]
      Of(id) == aggExpr(Cell(tuples[id], field), kind)[1]
      some == {id \in ids : Cell(tuples[id], field) # <<>>}
      values == {Of(id) : id \in some}
      total == MapThenSumSet(Of, some)
      Before(a, b) == IF kind = "time" THEN a.sorts < b.sorts ELSE a < b
      least == CHOOSE a \in values : ~ \E b \in values : Before(b, a)
      most == CHOOSE a \in values : ~ \E b \in values : Before(a, b)
      as == CASE kind \in {"int", "uint"} -> "int64" [] kind = "float" -> "float64"
              [] OTHER -> IF flavor = "sqlite" THEN "text" ELSE "time"
  IN  CASE fn = "COUNT DISTINCT" -> Raw("int64", Cardinality(values))
        [] some = {} -> Raw("nil", 0)
        [] fn = "SUM" /\ kind = "float" -> Raw("float64", total)
        [] fn = "SUM" -> IF flavor # "sqlite" THEN Raw("text", total) ELSE IF Fits(total) THEN Raw("int64", total) ELSE Raw("error", 0)
        [] fn = "AVG" -> Raw(IF kind = "float" \/ flavor = "sqlite" THEN "float64" ELSE "text", total \div Cardinality(some))
        [] OTHER -> Raw(as, LET v == IF fn = "MIN" THEN least ELSE most IN IF kind = "time" THEN v.at ELSE v)

-----------------------------------------------------------------------------
(* What the driver returned, as the Go type.  A float past FloatExact is   *)
(* the even number next to it.                                             *)

Error == [as |-> "error", v |-> 0]
Nothing == [as |-> "nil", v |-> 0]
Float(v) == IF v \in -FloatExact..FloatExact \/ v % 2 = 0 THEN v ELSE IF v % 4 = 1 THEN v - 1 ELSE v + 1
parseInt(v) == IF Fits(v) THEN Raw("int", v) ELSE Error
toInt64(raw) == CASE raw.as = "int64" -> Raw("int", raw.v) [] raw.as = "text" -> parseInt(raw.v) [] OTHER -> Error
toFloat64(raw) ==
  CASE raw.as = "float64" -> Raw("float", raw.v) [] raw.as \in {"int64", "text"} -> Raw("float", Float(raw.v)) [] OTHER -> Error
toTime(raw) == IF raw.as \in {"time", "text"} THEN Raw("time", raw.v) ELSE Error
toAggValue(raw, kind) ==
  CASE raw.as = "nil" -> Nothing
    [] kind = "int" -> toInt64(raw)
    [] kind = "float" -> toFloat64(raw)
    [] OTHER -> toTime(raw)

single(fn, field, n) ==
  IF ~ aggField(field) \/ resultKind(fn, field) = "error" \/ readAs(n, resultKind(fn, field)) = "error" THEN Error
  ELSE toAggValue(Select(fn, field, DOMAIN tuples), readAs(n, resultKind(fn, field)))
CountDistinct(field) == IF aggField(field) THEN toInt64(Select("COUNT DISTINCT", field, DOMAIN tuples)) ELSE Error

-----------------------------------------------------------------------------
(* Groups, by a key that no row may lack.                                  *)

checkKey(k, field) ==
  specOfField[field] = CASE k = "int64" -> "int" [] k = "uint64" -> "uint" [] k = "float64" -> "float" [] k = "string" -> "string" [] k = "time" -> "time" [] OTHER -> "none"
aggPlan(agg, ids) ==
  CASE agg.fn = "COUNT" -> IF agg.field = "" THEN toInt64(Raw("int64", Cardinality(ids))) ELSE Error
    [] ~ aggField(agg.field) -> Error
    [] agg.fn = "COUNT DISTINCT" -> toInt64(Select(agg.fn, agg.field, ids))
    [] agg.fn \in {"SUM", "AVG", "MIN", "MAX"} ->
         IF resultKind(agg.fn, agg.field) = "error" THEN Error
         ELSE toAggValue(Select(agg.fn, agg.field, ids), resultKind(agg.fn, agg.field))
    [] OTHER -> Error
toKey(key, kind) == IF kind = "time" THEN key.at ELSE key
GroupBy(k, field, aggs, paged) ==
  LET kind == specOfField[field]
      Key(id) == aggExpr(Cell(tuples[id], field), kind)[1]
      keys == {Key(id) : id \in DOMAIN tuples}
      Before(a, b) == IF kind = "time" THEN a.sorts < b.sorts ELSE a < b
      Of(key) == [key |-> toKey(key, kind), values |-> [i \in 1..Len(aggs) |-> aggPlan(aggs[i], {id \in DOMAIN tuples : Key(id) = key})]]
  IN  IF \/ aggs = <<>> \/ ~ aggField(field) \/ paged
         \/ ~ checkKey(k, field)
         \/ \E id \in DOMAIN tuples : Cell(tuples[id], field) = <<>>
         \/ \E key \in keys : \E i \in 1..Len(aggs) : Of(key).values[i] = Error
      THEN Error
      ELSE Raw("groups", LET sorted == SetToSortSeq(keys, Before) IN [i \in 1..Len(sorted) |-> Of(sorted[i])])

-----------------------------------------------------------------------------
(* ListIn and ListByIDs: the values once each, a chunk at a time, each a   *)
(* statement of its own; a row that two chunks match is listed once.       *)

Once(values) == FoldLeft(LAMBDA seen, v : IF v \in ToSet(seen) THEN seen ELSE Append(seen, v), <<>>, values)
Unique(call) == Once(IF call.op = "ListByIDs" THEN SortSeq(call.values, <) ELSE call.values)
InList(call, id, chunk) ==
  CASE call.op = "ListByIDs" -> id \in ToSet(chunk)
    [] OTHER -> /\ tuples[id].name # <<>>
                /\ \E v \in ToSet(chunk) : IF flavor = "mysql" THEN Fold[v] = Fold[tuples[id].name[1]] ELSE v = tuples[id].name[1]
idIn(call, chunk) == {id \in DOMAIN tuples : InList(call, id, chunk)}
listChunk(call, n) ==
  LET unique == Unique(call)
      chunk == SubSeq(unique, (n - 1) * ChunkSize + 1, Min({n * ChunkSize, Len(unique)}))
  IN  SetToSortSeq(idIn(call, chunk), <)
Added(sofar, found) == sofar \o SelectSeq(found, LAMBDA id : id \notin ToSet(sofar))

-----------------------------------------------------------------------------
AggInit ==
  /\ flavor \in Dialects /\ tuples \in [RowIds -> RowContents]
  /\ ask = [op |-> ""] /\ chunkAt = 0 /\ reply = Nothing /\ held = tuples /\ drifted = 0

ListEnds(value) == chunkAt' = -1 /\ reply' = value
Ask(call) ==
  /\ ask = [op |-> ""] /\ ask' = call /\ held' = tuples
  /\ CASE call.op = "single" -> ListEnds(single(call.fn, call.field, call.n))
       [] call.op = "CountDistinct" -> ListEnds(CountDistinct(call.field))
       [] call.op = "GroupBy" -> ListEnds(GroupBy(call.n, call.field, call.aggs, call.paged))
       [] call.paged -> ListEnds(Error)
       [] Unique(call) = <<>> -> ListEnds(Raw("rows", <<>>))
       [] OTHER -> chunkAt' = 1 /\ reply' = Raw("rows", <<>>)
  /\ UNCHANGED <<flavor, tuples, drifted>>

listIn ==
  /\ chunkAt > 0
  /\ reply' = Raw("rows", Added(reply.v, listChunk(ask, chunkAt)))
  /\ chunkAt' = IF chunkAt * ChunkSize >= Len(Unique(ask)) THEN -1 ELSE chunkAt + 1
  /\ UNCHANGED <<flavor, tuples, ask, held, drifted>>

(* Another caller changes or deletes a row between the chunks.             *)
Changed(id) ==
  /\ chunkAt > 0 /\ drifted < MaxRowChanges /\ drifted' = drifted + 1
  /\ \/ \E row \in RowContents : tuples' = [tuples EXCEPT ![id] = row]
     \/ tuples' = RestrictDomain(tuples, LAMBDA other : other # id)
  /\ held' = RestrictDomain(held, LAMBDA other : other # id)
  /\ UNCHANGED <<flavor, ask, chunkAt, reply>>

AggNext == (\E call \in Asks : Ask(call)) \/ listIn \/ \E id \in DOMAIN tuples : Changed(id)

-----------------------------------------------------------------------------
(* An aggregate is exact or an error, on every dialect: an integer is the  *)
(* number itself, never one that wrapped or was rounded, a float is the    *)
(* number at the precision of a float, and times compare by their instant  *)
(* whatever zones they were written in, so that one instant is one group.  *)
AtDialect(instant) == IF flavor = "sqlite" THEN instant - (instant % Milli) ELSE instant
Number(id, field) == IF field = "when" THEN AtDialect(Instant(tuples[id].when[1])) ELSE Cell(tuples[id], field)[1]
IsExactly(value, fn, field, ids) ==
  LET some == {id \in ids : Cell(tuples[id], field) # <<>>}
      Of(id) == Number(id, field)
      numbers == {Of(id) : id \in some}
      exact == CASE fn = "SUM" -> MapThenSumSet(Of, some)
                 [] fn = "AVG" -> MapThenSumSet(Of, some) \div Cardinality(some)
                 [] fn = "MIN" -> Min(numbers) [] fn = "MAX" -> Max(numbers)
                 [] fn = "COUNT DISTINCT" -> Cardinality(numbers)
  IN  IF some = {} /\ fn # "COUNT DISTINCT" THEN value = Nothing
      ELSE IF value.as = "float" THEN value.v \in {exact, Float(exact)} ELSE value.v = exact
ExactOrError ==
  chunkAt = -1 /\ reply.as # "error" =>
    CASE ask.op = "single" -> IsExactly(reply, ask.fn, ask.field, DOMAIN tuples)
      [] ask.op = "CountDistinct" -> ask.field # "name" => IsExactly(reply, "COUNT DISTINCT", ask.field, DOMAIN tuples)
      [] ask.op = "GroupBy" /\ ask.field # "name" ->
           /\ {reply.v[i].key : i \in 1..Len(reply.v)} = {Number(id, ask.field) : id \in DOMAIN tuples}
           /\ \A i, j \in 1..Len(reply.v) : i < j => reply.v[i].key < reply.v[j].key
           /\ \A i \in 1..Len(reply.v) : \A a \in 1..Len(ask.aggs) :
                LET ids == {id \in DOMAIN tuples : Number(id, ask.field) = reply.v[i].key}
                IN  IF ask.aggs[a].fn = "COUNT" THEN reply.v[i].values[a].v = Cardinality(ids)
                    ELSE IsExactly(reply.v[i].values[a], ask.aggs[a].fn, ask.aggs[a].field, ids)
      [] OTHER -> TRUE

(* A list by values lists a row once, however its value moves from one     *)
(* chunk's values to another's while the chunks are read, and lists every  *)
(* row that matched and was left alone; a list by ids is in their order.   *)
ListedOnce ==
  chunkAt = -1 /\ reply.as = "rows" =>
    /\ \A i, j \in 1..Len(reply.v) : i # j => reply.v[i] # reply.v[j]
    /\ \A id \in DOMAIN held : InList(ask, id, Unique(ask)) => id \in ToSet(reply.v)
    /\ ask.op = "ListByIDs" => \A i \in 1..Len(reply.v) - 1 : reply.v[i] < reply.v[i + 1]

(* What the aggregates and the lists answer is so, or they answer an error.*)
AnswersHold == ExactOrError /\ ListedOnce
=============================================================================
