-------------------------------- MODULE Listing --------------------------------
(***************************************************************************)
(* Lists of a store's rows (store/read.go, cursor.go, where/where.go,      *)
(* where/query.go): a client walks the pages of a list it asks for by URL, *)
(* by page number or by cursor, while rows come, go and move.  A row has a *)
(* numeric id, given in the order of the inserts, and a random public rid. *)
(* The fields are id (the rid), rank (an integer), title (a string, one    *)
(* value of it too long for a cursor), flag (a boolean) and note (which    *)
(* may be NULL); a value is the number of its place in the order of its    *)
(* column.  A parameter of a URL is 0 when absent and -1 when it is no     *)
(* positive integer.                                                       *)
(***************************************************************************)
EXTENDS Integers, Sequences, FiniteSets, SequencesExt, FiniteSetsExt, Functions

CONSTANTS
  RidOf,          \* the rids, by id
  Contents,       \* what a row may hold: [rank, title, flag, note]
  LongTitle,      \* the title that is too long for a cursor
  Queries,        \* the requests a client may begin with
  DefaultPageSize, MaxPageSize,           \* the policy's; 0 for none
  maxPageSize, maxInList, MaxOffset,      \* the limits of 10,000, 500 and MaxInt32
  MaxChanges      \* bound: changes of the table

ASSUME ListingAssumption ==
  /\ RidOf \in Seq(Int) /\ \A i, j \in DOMAIN RidOf : i # j => RidOf[i] # RidOf[j]
  /\ \A row \in Contents : row \in [{"rank", "title", "flag", "note"} -> Int]
  /\ {DefaultPageSize, MaxPageSize} \subseteq Int /\ {maxPageSize, maxInList} \subseteq Nat \ {0}
  /\ {MaxOffset, MaxChanges} \subseteq Nat

(* A walk begins at the beginning: without a cursor, or at page 1.         *)
Part == [field : STRING, dir : STRING]
ASSUME QueriesAssumption ==
  \A query \in Queries :
    /\ query = [page |-> query.page, size |-> query.size, order |-> query.order, cursors |-> query.cursors,
                cursor |-> <<>>, filters |-> query.filters]
    /\ query.page \in Int /\ query.page <= 1 /\ query.size \in Int
    /\ query.order \in Seq(Part) /\ query.cursors \in BOOLEAN

VARIABLES
  table,     \* the rows, by id
  nextId,    \* the id of the next row
  walk,      \* the client's walk
  changes    \* changes of the table so far

listVars == <<table, nextId, walk, changes>>

Columns == {"id", "rank", "title", "flag", "note"}
Value(rows, id, field) == IF field = "id" THEN RidOf[id] ELSE rows[id][field]

-----------------------------------------------------------------------------
(* Each option of a query adds to its Config; an error stays.              *)

Config == [err |-> FALSE, cursor |-> <<>>, cursorSize |-> 0, keyset |-> FALSE, page |-> 0, offset |-> 0, limit |-> 0,
           orders |-> <<>>, filters |-> {}, count |-> FALSE, fromQuery |-> FALSE]
Option(cfg, allowed, next) == [next EXCEPT !.err = cfg.err \/ ~ allowed]

Page(cfg, page, size) ==
  Option(cfg, page >= 1 /\ size \in 0..maxPageSize /\ (page - 1) * size <= MaxOffset,
         [cfg EXCEPT !.page = page, !.offset = (page - 1) * size, !.limit = size])
Cursor(cfg, cursor, size) ==
  Option(cfg, size \in 1..maxPageSize, [cfg EXCEPT !.cursor = cursor, !.cursorSize = size, !.keyset = TRUE])
cursorOrDefault(cfg, cursor, size) ==
  IF size > 0 THEN Cursor(cfg, cursor, size) ELSE [cfg EXCEPT !.cursor = cursor, !.cursorSize = 0, !.keyset = TRUE]
Column(field) == field \in Columns
Order(cfg, parts) ==
  Option(cfg, \A i \in DOMAIN parts : Column(parts[i].field),
         [cfg EXCEPT !.orders = [i \in DOMAIN parts |-> [field |-> parts[i].field, desc |-> parts[i].dir = "desc"]]])
Count(cfg) == [cfg EXCEPT !.count = TRUE]

(* A filter's non-empty texts: none, one (Eq) or any of several (In).  The *)
(* boolean field's are read as booleans.                                   *)
filterTypes == {"flag"}
parseFilter(name, text) ==
  CASE name \notin filterTypes -> {text}
    [] text \in {"true", "1"} -> {1}
    [] text \in {"false", "0"} -> {0}
    [] OTHER -> {}
Given(texts) == {i \in DOMAIN texts : texts[i] # ""}
In(name, texts) == [field |-> name, in |-> UNION {parseFilter(name, texts[i]) : i \in Given(texts)}]
Filter(cfg, filters, names) ==
  Option(cfg, \A name \in names : Column(name) /\ Cardinality(Given(filters[name])) <= maxInList,
         [cfg EXCEPT !.filters = @ \cup {In(name, filters[name]) : name \in {n \in names : Column(n) /\ Given(filters[n]) # {}}}])
typedFilters(cfg, filters) ==
  LET typed == DOMAIN filters \cap filterTypes
      parsed == \A name \in typed : \A i \in Given(filters[name]) : parseFilter(name, filters[name][i]) # {}
  IN  Option(cfg, parsed, Filter(cfg, filters, typed))

FromQuery(cfg, query, allowed) ==
  LET paged == IF query.cursors THEN cursorOrDefault(cfg, query.cursor, query.size)
               ELSE Page(cfg, Max({query.page, 1}), query.size)
      names == DOMAIN query.filters \ filterTypes
      sound == /\ query.page >= 0 /\ query.size >= 0 /\ (query.cursors => query.page = 0)
               /\ \A i \in DOMAIN query.order : query.order[i].field \in allowed /\ query.order[i].dir \in {"", "asc", "desc"}
               /\ names \subseteq allowed
      next == Filter(Order([paged EXCEPT !.fromQuery = TRUE], query.order), query.filters, names)
  IN  Option(next, sound, next)

ListFromQuery(query) == Count(FromQuery(typedFilters(Config, query.filters), query, Columns))

-----------------------------------------------------------------------------
(* The rows of a query.                                                    *)

Passes(rows, id, filter) == Value(rows, id, filter.field) \in filter.in
read(rows, cfg) == {id \in DOMAIN rows : \A filter \in cfg.filters : Passes(rows, id, filter)}

pageSizes ==
  LET most == Min({IF MaxPageSize <= 0 THEN 100 ELSE MaxPageSize, maxPageSize})
  IN  [def |-> Min({IF DefaultPageSize <= 0 THEN 20 ELSE DefaultPageSize, most}), most |-> most]
SizeOf(cfg, asked) ==
  LET size == IF asked = 0 THEN pageSizes.def ELSE asked
  IN  IF cfg.fromQuery THEN Min({size, pageSizes.most}) ELSE size

Beyond(desc, a, b) == IF desc THEN a < b ELSE a > b
Sorts(rows, orders, id, other) ==
  \E i \in 1..Len(orders) + 1 :
    /\ \A j \in 1..i - 1 : Value(rows, id, orders[j].field) = Value(rows, other, orders[j].field)
    /\ IF i > Len(orders) THEN id < other
       ELSE Beyond(orders[i].desc, Value(rows, other, orders[i].field), Value(rows, id, orders[i].field))

(* ORDER BY: the rows of a set, by how many come before.                   *)
Place(ids, before, id) == Cardinality({other \in ids : <<other, id>> \in before})
Sorted(ids, before) == [n \in 1..Cardinality(ids) |-> CHOOSE id \in ids : Place(ids, before, id) = n - 1]

Refused == [err |-> TRUE, items |-> <<>>, more |-> FALSE, cursor |-> <<>>]
Answer(items, size, cursor) ==
  [err |-> FALSE, items |-> SubSeq(items, 1, Min({size, Len(items)})), more |-> Len(items) > size, cursor |-> cursor]

(* List by page number; one row more than the page says if any follows.    *)
List(rows, cfg) ==
  LET size == SizeOf(cfg, cfg.limit)
      offset == IF cfg.page > 0 THEN (cfg.page - 1) * size ELSE cfg.offset
      met == read(rows, cfg)
      sorted == Sorted(met, {pair \in met \X met : Sorts(rows, cfg.orders, pair[1], pair[2])})
      items == SubSeq(sorted, offset + 1, Min({offset + size + 1, Len(sorted)}))
  IN  IF offset > MaxOffset THEN Refused ELSE Answer(items, size, <<>>)

(* Cursors: the value and the rid of the page's last row, of one order.    *)
specOf(field) == CASE field \in {"id", "title"} -> "str" [] field = "rank" -> "int" [] field = "flag" -> "bool" [] OTHER -> "none"
orderOf(cfg) == IF cfg.orders = <<>> THEN [field |-> "id", desc |-> FALSE] ELSE cfg.orders[1]
encodeValue(field, value) == IF field = "title" /\ value = LongTitle THEN <<>> ELSE <<[kind |-> specOf(field), value |-> value]>>
encodeCursor(rows, id, order) ==
  LET encoded == encodeValue(order.field, Value(rows, id, order.field))
  IN  IF encoded = <<>> THEN <<>>
      ELSE <<[v |-> 1, order |-> order, kind |-> encoded[1].kind, value |-> encoded[1].value, rid |-> RidOf[id]]>>
decodeCursor(token, order) ==
  /\ token.v = 1 /\ token.order = order /\ token.rid # 0 /\ token.kind = specOf(order.field)

After_KeyOnly(rows, id, token, order) == Beyond(order.desc, Value(rows, id, order.field), token.value)
After(rows, id, token, order) ==
  \/ order.field # "id" /\ Beyond(order.desc, Value(rows, id, order.field), token.value)
  \/ /\ Value(rows, id, order.field) = token.value \/ order.field = "id"
     /\ Beyond(order.desc, RidOf[id], token.rid)
Keys(rows, order, id, other) ==
  LET a == Value(rows, id, order.field)
      b == Value(rows, other, order.field)
  IN  Beyond(order.desc, b, a) \/ (a = b /\ Beyond(order.desc, RidOf[other], RidOf[id]))

keyset(rows, cfg) ==
  LET order == orderOf(cfg)
      size == SizeOf(cfg, cfg.cursorSize)
      met == {id \in read(rows, cfg) : cfg.cursor = <<>> \/ After(rows, id, cfg.cursor[1], order)}
      sorted == Sorted(met, {pair \in met \X met : Keys(rows, order, pair[1], pair[2])})
      items == SubSeq(sorted, 1, Min({size + 1, Len(sorted)}))
      next == IF Len(items) > size THEN encodeCursor(rows, items[size], order) ELSE <<>>
  IN  IF \/ cfg.page > 0 \/ cfg.offset > 0 \/ cfg.limit > 0 \/ Len(cfg.orders) > 1
         \/ specOf(order.field) = "none"
         \/ cfg.cursor # <<>> /\ ~ decodeCursor(cfg.cursor[1], order)
         \/ Len(items) > size /\ next = <<>>
      THEN Refused ELSE Answer(items, size, next)

-----------------------------------------------------------------------------
NoWalk == [at |-> "idle", query |-> [cursors |-> FALSE], order |-> <<>>, got |-> <<>>, total |-> 0, kept |-> {}, still |-> TRUE]

ListingInit ==
  /\ table \in [1..Len(RidOf) - 1 -> Contents]
  /\ nextId = Len(RidOf)
  /\ walk = NoWalk /\ changes = 0

Begin(query) ==
  /\ walk.at = "idle"
  /\ walk' = [NoWalk EXCEPT !.at = "count", !.query = query, !.order = query.order,
                            !.kept = read(table, ListFromQuery([query EXCEPT !.cursor = <<>>]))]
  /\ UNCHANGED <<table, nextId, changes>>

(* The next page, by the answer's cursor or the next number; or a cursor   *)
(* given back with another order, which is refused and left there.         *)
NextPage(order) ==
  /\ walk.at = "more" /\ (order = walk.order \/ walk.query.cursors)
  /\ walk' = [walk EXCEPT !.at = "count", !.query.order = order]
  /\ UNCHANGED <<table, nextId, changes>>

Refuses(cfg) == cfg.err \/ (cfg.keyset /\ Len(cfg.orders) > 1)
Stays == [walk EXCEPT !.at = IF walk.query.order = walk.order THEN "refused" ELSE "more", !.query.order = walk.order]

CountRows ==
  LET cfg == ListFromQuery(walk.query)
  IN  /\ walk.at = "count"
      /\ walk' = IF Refuses(cfg) THEN Stays ELSE [walk EXCEPT !.at = "find", !.total = Cardinality(read(table, cfg))]
      /\ UNCHANGED <<table, nextId, changes>>

FindRows ==
  LET cfg == ListFromQuery(walk.query)
      order == orderOf(cfg)
      answer == IF cfg.keyset THEN keyset(table, cfg) ELSE List(table, cfg)
      Got(id) == [id |-> id, rid |-> RidOf[id], key |-> Value(table, id, order.field)]
      items == [i \in 1..Len(answer.items) |-> Got(answer.items[i])]
  IN  /\ walk.at = "find"
      /\ walk' = IF answer.err THEN Stays
                 ELSE [walk EXCEPT !.at = IF answer.more THEN "more" ELSE "done", !.got = @ \o items,
                                   !.query.cursor = answer.cursor,
                                   !.query.page = IF cfg.keyset THEN @ ELSE Max({@, 1}) + 1]
      /\ UNCHANGED <<table, nextId, changes>>

(* Rows come, go and move.                                                 *)
Changes(kept) ==
  /\ walk.at \in {"count", "find", "more"} /\ changes < MaxChanges
  /\ changes' = changes + 1
  /\ walk' = [walk EXCEPT !.kept = kept, !.still = FALSE]
Inserted(row) ==
  /\ nextId \in DOMAIN RidOf /\ Changes(walk.kept)
  /\ table' = [id \in DOMAIN table \cup {nextId} |-> IF id = nextId THEN row ELSE table[id]] /\ nextId' = nextId + 1
Deleted(id) == Changes(walk.kept \ {id}) /\ table' = Restrict(table, DOMAIN table \ {id}) /\ UNCHANGED nextId
Moved(id, row) == Changes(walk.kept \ {id}) /\ table' = [table EXCEPT ![id] = row] /\ UNCHANGED nextId

ListingNext ==
  \/ \E query \in Queries : Begin(query)
  \/ \E order \in {query.order : query \in Queries} : NextPage(order)
  \/ CountRows \/ FindRows
  \/ \E row \in Contents : Inserted(row)
  \/ \E id \in DOMAIN table : Deleted(id) \/ \E row \in Contents : Moved(id, row)

ListingSpec == ListingInit /\ [][ListingNext]_listVars

-----------------------------------------------------------------------------
(* A walk misses nothing and doubles nothing.  The pages of a cursor, put  *)
(* together, go strictly on in the order the walk began with, and when the *)
(* last one said that nothing follows they held every row that was there   *)
(* unmoved throughout, whatever came, went or moved between the pages and  *)
(* whatever other order the cursor was tried with; the numbered pages of a *)
(* table that stood still are its rows, once each, and the total is theirs.*)
WalkComplete ==
  LET got == walk.got
      order == orderOf(ListFromQuery([walk.query EXCEPT !.order = walk.order]))
  IN  IF walk.at = "idle" THEN TRUE
      ELSE IF walk.query.cursors
      THEN /\ \A i \in 1..Len(got) - 1 :
                \/ Beyond(order.desc, got[i + 1].key, got[i].key)
                \/ got[i + 1].key = got[i].key /\ Beyond(order.desc, got[i + 1].rid, got[i].rid)
           /\ walk.at = "done" => walk.kept \subseteq {got[i].id : i \in 1..Len(got)}
      ELSE walk.still /\ walk.at = "done" =>
             /\ {got[i].id : i \in 1..Len(got)} = walk.kept
             /\ Len(got) = walk.total /\ walk.total = Cardinality(walk.kept)
=============================================================================
