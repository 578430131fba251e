------------------------------- MODULE MCData -------------------------------
(* The database side, for TLC: migrations, the store's writes in and out   *)
(* of transactions, lists, aggregates, patches and upserts, and, because   *)
(* it too is a matter of one call and its argument, the search of a cron   *)
(* schedule.  The parts share no state.  A behaviour is one of one part,   *)
(* named by part, the others resting in one state, so that the run's       *)
(* states are those of all the parts taken together.                       *)
EXTENDS Migrations, Store, Listing, Aggregates, Patches, Upserts, MCCron, TLC

VARIABLE part

-----------------------------------------------------------------------------
(* Three releases: the first; a later one that adds a migration and a     *)
(* battery; and one of another branch, which has the later migration       *)
(* without the first and an edited file for the battery.                   *)
FirstRelease == <<"app", 1>> :> <<"a", "b">>
NextRelease == FirstRelease @@ (<<"app", 2>> :> <<"c">>) @@ (<<"jobs", 1>> :> <<"j">>)
BranchRelease == (<<"app", 2>> :> <<"c">>) @@ (<<"jobs", 1>> :> <<"J">>)
MCReleases == {FirstRelease, NextRelease, BranchRelease}

(* Processes and callers are the same two, and interchangeable.           *)
DataSymmetry == Permutations(Procs)

-----------------------------------------------------------------------------
(* Walks in every order a cursor takes and in those it does not, by page   *)
(* and by cursor, filtered by flag; and queries that are refused.          *)
MCRids == <<2, 4, 1, 3>>
MCContents == {[rank |-> 1, title |-> 2, flag |-> 1, note |-> 1], [rank |-> 2, title |-> 1, flag |-> 0, note |-> 0]}
By(field, dir) == [field |-> field, dir |-> dir]
Walk(page, size, order, cursors) ==
  [page |-> page, size |-> size, order |-> order, cursors |-> cursors, cursor |-> <<>>, filters |-> <<>>]
Filtered(query, name, texts) == [query EXCEPT !.filters = name :> texts]
CursorOrders == {<<>>, <<By("rank", "desc")>>, <<By("rank", "")>>}
PageOrders == {<<>>, <<By("note", "desc")>>, <<By("rank", "asc"), By("title", "desc")>>}
MCQueries ==
       {Walk(0, 1, order, TRUE) : order \in CursorOrders} \cup {Walk(0, 0, <<By("rank", "desc")>>, TRUE)}
  \cup {Walk(0, 1, order, FALSE) : order \in PageOrders}
  \cup {Walk(0, 1, order, TRUE) : order \in {<<By("title", "asc")>>, <<By("note", "asc")>>, <<By("rank", "asc"), By("title", "asc")>>}}
  \cup {Walk(1, 1, <<>>, FALSE), Walk(1, 1, <<>>, TRUE), Walk(-1, 1, <<>>, FALSE), Walk(0, -1, <<>>, FALSE), Walk(0, 4, <<>>, FALSE),
        Walk(0, 1, <<By("rank", "up")>>, FALSE), Walk(0, 1, <<By("nope", "asc")>>, FALSE)}
  \cup {Filtered(Walk(0, 1, <<>>, cursors), "flag", <<"true", "">>) : cursors \in BOOLEAN}
  \cup {Filtered(Walk(0, 1, <<>>, FALSE), "flag", texts) : texts \in {<<"0", "true">>, <<"maybe">>}}
  \cup {Filtered(Walk(0, 1, <<>>, FALSE), "nope", <<"true">>)}

-----------------------------------------------------------------------------
(* Rows whose times are of two zones and whose sums leave the exact range, *)
(* asked for every aggregate of every kind of field.                       *)
Time(clock, offset) == <<[clock |-> clock, zone |-> offset]>>
Tuple(n, when, name) == [n |-> n, when |-> when, name |-> name]
MCRows == {Tuple(<<2>>, Time(3, 1), <<"a">>), Tuple(<<3>>, Time(1, 0), <<"A">>), Tuple(<<-4>>, Time(0, 0), <<"b">>),
           Tuple(<<>>, Time(2, 0), <<>>)}
MCFold == [a |-> "a", A |-> "a", b |-> "b"]
Single(fn, field, n) == [op |-> "single", fn |-> fn, field |-> field, n |-> n]
Grouped(field, k, aggs, paged) == [op |-> "GroupBy", field |-> field, n |-> k, aggs |-> aggs, paged |-> paged]
Agg(fn, field) == [fn |-> fn, field |-> field]
ByValues(op, values, paged) == [op |-> op, values |-> values, paged |-> paged]
MCAsks ==
       {Single(fn, field, n) : fn \in {"SUM", "AVG", "MIN", "MAX"}, field \in {"n", "x", "u", "when", "label", "doc"},
                               n \in {"int64", "float64", "time"}}
  \cup {[op |-> "CountDistinct", field |-> field] : field \in {"n", "when", "doc"}}
  \cup {Grouped("when", "time", <<Agg("COUNT", ""), Agg("SUM", "n"), Agg("MAX", "when")>>, paged) : paged \in BOOLEAN}
  \cup {Grouped("n", k, <<Agg("COUNT DISTINCT", "when"), Agg("MIN", "u")>>, FALSE) : k \in {"int64", "uint64"}}
  \cup {Grouped("n", "int64", aggs, FALSE) : aggs \in {<<>>, <<Agg("COUNT", "n")>>, <<Agg("MEDIAN", "n")>>, <<Agg("SUM", "label")>>}}
  \cup {ByValues("ListIn", values, paged) : values \in {<<>>, <<"a", "b", "A", "a">>}, paged \in BOOLEAN}
  \cup {ByValues("ListByIDs", <<3, 1, 3, 2>>, FALSE)}

-----------------------------------------------------------------------------
(* Models with tagged, aliased, missing and ambiguous fields; bodies of    *)
(* one to three fields at two depths, from the body or the query.          *)
Both == {"query", "update"}
MField(col, json, promoted, tag, type) == [col |-> col, json |-> json, promoted |-> promoted, tag |-> tag, type |-> type]
MBase == {MField("id", "-", TRUE, {}, "int"), MField("rid", "id", TRUE, {}, "string"), MField("version", "version", TRUE, {}, "*int"),
          MField("created_at", "created_at", TRUE, {}, "time"), MField("owner_id", "-", TRUE, {}, "string")}
MTitle(tag) == MField("title", "title", TRUE, tag, "*string")
MIndexes == {[name |-> "uk_title", cols |-> <<"owner_id", "title", "delete_token">>], [name |-> "uk_note", cols |-> <<"notes">>]}
MHead == {[name |-> "uk_head", cols |-> <<"heading">>], [name |-> "uk_owner", cols |-> <<"owner_id", "delete_token", "headline">>]}
MModel(fields, aliases, constraints) ==
  [fields |-> MBase \cup fields, indexes |-> IF aliases = {} THEN MIndexes ELSE MHead, aliases |-> aliases, constraints |-> constraints]
MConstraint(name, cols, field) == [name |-> name, cols |-> cols, field |-> field]
MCModels ==
  {MModel({MTitle(Both), MField("notes", "note", FALSE, {"update"}, "*string")}, {}, {}),
   MModel({MField("headline", "title", TRUE, {"update"}, "*string"), MField("heading", "-", TRUE, {}, "*string")},
          {[field |-> "title", col |-> "heading"]}, {MConstraint("uk_head", <<"uk_head">>, "title")}),
   MModel({MTitle({"update"})}, {}, {MConstraint("uk_title", <<"uk_title">>, "name")}),
   MModel({MTitle({"update"})}, {}, {MConstraint("owner_id,title,delete_token", <<"owner_id", "title", "delete_token">>, "name")}),
   MModel({MTitle({})}, {}, {}), MModel({MTitle({"both"})}, {}, {}),
   MModel({MTitle(Both), MField("name", "title", TRUE, {}, "*string")}, {}, {}),
   MModel({MTitle(Both)}, {[field |-> "nope", col |-> "title"]}, {}),
   MModel({MTitle(Both), MField("title2", "t2", TRUE, {"update"}, "*string")}, {[field |-> "t2", col |-> "rid"]}, {})}
DField(k, name, in, tagged, type, source, tag) ==
  [k |-> k, name |-> name, depth |-> IF in = 0 THEN 0 ELSE 1, embedded |-> in, tagged |-> tagged, type |-> type, from |-> source, store |-> tag]
DFields(k, names) ==
  {f \in {DField(k, name, in, tagged, type, source, tag) :
            name \in names, in \in 0..2, tagged \in BOOLEAN, type \in {"*string", "string", "int", "*int"},
            source \in {"json", "query"}, tag \in {"", "-"}} :
     /\ f.from = "query" => ~ f.tagged /\ f.store = ""
     /\ f.name \in {"version", "Version"} => (f.tagged <=> f.name = "version")
     /\ f.type \in {"int", "*int"} <=> f.name \in {"version", "Version"}}
FirstFields == DFields(1, {"title"})
SecondFields == {f \in DFields(2, {"title", "notes"}) : f.store = ""}
ThirdFields == {f \in DFields(3, {"version", "Version", "notes"}) : f.store = ""}
DTitle(tag) == DField(1, "title", 0, TRUE, "*string", "json", tag)
MCDtos ==
       {{f} : f \in FirstFields} \cup {{f, g} : f \in FirstFields, g \in SecondFields \cup ThirdFields}
  \cup {{DTitle("other")}, {DField(1, "title", 1, TRUE, "*string", "json", ""), DField(2, "-", 0, FALSE, "*string", "json", "")}}
  \cup {{f, g, h} : f \in {f \in FirstFields : f.type = "*string" /\ f.store = ""},
                    g \in {g \in SecondFields : g.name = "title"}, h \in {h \in ThirdFields : h.tagged}}
  \cup {{DTitle(""), DField(2, "version", a, TRUE, "*int", "json", ""), DField(3, "version", b, TRUE, "int", "json", "")} :
          a \in 0..2, b \in 0..2}
MCQueryTexts == {[title |-> "text", Version |-> "12"], [Version |-> "text"]}

-----------------------------------------------------------------------------
(* Batches of one or two objects that meet in one index or another, or in  *)
(* none, and that leave out what the database would fill in.               *)
Obj(rid, title, slug) == [rid |-> <<rid, 0>>, title |-> <<title, 0>>, slug |-> <<slug, 0>>]
Objs == {Obj("", "a", "x"), Obj("", "b", "y"), Obj("1", "a", "y"), Obj("", "a", "")}
MCIndexes == {[name |-> "rid", cols |-> <<"rid">>, soft |-> FALSE], [name |-> "title", cols |-> <<"title">>, soft |-> TRUE],
              [name |-> "slug", cols |-> <<"slug">>, soft |-> FALSE]}
MCBatches == {<<>>} \cup {<<o>> : o \in Objs} \cup {<<o, p>> : o \in Objs \ {Obj("", "b", "y")}, p \in Objs \ {Obj("", "a", "")}}
MCConflicts == {<<>>, <<"title">>, <<"slug">>, <<"slug", "slug">>, <<"nope">>, <<"title", "slug">>}

-----------------------------------------------------------------------------
MigAtRest ==
  /\ server = "sqlite" /\ ledger = <<>> /\ ran = <<>> /\ migLock = NoProc /\ index = NoIndex
  /\ procs = [p \in Procs |-> Idle] /\ starts = 0 /\ marked = {} /\ doubted = {}
StoreAtRest ==
  /\ dialect = "sqlite" /\ who = [c \in Callers |-> "ann"] /\ records = <<>> /\ calls = [c \in Callers |-> NoCall]
  /\ ops = 0 /\ saved = {} /\ staged = <<>> /\ called = <<>>
ListAtRest == table = <<>> /\ nextId = 1 /\ walk = NoWalk /\ changes = 0
AggAtRest ==
  /\ flavor = "sqlite" /\ tuples = <<>> /\ held = <<>>
  /\ ask = [op |-> ""] /\ chunkAt = 0 /\ reply = Nothing /\ drifted = 0
PatchAtRest ==
  /\ store = NoStore /\ model = <<>> /\ dto = {} /\ sent = [body |-> {}, query |-> <<>>, onto |-> 0]
  /\ req = <<>> /\ stage = "new" /\ out = <<>>
UpsertsAtRest ==
  engine = "sqlite" /\ rowset = {} /\ lastKey = 0 /\ upsert = NoUpsert /\ gone = {} /\ upserts = 0
CronAtRest ==
  /\ spec = NamedSpec("@never") /\ zone = NoShift /\ from = 0 /\ looking = "parse" /\ moment = 0 /\ added = FALSE

DataInit ==
  /\ part \in {"migrations", "store", "lists", "aggregates", "patches", "upserts", "cron"}
  /\ IF part = "migrations" THEN MigInit ELSE MigAtRest
  /\ IF part = "store" THEN StoreInit ELSE StoreAtRest
  /\ IF part = "lists" THEN ListingInit ELSE ListAtRest
  /\ IF part = "aggregates" THEN AggInit ELSE AggAtRest
  /\ IF part = "patches" THEN PatchInit ELSE PatchAtRest
  /\ IF part = "upserts" THEN UpsertsInit ELSE UpsertsAtRest
  /\ IF part = "cron" THEN CronInit ELSE CronAtRest

Others(own) ==
  /\ own # "migrations" => UNCHANGED migVars
  /\ own # "store" => UNCHANGED storeVars
  /\ own # "lists" => UNCHANGED listVars
  /\ own # "aggregates" => UNCHANGED aggVars
  /\ own # "patches" => UNCHANGED patchVars
  /\ own # "upserts" => UNCHANGED upsertVars
  /\ own # "cron" => UNCHANGED cronVars
  /\ UNCHANGED part

DataNext ==
  \/ part = "migrations" /\ MigNext /\ Others("migrations")
  \/ part = "store" /\ StoreNext /\ Others("store")
  \/ part = "lists" /\ ListingNext /\ Others("lists")
  \/ part = "aggregates" /\ AggNext /\ Others("aggregates")
  \/ part = "patches" /\ PatchNext /\ Others("patches")
  \/ part = "upserts" /\ UpsertsNext /\ Others("upserts")
  \/ part = "cron" /\ CronNext /\ Others("cron")

DataSpec ==
  DataInit /\ [][DataNext]_<<part, migVars, storeVars, listVars, aggVars, patchVars, upsertVars, cronVars>>
=============================================================================
