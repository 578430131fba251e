-------------------------------- MODULE Patches --------------------------------
(***************************************************************************)
(* A partial update from the request to the error it ends in (bind.go,     *)
(* store/changes.go, New and its fields in store/store.go, the duplicate   *)
(* keys of store/errors.go).  A store is made for a model; a request is    *)
(* bound to a DTO, from its JSON body and its query; Patch reads the DTO   *)
(* and its changes are written, or collide with a unique index.  A DTO is  *)
(* a set of fields: the JSON name, the depth (1: in an embedded struct, of *)
(* the given number), whether the name is a tag's, the type, where it is   *)
(* bound from, its store tag, and k, its place in the declaration.  The    *)
(* type of a model's column is given as that of a pointer to it.  A        *)
(* constraint is declared for a field by a name, which is an index's or,   *)
(* read as cols, a list of columns.                                        *)
(***************************************************************************)
EXTENDS Integers, Sequences, FiniteSets, SequencesExt, FiniteSetsExt

CONSTANTS
  Models,      \* the models: [fields, indexes, aliases, constraints]
  Dtos,        \* the DTOs: sets of fields
  Tainted,     \* the embedded structs that are opted out or sourced themselves
  Bodies,      \* the members sent in the body
  QueryTexts,  \* the texts sent in the query, by name
  OntoVersion, \* the versions of the object given to Onto; 0 for none
  Databases    \* of "sqlite", "postgres", "mysql"

(* A field without a tag has its Go name, which is never "version".  Names *)
(* of indexes are the database's, unique; New refuses a blank constraint.  *)
ASSUME PatchesAssumption ==
  /\ \A fields \in Dtos : IsFiniteSet(fields) /\ \A f \in fields : {f.depth, f.k} \subseteq Nat /\ (f.name = "version" => f.tagged)
  /\ \A m \in Models : /\ \A c \in m.constraints : c.name # ""
                       /\ \A i, j \in m.indexes : i.name # "" /\ (i.name = j.name => i = j)

VARIABLES
  store,     \* the store that New made
  model,     \* its model
  dto,       \* the request's type
  sent,      \* the request: [body, query, onto]
  req,       \* the values bound, by field: "none", "body" or "query"
  stage,     \* where the request is
  out        \* what was built, or the field a duplicate names

patchVars == <<store, model, dto, sent, req, stage, out>>

-----------------------------------------------------------------------------
(* store.New: the model's columns by public name, and the tags' subsets.   *)

protectedColumns == {"id", "rid", "version", "created_at", "updated_at", "deleted_at", "delete_token", "owner_id"}
publicName(f) == IF ~ f.promoted \/ f.json \in {"", "-"} THEN f.col ELSE f.json
addField(fields) == {[name |-> publicName(f), col |-> f.col] : f \in {f \in fields : f.col \notin {"", "id"}}}
declaredFields(m) ==
  LET columns == addField(m.fields)
      query == addField({f \in m.fields : "query" \in f.tag})
      always == {c \in columns : c.name \in {"id", "created_at", "updated_at"}}
  IN  [columns |-> columns, update |-> addField({f \in m.fields : "update" \in f.tag}), query |-> query \cup always]
Aliased(names, aliases) ==
  {IF \E a \in aliases : a.field = n.name THEN [n EXCEPT !.col = (CHOOSE a \in aliases : a.field = n.name).col] ELSE n : n \in names}
Mistaken(m, fields) ==
  \/ \A f \in m.fields : f.tag = {}
  \/ \E f \in m.fields : ~ f.tag \subseteq {"query", "update"}
  \/ \E a, b \in fields.columns : a.name = b.name /\ a.col # b.col
  \/ \E a \in m.aliases : ~ \E c \in fields.columns : c.name = a.field
  \/ \E u \in Aliased(fields.update, m.aliases) : u.col \in protectedColumns

(* The field of a unique index: of its first column that is neither the    *)
(* owner nor the delete token.                                             *)
OwnColumns(cols) == {i \in DOMAIN cols : cols[i] \notin {"owner_id", "delete_token"}}
FirstOwn(cols) == cols[Min(OwnColumns(cols))]
fieldOfColumns(s, m, cols) ==
  LET first == FirstOwn(cols)
      Names(names) == {n.name : n \in {n \in names : n.col = first}}
      declared == {publicName(f) : f \in {f \in m.fields : f.col = first}}
  IN  IF OwnColumns(cols) = {} THEN {""}
      ELSE IF Names(s.query) # {} THEN Names(s.query)
      ELSE IF Names(s.update) # {} THEN Names(s.update)
      ELSE IF Names(s.columns) # {} THEN Names(s.columns)
      ELSE IF declared # {} THEN declared ELSE {first}
New(m) ==
  LET fields == declaredFields(m)
      s == [fields EXCEPT !.query = Aliased(@, m.aliases), !.update = Aliased(@, m.aliases), !.columns = Aliased(@, m.aliases)]
  IN  IF Mistaken(m, fields) THEN <<>> ELSE <<s>>
Constraint(s, m, name) ==
  IF \E c \in m.constraints : c.name = name THEN {c.field : c \in {c \in m.constraints : c.name = name}}
  ELSE UNION {fieldOfColumns(s, m, idx.cols) : idx \in {idx \in m.indexes : idx.name = name}}

(* An index a patch may collide with begins with a column the store names: *)
(* no alias has moved the name of that column to another.                  *)
ASSUME IndexesAssumption ==
  \A m \in Models : New(m) # <<>> => \A idx \in m.indexes :
    (\E u \in New(m)[1].update : u.col \in ToSet(idx.cols)) => \E c \in New(m)[1].columns : c.col = FirstOwn(idx.cols)

-----------------------------------------------------------------------------
(* Binding: the body's members to the fields that encoding/json gives them *)
(* to (external), then the query's, which overwrite.                       *)

jsonName(f) == IF f.name = "-" THEN {} ELSE {f.name}
collect(fields) == {f \in fields : f.from = "query"}
Receives(fields, name) ==
  LET named == {f \in fields : name \in jsonName(f)}
      least == {f \in named : \A g \in named : f.depth <= g.depth}
      tags == {f \in least : f.tagged}
  IN  IF Cardinality(least) = 1 THEN least ELSE IF Cardinality(tags) = 1 THEN tags ELSE {}
decodeBody(fields, body) == UNION {Receives(fields, name) : name \in body}
setText(f, text) == f.type \in {"int", "*int"} => text = "12"
bind(fields, request) ==
  [f \in fields |-> CASE f \in collect(fields) -> IF f.name \in DOMAIN request.query THEN "query" ELSE "none"
                      [] f \in decodeBody(fields, request.body) -> "body"
                      [] OTHER -> "none"]
BadBody(fields, body) == \E name \in body : Receives(fields, name) = {}
BadQuery(fields, query) == \E f \in collect(fields) : f.name \in DOMAIN query /\ ~ setText(f, query[f.name])

-----------------------------------------------------------------------------
(* The plan of a DTO: its patchable fields and its version field.          *)

nonPatchable(f) == f.embedded \in Tainted \/ f.store = "-" \/ f.from = "query"
isVersion(f) == f.name = "version" /\ ~ nonPatchable(f) /\ f.type \in {"int", "*int"}
patchable(f) == f.type \in {"*string", "*int"} /\ ~ nonPatchable(f)
candidates(fields, name) == {f \in fields : name \in jsonName(f) /\ ~ isVersion(f)}
atMin_AnyDepth(cs) == cs
atMin(cs) == {c \in cs : \A d \in cs : c.depth <= d.depth}
ambiguous(fields, name) == Cardinality({c \in atMin(candidates(fields, name)) : patchable(c)}) >= 2
winner(fields, name) ==
  LET least == atMin(candidates(fields, name))
      tags == {c \in least : c.tagged}
  IN  IF Cardinality(tags) = 1 THEN tags ELSE IF Cardinality(least) = 1 THEN least ELSE {}
buildPatchPlan(fields) ==
  LET names == UNION {jsonName(f) : f \in fields}
      versions == {f \in fields : isVersion(f)}
      wins == UNION {winner(fields, name) : name \in names}
      patches == {f \in wins : patchable(f)}
  IN  [fields |-> patches,
       version |-> {f \in versions : \A g \in versions : f.depth < g.depth \/ (f.depth = g.depth /\ f.k <= g.k)},
       ok |-> /\ \A f \in fields : f.store \in {"", "-"} \/ f.embedded \in Tainted
              /\ ~ \E name \in names : ambiguous(fields, name)
              /\ patches # {}]
IsEmpty(plan, values) == plan.ok /\ \A f \in plan.fields : values[f] = "none"

(* Patch.build: every field of the plan must be an update field; those set *)
(* are the columns, and the version sent is the lock, else the object's.   *)
ColumnOf(names, name) == (CHOOSE n \in names : n.name = name).col
Writable(s, m, f) ==
  /\ \E u \in s.update : u.name = f.name
  /\ LET col == ColumnOf(s.update, f.name)
     IN  \E c \in m.fields : c.col = col /\ col \notin protectedColumns /\ f.type = c.type
build(plan, s, m, values, onto) ==
  LET set == {f \in plan.fields : values[f] # "none"}
      locked == {f \in plan.version : values[f] # "none"}
  IN  [columns |-> {[col |-> ColumnOf(s.update, f.name), from |-> f] : f \in set},
       lock |-> IF locked # {} THEN "sent" ELSE IF onto # 0 THEN "object" ELSE "none"]

-----------------------------------------------------------------------------
(* A duplicate key, as the dialect's message names it: SQLite the columns, *)
(* the others the index, MySQL after its table.                            *)

Message(db, idx) ==
  CASE db = "sqlite" -> [name |-> "", table |-> FALSE, cols |-> idx.cols]
    [] OTHER -> [name |-> idx.name, table |-> db = "mysql", cols |-> <<>>]
constraintName(msg) == msg.name
columnsField(s, m, cols) ==
  LET listed == {c.field : c \in {c \in m.constraints : c.cols = cols}}
  IN  IF listed # {} THEN listed ELSE fieldOfColumns(s, m, cols)
constraintField(s, m, msg) ==
  LET name == constraintName(msg)
  IN  IF Constraint(s, m, name) # {} THEN Constraint(s, m, name)
      ELSE IF msg.cols = <<>> THEN {""} ELSE columnsField(s, m, msg.cols)
mapError(s, m, db, idx) == constraintField(s, m, Message(db, idx))

-----------------------------------------------------------------------------
NoStore == [query |-> {}, update |-> {}, columns |-> {}]
PatchInit ==
  /\ store = NoStore /\ model \in Models /\ dto \in Dtos
  /\ sent = [body |-> {}, query |-> <<>>, onto |-> 0] /\ req = <<>> /\ stage = "new" /\ out = <<>>

Opens ==
  /\ stage = "new"
  /\ IF New(model) = <<>> THEN stage' = "panic" /\ UNCHANGED store
     ELSE stage' = "open" /\ store' = New(model)[1]
  /\ UNCHANGED <<model, dto, sent, req, out>>

Binds(body, query, onto) ==
  /\ stage = "open"
  /\ sent' = [body |-> body, query |-> query, onto |-> onto]
  /\ IF BadBody(dto, body) \/ BadQuery(dto, query) THEN stage' = "refused" /\ UNCHANGED req
     ELSE stage' = "bound" /\ req' = bind(dto, sent')
  /\ UNCHANGED <<store, model, dto, out>>

Builds ==
  LET plan == buildPatchPlan(dto)
  IN  /\ stage = "bound"
      /\ IF ~ plan.ok \/ \E f \in plan.fields : ~ Writable(store, model, f) THEN stage' = "invalid" /\ UNCHANGED out
         ELSE IF IsEmpty(plan, req) THEN stage' = "empty" /\ UNCHANGED out
         ELSE stage' = "built" /\ out' = build(plan, store, model, req, sent.onto)
      /\ UNCHANGED <<store, model, dto, sent, req>>

Collides(db, idx) ==
  /\ stage = "built" /\ \E c \in out.columns : c.col \in ToSet(idx.cols)
  /\ \E field \in mapError(store, model, db, idx) : out' = [field |-> field, index |-> idx]
  /\ stage' = "duplicate"
  /\ UNCHANGED <<store, model, dto, sent, req>>

PatchNext ==
  \/ Opens \/ Builds
  \/ \E body \in Bodies, query \in QueryTexts, onto \in OntoVersion : Binds(body, query, onto)
  \/ \E db \in Databases : \E idx \in model.indexes : Collides(db, idx)

PatchSpec == PatchInit /\ [][PatchNext]_patchVars

-----------------------------------------------------------------------------
(* A patch writes what the body said and nothing else: each member sent    *)
(* whose field, the one encoding/json gives the member to, is a pointer    *)
(* from the body and not opted out is a column written, from that field;   *)
(* no query parameter, shadowed field or managed column is; and the lock   *)
(* is the version sent, else that of the object the handler loaded.        *)
WritesWhatWasSent ==
  LET meant == {f \in UNION {Receives(dto, name) : name \in sent.body} : ~ nonPatchable(f)}
      wanted == {f \in meant : f.type \in {"*string", "*int"} /\ ~ isVersion(f)}
      versions == {f \in meant : isVersion(f)}
  IN  /\ stage = "built" =>
           /\ {c.from : c \in out.columns} = wanted /\ wanted # {}
           /\ \A c \in out.columns : c.col \notin protectedColumns /\ req[c.from] = "body"
           /\ out.lock = IF versions # {} THEN "sent" ELSE IF sent.onto # 0 THEN "object" ELSE "none"
      /\ stage = "empty" => wanted = {}

(* A duplicate names one field, whatever the database says of it: that of  *)
(* the index's first column that is not the owner or the delete token, or  *)
(* the field a constraint of that name or of those columns was declared    *)
(* for.                                                                    *)
NamesTheField ==
  stage = "duplicate" =>
    \/ \E c \in model.constraints : c.field = out.field /\ (c.name = out.index.name \/ c.cols = out.index.cols)
    \/ \E c \in store.columns : c.name = out.field /\ c.col = FirstOwn(out.index.cols)

(* A patch writes what was sent, and what it collides with is named as the *)
(* client knows it.                                                        *)
PatchIsHonest == WritesWhatWasSent /\ NamesTheField
=============================================================================
