------------------------------ MODULE Migrations ------------------------------
(***************************************************************************)
(* The schema of a database that several processes open (db/migrate.go,    *)
(* db/db.go, db/table.go) and that the command line migrates               *)
(* (cmd/chok/migrate.go).  A process carries a release: the SQL files of   *)
(* each owner, as a function from <<owner, version>> to the statements of  *)
(* the file, and one declared unique index.  A checksum is the statements  *)
(* it is taken of.  SQLite and Postgres run a file and its ledger row in   *)
(* one transaction; MySQL commits each statement.  A process may die, or   *)
(* an operation of its database fail, at every step.                       *)
(***************************************************************************)
EXTENDS Integers, Sequences, FiniteSets, SequencesExt, FiniteSetsExt, Functions

CONSTANTS
  Procs,        \* processes, with NoProc not one of them
  NoProc,
  Releases,     \* the sets of files a process may carry
  Declared,     \* the index shapes a process may declare
  MaxStarts     \* bound: starts of a process

ASSUME MigrationsAssumption ==
  /\ NoProc \notin Procs /\ MaxStarts \in Nat
  /\ \A files \in Releases : DOMAIN files \subseteq {"app", "jobs"} \X Nat /\ files \in [DOMAIN files -> Seq(STRING) \ {<<>>}]
  /\ Declared # {} /\ Declared \cap {"none", "relation"} = {}

VARIABLES
  server,      \* sqlite, mysql or postgres
  ledger,       \* chok_migrations, from <<owner, version>> to a row
  ran,          \* the statements that ran, by <<owner, version>>
  migLock,         \* the process whose session holds the migration lock
  index,        \* what the catalog holds under the declared name
  procs,        \* the processes
  starts,       \* starts so far
  marked,       \* migrations an operator marked applied
  doubted       \* migrations with a statement that ran and was not recorded

migVars == <<server, ledger, ran, migLock, index, procs, starts, marked, doubted>>
schema == <<ledger, ran, marked, doubted>>

Written(rows, key, row) == [k \in DOMAIN rows \cup {key} |-> IF k = key THEN row ELSE rows[k]]
Row(applied, n, sum) == [applied |-> applied, statements |-> n, sum |-> sum]
prefixSum(stmts, n) == SubSeq(stmts, 1, n)
NoIndex == "none"
Idle == [at |-> "idle", mode |-> "off", files |-> <<>>, declares |-> NoIndex, todo |-> <<>>,
         rows |-> <<>>, past |-> -1, key |-> <<"app", 0>>, next |-> 0, has |-> FALSE]

Transactional == server # "mysql"
Locking == server # "sqlite"

(* loadMigrations: an owner's files, in the order of their versions.       *)
loadMigrations(files, owner) == {key \in DOMAIN files : key[1] = owner}
Pending(p) == {key \in loadMigrations(procs[p].files, Head(procs[p].todo)) : key[2] > procs[p].past}
readLedger(owner) == Restrict(ledger, {key \in DOMAIN ledger : key[1] = owner})

(* status, of the versions of the files and of the rows.                   *)
status(files, rows, key) ==
  IF key \notin DOMAIN rows THEN "pending"
  ELSE IF key \notin DOMAIN files THEN "missing"
  ELSE IF ~ rows[key].applied THEN "partial"
  ELSE IF rows[key].sum # files[key] THEN "drifted" ELSE "applied"
Listed(files, rows, owner) == loadMigrations(files, owner) \cup DOMAIN rows

(* The versions of which apply takes the newest.                           *)
newest(files, rows) == {key[2] : key \in {k \in DOMAIN rows : status(files, rows, k) \in {"applied", "drifted"}}}

-----------------------------------------------------------------------------
MigInit ==
  /\ server \in {"sqlite", "mysql", "postgres"}
  /\ ledger = <<>> /\ ran = <<>> /\ migLock = NoProc
  /\ index \in {NoIndex, "relation"}
  /\ procs = [p \in Procs |-> Idle]
  /\ starts = 0 /\ marked = {} /\ doubted = {}

Becomes(p, state) == procs' = [procs EXCEPT ![p] = state]
At(p, at) == Becomes(p, [procs[p] EXCEPT !.at = at])
Unlocks(p) == migLock' = IF migLock = p THEN NoProc ELSE migLock

(* An error, the end of the migration's timeout, or the death of the       *)
(* process; the lock goes with its session.                                *)
Stops(p) ==
  /\ procs[p].at \notin {"idle", "started"}
  /\ Becomes(p, Idle) /\ Unlocks(p)
  /\ doubted' = IF procs[p].at = "record" THEN doubted \cup {procs[p].key} ELSE doubted
  /\ UNCHANGED <<server, ledger, ran, index, starts, marked>>

(* Open applies the mode to the application's schema, and each battery's   *)
(* RegisterSchema to its own.                                              *)
Open(p, mode, files, declares, battery) ==
  /\ procs[p].at = "idle" /\ starts < MaxStarts
  /\ starts' = starts + 1
  /\ Becomes(p, [Idle EXCEPT !.at = IF mode = "mark" THEN "mark" ELSE "migrate", !.mode = mode, !.files = files,
                   !.declares = declares, !.todo = IF battery THEN <<"app", "jobs">> ELSE <<"app">>])
  /\ UNCHANGED <<server, migLock, index, schema>>

(* The commands, which a database the application migrates itself refuses. *)
refuseAuto(configured) == configured = "auto"
AnIndex == CHOOSE shape \in Declared : TRUE
up(p, files, battery, configured) == ~ refuseAuto(configured) /\ Open(p, "up", files, AnIndex, battery)
mark(p, files, configured) == ~ refuseAuto(configured) /\ Open(p, "mark", files, AnIndex, TRUE)

Restarts(p) ==
  /\ procs[p].at = "started" /\ starts < MaxStarts
  /\ Becomes(p, Idle)
  /\ UNCHANGED <<server, migLock, index, starts, schema>>

(* The owners left once the next is done.  up adds the batteries in the    *)
(* ledger to those --battery names, once the application's schema is done. *)
ledgerOwners == {key[1] : key \in DOMAIN ledger}
openSession(p) ==
  IF procs[p].mode = "up" /\ Head(procs[p].todo) = "app" /\ "jobs" \in ledgerOwners
  THEN <<"jobs">> ELSE Tail(procs[p].todo)

Done(p) ==
  Becomes(p, [procs[p] EXCEPT !.at = IF openSession(p) = <<>> THEN "started" ELSE "migrate", !.todo = openSession(p), !.past = -1])

(* migrate with off: every migration listed must be applied.               *)
migrateOff(p) ==
  LET owner == Head(procs[p].todo)
      rows == readLedger(owner)
  IN  /\ procs[p].at = "migrate" /\ procs[p].mode = "off"
      /\ \A key \in Listed(procs[p].files, rows, owner) : status(procs[p].files, rows, key) = "applied"
      /\ Done(p)
      /\ UNCHANGED <<server, migLock, index, starts, schema>>

(* lockMigrations; SQLite has no lock.                                     *)
lockMigrations(p) ==
  /\ procs[p].at \in {"migrate", "mark"} /\ procs[p].mode \in {"versioned", "up", "mark"}
  /\ IF Locking THEN migLock = NoProc /\ migLock' = p ELSE UNCHANGED migLock
  /\ At(p, IF procs[p].at = "mark" THEN "marks" ELSE "read")
  /\ UNCHANGED <<server, index, starts, schema>>

(* apply up to its loop: a drifted or a missing migration refuses them all.*)
apply(p) ==
  LET owner == Head(procs[p].todo)
      rows == readLedger(owner)
  IN  /\ procs[p].at = "read"
      /\ \A key \in Listed(procs[p].files, rows, owner) : status(procs[p].files, rows, key) \notin {"drifted", "missing"}
      /\ Becomes(p, [procs[p] EXCEPT !.at = "files", !.rows = rows])
      /\ UNCHANGED <<server, migLock, index, starts, schema>>

-----------------------------------------------------------------------------
(* The loop over the files, by the rows read before it.                    *)

Turn(p, key) ==
  /\ procs[p].at = "files" /\ key \in Pending(p)
  /\ \A other \in Pending(p) : key[2] <= other[2]
Has(p, key) == key \in DOMAIN procs[p].rows
Older_Allowed(p, key) == FALSE
Older(p, key) == ~ Has(p, key) /\ \E version \in newest(procs[p].files, procs[p].rows) : key[2] < version

Skip(p, key) ==
  /\ Turn(p, key) /\ Has(p, key) /\ procs[p].rows[key].applied
  /\ Becomes(p, [procs[p] EXCEPT !.past = key[2]])
  /\ UNCHANGED <<server, migLock, index, starts, schema>>

Unapplied(p, key) == Turn(p, key) /\ ~ (Has(p, key) /\ procs[p].rows[key].applied) /\ ~ Older(p, key)

(* applyInTx looks at the ledger again, for this version.                  *)
applyInTx(p, key) ==
  LET stmts == procs[p].files[key]
  IN  /\ Transactional /\ Unapplied(p, key)
      /\ IF key \in DOMAIN ledger
         THEN UNCHANGED <<ran, ledger>>
         ELSE ran' = Written(ran, key, stmts) /\ ledger' = Written(ledger, key, Row(TRUE, Len(stmts), stmts))
      /\ Becomes(p, [procs[p] EXCEPT !.past = key[2]])
      /\ UNCHANGED <<server, migLock, index, starts, marked, doubted>>

(* applyByStatement resumes after the statements the row says ran, if they *)
(* are the file's first ones.                                              *)
resumes(row, stmts) == row.statements <= Len(stmts) /\ prefixSum(stmts, row.statements) = row.sum

applyByStatement(p, key) ==
  /\ ~ Transactional /\ Unapplied(p, key)
  /\ Has(p, key) => resumes(procs[p].rows[key], procs[p].files[key])
  /\ Becomes(p, [procs[p] EXCEPT !.at = "statement", !.key = key, !.has = Has(p, key),
                   !.next = IF Has(p, key) THEN procs[p].rows[key].statements + 1 ELSE 1])
  /\ UNCHANGED <<server, migLock, index, starts, schema>>

Exec(p) ==
  LET key == procs[p].key
      stmts == procs[p].files[key]
  IN  /\ procs[p].at = "statement" /\ procs[p].next <= Len(stmts)
      /\ ran' = Written(ran, key, (IF key \in DOMAIN ran THEN ran[key] ELSE <<>>) \o <<stmts[procs[p].next]>>)
      /\ At(p, "record")
      /\ UNCHANGED <<server, ledger, migLock, index, starts, marked, doubted>>

Record(p) ==
  LET key == procs[p].key
      n == procs[p].next
  IN  /\ procs[p].at = "record" /\ (procs[p].has \/ key \notin DOMAIN ledger)
      /\ ledger' = Written(ledger, key, Row(FALSE, n, prefixSum(procs[p].files[key], n)))
      /\ Becomes(p, [procs[p] EXCEPT !.at = "statement", !.next = n + 1, !.has = TRUE])
      /\ UNCHANGED <<server, ran, migLock, index, starts, marked, doubted>>

FileDone(p) ==
  LET key == procs[p].key
      stmts == procs[p].files[key]
  IN  /\ procs[p].at = "statement" /\ procs[p].next > Len(stmts)
      /\ ledger' = Written(ledger, key, Row(TRUE, Len(stmts), stmts))
      /\ Becomes(p, [procs[p] EXCEPT !.at = "files", !.past = key[2]])
      /\ UNCHANGED <<server, ran, migLock, index, starts, marked, doubted>>

Applied(p) ==
  /\ procs[p].at = "files" /\ Pending(p) = {}
  /\ Done(p) /\ Unlocks(p)
  /\ UNCHANGED <<server, index, starts, schema>>

-----------------------------------------------------------------------------
(* mark-applied: the version must belong to one registered schema.         *)

MarkApplied(files, owner, version) ==
  {key \in DOMAIN files : key[2] = version /\ owner \in {"", key[1]}}

markApplied(p, owner, version) ==
  LET found == MarkApplied(procs[p].files, owner, version)
  IN  /\ procs[p].at = "marks" /\ Cardinality(found) = 1
      /\ \E key \in found :
           LET stmts == procs[p].files[key]
           IN  IF key \in DOMAIN ledger
               THEN /\ ledger' = Written(ledger, key, Row(TRUE, Len(stmts), stmts))
                    /\ marked' = marked \cup {key}
                    /\ Becomes(p, Idle) /\ Unlocks(p)
               ELSE /\ Becomes(p, [procs[p] EXCEPT !.at = "insert", !.key = key])
                    /\ UNCHANGED <<ledger, marked, migLock>>
      /\ UNCHANGED <<server, ran, index, starts, doubted>>

MarkInserts(p) ==
  LET key == procs[p].key
      stmts == procs[p].files[key]
  IN  /\ procs[p].at = "insert" /\ key \notin DOMAIN ledger
      /\ ledger' = Written(ledger, key, Row(TRUE, Len(stmts), stmts))
      /\ marked' = marked \cup {key}
      /\ Becomes(p, Idle) /\ Unlocks(p)
      /\ UNCHANGED <<server, ran, index, starts, doubted>>

-----------------------------------------------------------------------------
(* autoMigrate: the index is read, created when there is none, read again. *)

matches(have, want) == have = want
readIndex == IF index = "relation" THEN NoIndex ELSE index

ReadsIndex(p) ==
  /\ procs[p].at = "migrate" /\ procs[p].mode = "auto"
  /\ IF readIndex = NoIndex THEN At(p, "create") ELSE matches(readIndex, procs[p].declares) /\ Done(p)
  /\ UNCHANGED <<server, migLock, index, starts, schema>>

(* Another process's index makes MySQL answer 1061, the others skip; so    *)
(* does a relation of that name, except on MySQL, which names indexes per  *)
(* table.                                                                  *)
createIndex(p) ==
  /\ procs[p].at = "create"
  /\ index' = IF index = NoIndex \/ (server = "mysql" /\ index = "relation") THEN procs[p].declares ELSE index
  /\ At(p, "readback")
  /\ UNCHANGED <<server, migLock, starts, schema>>

ReadsBack(p) ==
  /\ procs[p].at = "readback"
  /\ readIndex # NoIndex /\ matches(readIndex, procs[p].declares)
  /\ Done(p)
  /\ UNCHANGED <<server, migLock, index, starts, schema>>

MigNext ==
  \E p \in Procs :
    \/ \E files \in Releases, battery \in BOOLEAN :
         \/ \E mode \in {"versioned", "off"} : Open(p, mode, files, AnIndex, battery)
         \/ \E configured \in {"auto", "versioned"} : up(p, files, battery, configured) \/ mark(p, files, configured)
    \/ \E declares \in Declared : Open(p, "auto", <<>>, declares, FALSE)
    \/ Restarts(p) \/ Stops(p)
    \/ migrateOff(p) \/ lockMigrations(p) \/ apply(p)
    \/ \E key \in DOMAIN procs[p].files : Skip(p, key) \/ applyInTx(p, key) \/ applyByStatement(p, key)
    \/ Exec(p) \/ Record(p) \/ FileDone(p) \/ Applied(p)
    \/ \E owner \in {"", "app", "jobs"}, version \in {1, 2} : markApplied(p, owner, version)
    \/ MarkInserts(p)
    \/ ReadsIndex(p) \/ createIndex(p) \/ ReadsBack(p)

MigSpec == MigInit /\ [][MigNext]_migVars

-----------------------------------------------------------------------------
(* The ledger says what ran.  A migration's statements ran once each, and  *)
(* the file whose checksum an applied row holds is the one that ran, and a *)
(* partial row counts the statements that ran: whatever the processes,     *)
(* their releases and the places they died at; but for a migration that a  *)
(* process left between a statement and its record, or an operator marked. *)
LedgerIsTrue ==
  \A key \in DOMAIN ran \ (marked \cup doubted) :
    \/ key \in DOMAIN ledger /\ ran[key] = ledger[key].sum
    \/ \E p \in Procs : /\ procs[p].at = "record" /\ procs[p].key = key
                        /\ ran[key] = prefixSum(procs[p].files[key], procs[p].next)

(* No process runs on a schema it does not know: one that started in mode  *)
(* versioned or off has every migration of its release applied, the file   *)
(* unchanged where a lock keeps its check good, and one that started in    *)
(* mode auto has the index it declared.                                    *)
StartedUpToDate ==
  \A p \in Procs : procs[p].at = "started" =>
    CASE procs[p].mode = "auto" -> index = procs[p].declares
      [] OTHER -> \A key \in loadMigrations(procs[p].files, "app") :
                    /\ key \in DOMAIN ledger /\ ledger[key].applied
                    /\ Locking /\ key \notin marked => ledger[key].sum = procs[p].files[key]

(* Where the migrations are locked they begin in the order of their        *)
(* versions, across processes of different releases.                       *)
InVersionOrder ==
  [][ Locking => \A key \in DOMAIN ran' \ DOMAIN ran, other \in DOMAIN ledger :
        other[1] = key[1] /\ ledger[other].applied /\ other \notin marked => other[2] <= key[2] ]_migVars

(* The ledger is true, who starts on it starts up to date, and migrations  *)
(* begin in order, whatever processes migrate at once and die on the way.  *)
MigrationsHold == []LedgerIsTrue /\ []StartedUpToDate /\ InVersionOrder
=============================================================================
