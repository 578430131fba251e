------------------------------ MODULE DeadLetters ------------------------------
(***************************************************************************)
(* The dead letters (jobs/dead.go): callers of any process list the parked *)
(* messages and requeue or discard some of them, each in one transaction,  *)
(* while the relay parks more and connections break.  Statements read what *)
(* is committed; a delete waits for the transaction that deleted its row.  *)
(***************************************************************************)
EXTENDS Integers, FiniteSets, Functions

CONSTANTS
  Takers,       \* the calls
  CreatedAt,    \* when each message was first enqueued, by id
  Legacy,       \* the messages parked before acknowledgements were durable
  deadChunk,    \* ids of one statement
  defaultDeadLimit, \* the most Dead returns if not asked for a number
  maxDeadLimit, \* the most it may be asked for
  DeadLimits    \* the limits a caller asks it for; 0 for the default

DeadIds == DOMAIN CreatedAt
ASSUME DeadAssumption ==
  /\ deadChunk \in Nat \ {0} /\ Legacy \subseteq DeadIds
  /\ IsFiniteSet(DeadIds) /\ DeadIds \subseteq Nat /\ CreatedAt \in [DeadIds -> Nat]

VARIABLES
  parked,      \* the dead letters: when each was parked, by id
  unacked,     \* the messages whose row says they are not completed
  messages,    \* the messages enqueued again: [id, of, by]
  lastId,      \* the last id given to a message
  calls,       \* the calls
  taken        \* history: what committed calls took: [id, by, op]

deadVars == <<parked, unacked, messages, lastId, calls, taken>>

NoTake == [at |-> "idle", op |-> "", seen |-> {}, ids |-> {}, left |-> {}, rows |-> {}, gone |-> {}, deleted |-> 0, made |-> {}]
DeadInit ==
  /\ parked = [id \in Legacy |-> 0] /\ unacked = Legacy
  /\ messages = {} /\ lastId = 0 /\ taken = {}
  /\ calls = [c \in Takers |-> NoTake]

Goes(c, next) == calls' = [calls EXCEPT ![c] = next]
RollsBack(c) == Goes(c, [NoTake EXCEPT !.at = "failed"]) /\ UNCHANGED <<parked, unacked, messages, lastId, taken>>

(* The relay parks a message and completes its row in one transaction, at  *)
(* a time later than those before it.                                      *)
Lettered == DOMAIN parked \cup {t.id : t \in taken}
Parks(id) ==
  /\ id \notin Lettered
  /\ parked' = [other \in DOMAIN parked \cup {id} |-> IF other = id THEN Cardinality(Lettered) + 1 ELSE parked[other]]
  /\ UNCHANGED <<unacked, messages, lastId, calls, taken>>

(* The longest parked of them; a limit out of range is refused.            *)
ParkedBefore(id, other) == parked[id] < parked[other] \/ (parked[id] = parked[other] /\ id < other)
Dead(c, limit) ==
  /\ calls[c].at = "idle" /\ calls[c].seen = {}
  /\ limit <= maxDeadLimit
  /\ LET most == IF limit = 0 THEN defaultDeadLimit ELSE limit
     IN  Goes(c, [NoTake EXCEPT !.seen = {id \in DOMAIN parked : Cardinality({other \in DOMAIN parked : ParkedBefore(other, id)}) < most}])
  /\ UNCHANGED <<parked, unacked, messages, lastId, taken>>

(* Requeue or Discard: each id once; of no id, nothing happens.            *)
takeDead(c, op, ids) ==
  /\ calls[c].at = "idle" /\ ids # {}
  /\ Goes(c, [NoTake EXCEPT !.at = "read", !.op = op, !.ids = ids, !.left = ids])
  /\ UNCHANGED <<parked, unacked, messages, lastId, taken>>

(* The next chunk of the sorted ids.                                       *)
Chunk(job) == {id \in job.left : Cardinality({other \in job.left : other < id}) < deadChunk}
LastChunk(job) == Chunk(job) = job.left

(* Reads the rows; one that is not parked fails the call.                  *)
ReadChunk(c) ==
  LET job == calls[c]
      found == job.rows \cup (Chunk(job) \cap DOMAIN parked)
  IN  /\ job.at = "read"
      /\ IF ~ LastChunk(job) THEN Goes(c, [job EXCEPT !.rows = found, !.left = job.left \ Chunk(job)])
         ELSE IF Cardinality(found) < Cardinality(job.ids) THEN Goes(c, [NoTake EXCEPT !.at = "failed"])
         ELSE Goes(c, [job EXCEPT !.at = "delete", !.rows = found, !.left = job.ids])
      /\ UNCHANGED <<parked, unacked, messages, lastId, taken>>

(* Completes and deletes a chunk, once no other transaction holds its rows.*)
DeleteChunk(c) ==
  LET job == calls[c]
  IN  /\ job.at = "delete"
      /\ \A other \in Takers \ {c} : calls[other].gone \cap Chunk(job) = {}
      /\ Goes(c, [job EXCEPT !.gone = job.gone \cup Chunk(job), !.left = job.left \ Chunk(job),
                              !.deleted = job.deleted + Cardinality(Chunk(job) \cap DOMAIN parked),
                              !.at = IF LastChunk(job) THEN "count" ELSE "delete"])
      /\ UNCHANGED <<parked, unacked, messages, lastId, taken>>

(* A row that another call took meanwhile fails the transaction.           *)
CountDeleted_AnyNumber(c) ==
  LET job == calls[c]
  IN  /\ job.at = "count"
      /\ Goes(c, [job EXCEPT !.at = IF job.op = "requeue" THEN "create" ELSE "commit"])
      /\ UNCHANGED <<parked, unacked, messages, lastId, taken>>
CountDeleted(c) ==
  LET job == calls[c]
  IN  /\ job.at = "count"
      /\ IF job.deleted # Cardinality(job.ids) THEN Goes(c, [NoTake EXCEPT !.at = "failed"])
         ELSE Goes(c, [job EXCEPT !.at = IF job.op = "requeue" THEN "create" ELSE "commit"])
      /\ UNCHANGED <<parked, unacked, messages, lastId, taken>>

(* Requeue enqueues the rows again, the first enqueued first.              *)
Oldest(row, rows) ==
  \A other \in rows \ {row} : CreatedAt[row] < CreatedAt[other] \/ (CreatedAt[row] = CreatedAt[other] /\ row < other)
Requeue(c, row) ==
  LET job == calls[c]
  IN  /\ job.at = "create" /\ row \in job.rows /\ Oldest(row, job.rows)
      /\ lastId' = lastId + 1
      /\ Goes(c, [job EXCEPT !.rows = job.rows \ {row}, !.made = job.made \cup {[id |-> lastId + 1, of |-> row, by |-> c]},
                              !.at = IF job.rows = {row} THEN "commit" ELSE "create"])
      /\ UNCHANGED <<parked, unacked, messages, taken>>

CommitTake(c) ==
  LET job == calls[c]
  IN  /\ job.at = "commit"
      /\ parked' = Restrict(parked, DOMAIN parked \ job.gone)
      /\ unacked' = unacked \ job.gone
      /\ messages' = messages \cup job.made
      /\ taken' = taken \cup {[id |-> id, by |-> c, op |-> job.op] : id \in job.ids}
      /\ Goes(c, [NoTake EXCEPT !.at = "done"])
      /\ UNCHANGED lastId

(* A statement or the commit fails, or the process dies.                   *)
Breaks(c) == calls[c].at \notin {"idle", "failed", "done"} /\ RollsBack(c)

DeadNext ==
  \/ \E id \in DeadIds : Parks(id)
  \/ \E c \in Takers :
       \/ \E limit \in DeadLimits : Dead(c, limit)
       \/ \E op \in {"requeue", "discard"} : \E ids \in {calls[c].seen, DeadIds} : takeDead(c, op, ids)
       \/ ReadChunk(c) \/ DeleteChunk(c) \/ CountDeleted(c) \/ CommitTake(c) \/ Breaks(c)
       \/ \E row \in calls[c].rows : Requeue(c, row)

DeadSpec == DeadInit /\ [][DeadNext]_deadVars

(* A parked message is taken once, by one call that took all it asked for: *)
(* whatever calls race, it is still parked, or requeued as one message, or *)
(* discarded, and once taken its row is completed, so that the relay never *)
(* sees it again; the messages a Requeue makes keep the order in which the *)
(* parked ones were first enqueued.                                        *)
TakenOnce ==
  /\ \A s, t \in taken : s.id = t.id => s = t
  /\ \A t \in taken : t.id \notin DOMAIN parked \cup unacked
  /\ \A t \in taken : t.op = "requeue" <=> \E m \in messages : m.of = t.id
  /\ \A m \in messages : \E t \in taken : t.id = m.of /\ t.by = m.by
  /\ \A m, n \in messages : m.of = n.of => m = n
  /\ \A m, n \in messages : m.by = n.by /\ m.id < n.id => CreatedAt[m.of] <= CreatedAt[n.of]
=============================================================================
