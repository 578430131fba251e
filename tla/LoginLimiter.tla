----------------------------- MODULE LoginLimiter -----------------------------
(***************************************************************************)
(* The login throttle (ratelimit.go): a table of the recent attempts of    *)
(* each key, under one lock.  A caller checks its keys, does its work, and *)
(* records a failure, or, through throttle, every call; the check and the  *)
(* record are two critical sections.  A record may launch a cleanup in the *)
(* background, and Close waits for it.                                     *)
(***************************************************************************)
EXTENDS Integers, Sequences, FiniteSets, Functions

CONSTANTS
  Callers,      \* concurrent requests
  IPKeys,       \* the keys of client addresses
  OtherKeys,    \* the keys of emails
  KeyLists,     \* the keys callers pass
  Window,       \* LoginRateWindow
  Limit,        \* LoginRateLimit
  IPLimit,      \* LoginRateLimitPerIP; 0 counts no client address
  MaxEntries,   \* maxLimiterEntries
  MaxWatch      \* bound: the limiter's clock

Keys == IPKeys \cup OtherKeys

(* A caller passes one key or two, of different dimensions.                *)
ASSUME LimiterAssumption ==
  /\ {Window, Limit, MaxEntries} \subseteq Nat \ {0} /\ {IPLimit, MaxWatch} \subseteq Nat
  /\ IsFiniteSet(Callers) /\ Callers # {} /\ IPKeys \cap OtherKeys = {}
  /\ \A keys \in KeyLists : keys \in Seq(Keys) /\ Len(keys) \in {1, 2} /\ IsInjective(keys)

VARIABLES
  watch,      \* the clock
  entries,    \* key -> its attempts kept; and, a history, those that counted since it was last evicted
  caller,     \* caller -> where it is, and its keys
  cleaning,   \* a cleanup goroutine was launched and has not ended
  closing     \* no, waits or done: Close

limiterVars == <<watch, entries, caller, cleaning, closing>>

NoCall == [pc |-> "idle", keys |-> <<>>]
NoEntry == [attempts |-> {}, passed |-> {}]

newLoginLimiter ==
  /\ watch = 0
  /\ entries = [k \in Keys |-> NoEntry]
  /\ caller = [c \in Callers |-> NoCall]
  /\ cleaning = FALSE /\ closing = "no"

counted(key) == key \in IPKeys => IPLimit > 0
limit(key) == IF key \in IPKeys THEN IPLimit ELSE Limit

(* An attempt is its time, and its number among those of that time.        *)
Recent(attempts) == {a \in attempts : a[1] > watch - Window}
Attempted(attempts) == Recent(attempts) \cup {<<watch, Cardinality({a \in attempts : a[1] = watch}) + 1>>}

(* A refused call does nothing further.                                    *)
check(c, keys) ==
  /\ caller[c].pc = "idle"
  /\ \A key \in Range(keys) : counted(key) => Cardinality(Recent(entries[key].attempts)) < limit(key)
  /\ caller' = [caller EXCEPT ![c] = [pc |-> "checked", keys |-> keys]]
  /\ UNCHANGED <<watch, entries, cleaning, closing>>

(* Map iteration meets the entries seen least recently in any order.       *)
Tracked(es) == {k \in Keys : es[k].attempts # {}}
evictOldestLocked(es) ==
  {k \in Tracked(es) : \A j \in Tracked(es) : \A a \in es[k].attempts : \E b \in es[j].attempts : a[1] <= b[1]}

(* The tables recordLocked may leave.                                      *)
recordLocked(es, key) ==
  LET full == es[key].attempts = {} /\ Cardinality(Tracked(es)) >= MaxEntries
      room == IF full THEN {[es EXCEPT ![k] = NoEntry] : k \in evictOldestLocked(es)} ELSE {es}
  IN  {[f EXCEPT ![key] = [attempts |-> Attempted(f[key].attempts), passed |-> Attempted(f[key].passed)]] : f \in room}

RecordKey(es, key) == IF counted(key) THEN recordLocked(es, key) ELSE {es}
RecordKeys(es, keys) ==
  IF Len(keys) = 1 THEN RecordKey(es, keys[1]) ELSE UNION {RecordKey(f, keys[2]) : f \in RecordKey(es, keys[1])}

(* record counts every key under the lock; then, if the table is large or  *)
(* the call is a hundredth one, it goes on to launch a cleanup.            *)
record(c) ==
  /\ caller[c].pc = "checked"
  /\ entries' \in RecordKeys(entries, caller[c].keys)
  /\ \/ caller' = [caller EXCEPT ![c] = NoCall]
     \/ closing = "no" /\ caller' = [caller EXCEPT ![c] = [pc |-> "launch", keys |-> <<>>]]
  /\ UNCHANGED <<watch, cleaning, closing>>

Launch(c) ==
  /\ caller[c].pc = "launch"
  /\ cleaning' = TRUE
  /\ caller' = [caller EXCEPT ![c] = NoCall]
  /\ UNCHANGED <<watch, entries, closing>>

(* The caller succeeded and records nothing.                               *)
Succeeds(c) ==
  /\ caller[c].pc = "checked"
  /\ caller' = [caller EXCEPT ![c] = NoCall]
  /\ UNCHANGED <<watch, entries, cleaning, closing>>

cleanupLocked_AnyExpired(es) ==
  [k \in Keys |-> [es[k] EXCEPT !.attempts = IF Recent(@) = @ THEN @ ELSE {}]]
cleanupLocked(es) ==
  [k \in Keys |-> [es[k] EXCEPT !.attempts = IF Recent(@) # {} THEN @ ELSE {}]]

runCleanup ==
  /\ cleaning
  /\ entries' = cleanupLocked(entries)
  /\ cleaning' = FALSE
  /\ UNCHANGED <<watch, caller, closing>>

CloseLimiter ==
  /\ \/ closing = "no" /\ closing' = "waits"
     \/ closing = "waits" /\ ~ cleaning /\ closing' = "done"
  /\ UNCHANGED <<watch, entries, caller, cleaning>>

WatchTicks ==
  /\ watch < MaxWatch
  /\ watch' = watch + 1
  /\ UNCHANGED <<entries, caller, cleaning, closing>>

LimiterNext ==
  \/ \E c \in Callers :
       \/ \E keys \in KeyLists : check(c, keys)
       \/ record(c) \/ Launch(c) \/ Succeeds(c)
  \/ runCleanup \/ CloseLimiter \/ WatchTicks

LimiterSpec == newLoginLimiter /\ [][LimiterNext]_limiterVars

-----------------------------------------------------------------------------
(* Within a window a key counts at most its limit since it was last        *)
(* evicted, and one more for each further caller that passed its check     *)
(* before the others recorded; a cleanup forgets nothing that still        *)
(* counts.                                                                 *)
ThrottleHolds ==
  \A k \in Keys : Cardinality(Recent(entries[k].passed)) <= limit(k) + Cardinality(Callers) - 1
=============================================================================
