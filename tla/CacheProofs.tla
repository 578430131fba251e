---------------------------- MODULE CacheProofs ----------------------------
(***************************************************************************)
(* Proofs about Cache for any set of callers, any breaker configuration    *)
(* and any number of calls Redis never answers.                            *)
(***************************************************************************)
EXTENDS Cache, FiniteSetTheorems, TLAPS

PCs == {"idle", "memory", "allow", "redis", "fill", "join", "wait", "load", "store", "land"}

\* What a caller at each place has been through: only a caller on its second
\* look loads, stores, writes the value to Redis and lands; only a Delete
\* deletes.
Shape(r) ==
  /\ r.op = "delete" <=> r.what = "del"
  /\ r.what = "set" => r.second
  /\ r.pc \in {"load", "store", "land"} => r.second
  /\ r.pc \in {"idle", "join", "wait"} => ~ r.second
  /\ r.pc \in {"memory", "load", "store"} => r.what # "set"
  /\ r.pc \in {"join", "load", "store"} => r.what # "del"
  /\ r.second => r.what # "del"

\* The caller looked in the memory layer under a live ctx, found nothing there
\* and is on its way to load.
Loading(r) == r.second /\ r.what = "get" /\ r.pc \in {"allow", "redis", "fill", "load"} /\ ~ r.done

\* The flight: the leader is the caller on its second look; a load that
\* succeeded is in the memory layer, or about to be; and whoever is on its way
\* to load found that nobody had loaded.
FlightInv ==
  /\ caller \in [Callers -> Caller] /\ leader \in Callers \cup {None} /\ loads \in Nat
  /\ \A c \in Callers : Shape(caller[c])
  /\ \A c \in Callers : caller[c].second <=> leader = c
  /\ \A c \in Callers : caller[c].pc = "wait" => leader # None
  /\ loads <= 1
  /\ loads = 0 \/ memory \/ \E c \in Callers : caller[c].pc = "store"
  /\ \A c \in Callers : Loading(caller[c]) => loads = 0

\* The breaker: while it is closed every failure it has counted was one of
\* Redis, and there are fewer than it takes.
BreakerInv ==
  /\ state \in {"closed", "open", "halfOpen"} /\ failures \in Nat /\ blamed \in Nat
  /\ state = "closed" => failures <= blamed /\ failures < Threshold

\* The inductive invariant.
CacheInv == FlightInv /\ BreakerInv

-----------------------------------------------------------------------------
(* The records callers move between.                                       *)

\* Resting is a caller that holds nothing.
LEMMA RestingShape == Resting \in Caller /\ Shape(Resting) /\ ~ Resting.second /\ Resting.pc = "idle" /\ ~ Loading(Resting)
  BY DEF Resting, Caller, Shape, Loading

\* Goto moves a caller and forgets its Redis call, nothing else.
LEMMA GotoFields ==
  ASSUME NEW c \in Callers, NEW pc \in PCs, caller \in [Callers -> Caller]
  PROVE  /\ Goto(c, pc) \in Caller /\ Goto(c, pc).pc = pc
         /\ Goto(c, pc).op = caller[c].op /\ Goto(c, pc).what = caller[c].what
         /\ Goto(c, pc).second = caller[c].second /\ Goto(c, pc).done = caller[c].done
<1>1. caller[c] \in Caller
  OBVIOUS
<1>2. QED
  BY <1>1 DEF Goto, Caller, PCs

\* Where a Get goes: a caller on its second look lands or loads, another one
\* rests or joins.
LEMMA HitAndMiss ==
  ASSUME NEW c \in Callers, FlightInv, caller[c].what = "get", caller[c].pc \in {"memory", "allow", "redis", "fill"}
  PROVE  /\ Hit(c) \in Caller /\ Shape(Hit(c)) /\ Hit(c).second = caller[c].second /\ ~ Loading(Hit(c)) /\ Hit(c).pc \in {"idle", "land"}
         /\ Miss(c) \in Caller /\ Shape(Miss(c)) /\ Miss(c).second = caller[c].second /\ Miss(c).pc \in {"load", "join"}
         /\ Miss(c).what = "get" /\ Miss(c).done = caller[c].done
<1>1. caller[c] \in Caller /\ Shape(caller[c]) /\ caller \in [Callers -> Caller]
  BY DEF FlightInv
<1>2. "land" \in PCs /\ "load" \in PCs /\ "join" \in PCs
  BY DEF PCs
<1>3. caller[c].op = "load"
  BY <1>1 DEF Shape, Caller
<1>4. CASE caller[c].second
  <2>1. Hit(c) = Goto(c, "land") /\ Miss(c) = Goto(c, "load")
    BY <1>4 DEF Hit, Miss
  <2>2. /\ Hit(c) \in Caller /\ Hit(c).pc = "land" /\ Hit(c).op = "load" /\ Hit(c).what = "get"
        /\ Hit(c).second = caller[c].second
    BY <1>1, <1>2, <1>3, <2>1, GotoFields
  <2>3. /\ Miss(c) \in Caller /\ Miss(c).pc = "load" /\ Miss(c).op = "load" /\ Miss(c).what = "get"
        /\ Miss(c).second = caller[c].second /\ Miss(c).done = caller[c].done
    BY <1>1, <1>2, <1>3, <2>1, GotoFields
  <2>4. Shape(Hit(c)) /\ ~ Loading(Hit(c))
    BY <1>4, <2>2 DEF Shape, Loading
  <2>5. Shape(Miss(c))
    BY <1>4, <2>3 DEF Shape
  <2>6. QED
    BY <2>2, <2>3, <2>4, <2>5
<1>5. CASE ~ caller[c].second
  <2>1. Hit(c) = Resting /\ Miss(c) = Goto(c, "join")
    BY <1>5 DEF Hit, Miss
  <2>2. caller[c].second = FALSE /\ Resting.second = FALSE
    BY <1>1, <1>5 DEF Caller, Resting
  <2>3. /\ Miss(c) \in Caller /\ Miss(c).pc = "join" /\ Miss(c).op = "load" /\ Miss(c).what = "get"
        /\ Miss(c).second = caller[c].second /\ Miss(c).done = caller[c].done
    BY <1>1, <1>2, <1>3, <2>1, GotoFields
  <2>4. Shape(Miss(c))
    BY <1>5, <2>3 DEF Shape
  <2>5. QED
    BY <2>1, <2>2, <2>3, <2>4, RestingShape
<1>6. QED
  BY <1>4, <1>5

\* Where a call goes that Redis did not serve.
LEMMA SkippedShape ==
  ASSUME NEW c \in Callers, FlightInv, caller[c].pc \in {"allow", "redis"}
  PROVE  /\ Skipped(c) \in Caller /\ Shape(Skipped(c)) /\ Skipped(c).second = caller[c].second
         /\ Skipped(c).pc \in {"idle", "load", "join", "land"}
         /\ Loading(Skipped(c)) => Loading(caller[c])
<1>1. caller[c] \in Caller /\ Shape(caller[c]) /\ caller \in [Callers -> Caller]
  BY DEF FlightInv
<1>2. CASE caller[c].what = "get"
  <2>1. Skipped(c) = Miss(c)
    BY <1>2 DEF Skipped
  <2>2. QED
    BY <1>1, <1>2, <2>1, HitAndMiss DEF Loading
<1>3. CASE caller[c].what = "set"
  <2>1. Skipped(c) = Goto(c, "land")
    BY <1>3 DEF Skipped
  <2>2. caller[c].second /\ caller[c].op = "load" /\ "land" \in PCs
    BY <1>1, <1>3 DEF Shape, Caller, PCs
  <2>3. QED
    BY <1>1, <1>3, <2>1, <2>2, GotoFields, ZenonT(60) DEF Shape, Loading
<1>4. CASE caller[c].what = "del"
  <2>1. Skipped(c) = Resting
    BY <1>4 DEF Skipped
  <2>2. ~ caller[c].second
    BY <1>1, <1>4 DEF Shape
  <2>3. caller[c].second = FALSE /\ Resting.second = FALSE
    BY <1>1, <2>2 DEF Caller, Resting
  <2>4. QED
    BY <2>1, <2>3, RestingShape
<1>5. caller[c].what \in {"get", "set", "del"}
  BY <1>1 DEF Caller
<1>6. QED
  BY <1>2, <1>3, <1>4, <1>5

-----------------------------------------------------------------------------
(* Steps of one caller.                                                    *)

\* Two callers' records that the flight does not tell apart.
Alike(r, s) == r.op = s.op /\ r.what = s.what /\ r.second = s.second /\ r.pc = s.pc /\ r.done = s.done

\* A caller moves in its own flight or out of it; the others stay where they
\* are, and so do the leader, the memory layer and the count of loads.
LEMMA CallerMoves ==
  ASSUME FlightInv, NEW c \in Callers, UNCHANGED <<memory, leader, loads>>,
         caller' \in [Callers -> Caller],
         Shape(caller'[c]), caller'[c].second = caller[c].second,
         caller'[c].pc = "wait" => leader # None,
         caller[c].pc # "store",
         Loading(caller'[c]) => loads = 0,
         \A d \in Callers : d # c => Alike(caller'[d], caller[d])
  PROVE  FlightInv'
<1>1. \A d \in Callers : Shape(caller'[d])
  BY DEF FlightInv, Alike, Shape
<1>2. \A d \in Callers : caller'[d].second <=> leader' = d
  BY DEF FlightInv, Alike
<1>3. \A d \in Callers : caller'[d].pc = "wait" => leader' # None
  BY DEF FlightInv, Alike
<1>4. loads' = 0 \/ memory' \/ \E d \in Callers : caller'[d].pc = "store"
  BY DEF FlightInv, Alike
<1>5. \A d \in Callers : Loading(caller'[d]) => loads' = 0
  BY DEF FlightInv, Alike, Loading
<1>6. QED
  BY <1>1, <1>2, <1>3, <1>4, <1>5 DEF FlightInv

\* Put writes one record.
LEMMA PutWrites ==
  ASSUME NEW c \in Callers, NEW r \in Caller, caller \in [Callers -> Caller], caller' = [caller EXCEPT ![c] = r]
  PROVE  /\ caller' \in [Callers -> Caller] /\ caller'[c] = r
         /\ \A d \in Callers : d # c => caller'[d] = caller[d] /\ Alike(caller'[d], caller[d])
  BY DEF Alike

\* The flight does not depend on anything else.
LEMMA FlightFrame == ASSUME FlightInv, UNCHANGED <<caller, memory, leader, loads>> PROVE FlightInv'
  BY DEF FlightInv

\* Nor does the breaker.
LEMMA BreakerFrame == ASSUME BreakerInv, UNCHANGED <<state, failures, blamed>> PROVE BreakerInv'
  BY DEF BreakerInv

-----------------------------------------------------------------------------
(* The flight, one lemma per step of a caller.                             *)

\* A caller's ctx ends: it no longer claims to have looked.
LEMMA CtxEndsFlight == ASSUME FlightInv, NEW c \in Callers, CallerCtxEnds(c) PROVE FlightInv'
<1> DEFINE r == [caller[c] EXCEPT !.done = TRUE]
<1>1. caller[c] \in Caller /\ caller \in [Callers -> Caller] /\ Shape(caller[c])
  BY DEF FlightInv
<1>2. /\ r \in Caller /\ r.done = TRUE /\ r.op = caller[c].op /\ r.what = caller[c].what
      /\ r.second = caller[c].second /\ r.pc = caller[c].pc
  BY <1>1 DEF Caller
<1>3. caller' = [caller EXCEPT ![c] = r]
  BY DEF CallerCtxEnds, Put
<1>4. caller[c].pc = "wait" => leader # None
  BY DEF FlightInv
<1> HIDE DEF r
<1>5. Shape(r) /\ ~ Loading(r)
  BY <1>1, <1>2 DEF Shape, Loading
<1>6. caller[c].pc # "store" /\ UNCHANGED <<memory, leader, loads>>
  BY DEF CallerCtxEnds, layers
<1>7. QED
  BY <1>1, <1>2, <1>3, <1>4, <1>5, <1>6, PutWrites, CallerMoves

\* GetOrLoad or Delete begins.
LEMMA BeginFlight == ASSUME FlightInv, NEW c \in Callers, Begin(c) PROVE FlightInv'
<1> DEFINE a == [Resting EXCEPT !.pc = "memory"]
           b == [Resting EXCEPT !.pc = "memory", !.op = "delete", !.what = "del"]
<1>1. caller[c] \in Caller /\ caller \in [Callers -> Caller] /\ Shape(caller[c]) /\ caller[c].pc = "idle"
  BY DEF FlightInv, Begin
<1>2. /\ a \in Caller /\ Shape(a) /\ a.second = FALSE /\ a.pc = "memory" /\ ~ Loading(a)
      /\ b \in Caller /\ Shape(b) /\ b.second = FALSE /\ b.pc = "memory" /\ ~ Loading(b)
  BY DEF Resting, Caller, Shape, Loading
<1>3. caller[c].second = FALSE
  BY <1>1 DEF Shape, Caller
<1>4. caller' = [caller EXCEPT ![c] = a] \/ caller' = [caller EXCEPT ![c] = b]
  BY DEF Begin, Put
<1>5. UNCHANGED <<memory, leader, loads>>
  BY DEF Begin, layers
<1> HIDE DEF a, b
<1>6. CASE caller' = [caller EXCEPT ![c] = a]
  BY <1>1, <1>2, <1>3, <1>5, <1>6, PutWrites, CallerMoves
<1>7. CASE caller' = [caller EXCEPT ![c] = b]
  BY <1>1, <1>2, <1>3, <1>5, <1>7, PutWrites, CallerMoves
<1>8. QED
  BY <1>4, <1>6, <1>7

\* A Get that finds the memory layer empty knows that nobody has loaded: one
\* who had would be storing, and only the leader stores.
LEMMA GetFlight == ASSUME FlightInv, NEW c \in Callers, Get(c) PROVE FlightInv'
<1>1. caller[c] \in Caller /\ caller \in [Callers -> Caller] /\ Shape(caller[c]) /\ caller[c].pc = "memory" /\ caller[c].what = "get"
  <2>1. caller[c] \in Caller /\ caller \in [Callers -> Caller] /\ Shape(caller[c]) /\ caller[c].pc = "memory" /\ caller[c].op = "load"
    BY DEF FlightInv, Get
  <2>2. QED
    BY <2>1 DEF Shape, Caller
<1>2. UNCHANGED <<memory, leader, loads>>
  BY DEF Get, layers
<1>3. CASE caller[c].done
  <2>1. caller' = [caller EXCEPT ![c] = Miss(c)]
    BY <1>3 DEF Get, Put
  <2>2. ~ Loading(Miss(c))
    BY <1>1, <1>3, HitAndMiss DEF Loading
  <2>3. QED
    BY <1>1, <1>2, <2>1, <2>2, HitAndMiss, PutWrites, CallerMoves
<1>4. CASE ~ caller[c].done /\ memory
  <2>1. caller' = [caller EXCEPT ![c] = Hit(c)]
    BY <1>4 DEF Get, Put
  <2>2. QED
    BY <1>1, <1>2, <2>1, HitAndMiss, PutWrites, CallerMoves
<1>5. CASE ~ caller[c].done /\ ~ memory
  <2>1. caller' = [caller EXCEPT ![c] = Goto(c, "allow")]
    BY <1>5 DEF Get, Put
  <2>2. Goto(c, "allow") \in Caller /\ Goto(c, "allow").second = caller[c].second /\ Goto(c, "allow").pc = "allow"
        /\ Goto(c, "allow").op = caller[c].op /\ Goto(c, "allow").what = caller[c].what
    BY <1>1, GotoFields DEF PCs
  <2>3. Shape(Goto(c, "allow"))
    BY <1>1, <2>2 DEF Shape
  <2>4. Loading(Goto(c, "allow")) => loads = 0
    <3>1. SUFFICES ASSUME Goto(c, "allow").second PROVE loads = 0
      BY DEF Loading
    <3>2. leader = c
      BY <2>2, <3>1 DEF FlightInv
    <3>3. \A d \in Callers : caller[d].pc # "store"
      BY <1>1, <3>2 DEF FlightInv, Shape
    <3>4. QED
      BY <1>5, <3>3 DEF FlightInv
  <2>5. QED
    BY <1>1, <1>2, <2>1, <2>2, <2>3, <2>4, PutWrites, CallerMoves
<1>6. QED
  BY <1>3, <1>4, <1>5

\* Delete empties the memory layer, after which nobody has loaded.
LEMMA DeleteFlight == ASSUME FlightInv, NEW c \in Callers, Delete(c) PROVE FlightInv'
<1>1. caller[c] \in Caller /\ caller \in [Callers -> Caller] /\ Shape(caller[c]) /\ caller[c].pc = "memory" /\ caller[c].op = "delete"
  BY DEF FlightInv, Delete
<1> DEFINE r == Goto(c, "allow")
<1>2. r \in Caller /\ r.second = caller[c].second /\ r.pc = "allow" /\ r.op = caller[c].op /\ r.what = caller[c].what
  BY <1>1, GotoFields DEF PCs
<1>3. caller' = [caller EXCEPT ![c] = r] /\ loads' = 0 /\ leader' = leader
  BY DEF Delete, Put
<1> HIDE DEF r
<1>4. Shape(r)
  BY <1>1, <1>2 DEF Shape
<1>5. caller' \in [Callers -> Caller] /\ caller'[c] = r /\ \A d \in Callers : d # c => caller'[d] = caller[d]
  BY <1>1, <1>2, <1>3, PutWrites
<1>6. QED
  BY <1>1, <1>2, <1>3, <1>4, <1>5 DEF FlightInv

\* The memory layer loses the key.
LEMMA EvictFlight == ASSUME FlightInv, Evict PROVE FlightInv'
  BY DEF FlightInv, Evict

\* A call that Redis does not serve, or no longer does, whatever happens to the
\* probes in flight.
LEMMA SkippedFlight ==
  ASSUME FlightInv, NEW c \in Callers, caller[c].pc \in {"allow", "redis"}, UNCHANGED <<memory, leader, loads>>,
         caller' = [caller EXCEPT ![c] = Skipped(c)] \/ caller' = [Abandoned EXCEPT ![c] = Skipped(c)]
  PROVE  FlightInv'
<1>1. caller \in [Callers -> Caller] /\ \A d \in Callers : caller[d] \in Caller
  BY DEF FlightInv
<1>2. Abandoned \in [Callers -> Caller] /\ \A d \in Callers : Alike(Abandoned[d], caller[d])
  <2>1. \A d \in Callers : [caller[d] EXCEPT !.late = TRUE] \in Caller /\ Alike([caller[d] EXCEPT !.late = TRUE], caller[d])
    BY <1>1, ZenonT(60) DEF Caller, Alike
  <2>2. QED
    BY <1>1, <2>1 DEF Abandoned, Alike
<1>3. Skipped(c) \in Caller
  BY SkippedShape
<1>4. /\ caller' \in [Callers -> Caller] /\ caller'[c] = Skipped(c)
      /\ \A d \in Callers : d # c => Alike(caller'[d], caller[d])
  BY <1>1, <1>2, <1>3 DEF Alike
<1>5. Loading(caller'[c]) => loads = 0
  BY <1>4, SkippedShape DEF FlightInv
<1>6. QED
  BY <1>4, <1>5, SkippedShape, CallerMoves

\* A call the breaker lets through is about to be made.
LEMMA AsksFlight ==
  ASSUME FlightInv, NEW c \in Callers, NEW p \in BOOLEAN, caller[c].pc = "allow", UNCHANGED <<memory, leader, loads>>, caller' = Asks(c, p)
  PROVE  FlightInv'
<1> DEFINE r == [caller[c] EXCEPT !.pc = "redis", !.probe = p]
<1>1. caller[c] \in Caller /\ caller \in [Callers -> Caller] /\ Shape(caller[c])
  BY DEF FlightInv
<1>2. /\ r \in Caller /\ r.pc = "redis" /\ r.op = caller[c].op /\ r.what = caller[c].what
      /\ r.second = caller[c].second /\ r.done = caller[c].done
  BY <1>1 DEF Caller
<1>3. caller' = [caller EXCEPT ![c] = r]
  BY DEF Asks
<1> HIDE DEF r
<1>4. Shape(r) /\ (Loading(r) => Loading(caller[c]))
  BY <1>1, <1>2 DEF Shape, Loading
<1>5. Loading(r) => loads = 0
  BY <1>4 DEF FlightInv
<1>6. QED
  BY <1>1, <1>2, <1>3, <1>4, <1>5, PutWrites, CallerMoves, ZenonT(60)

\* The breaker lets a call through, or it is skipped.
LEMMA AllowFlight == ASSUME FlightInv, NEW c \in Callers, allow(c) PROVE FlightInv'
<1>1. caller[c].pc = "allow" /\ UNCHANGED <<memory, leader, loads>>
  BY DEF allow, layers
<1>2. \/ caller' = Asks(c, FALSE) \/ caller' = Asks(c, TRUE)
      \/ caller' = [caller EXCEPT ![c] = Skipped(c)] \/ caller' = [Abandoned EXCEPT ![c] = Skipped(c)]
  BY DEF allow, Put
<1>3. QED
  BY <1>1, <1>2, AsksFlight, SkippedFlight

\* Redis answers.
LEMMA AnsweredFlight == ASSUME FlightInv, NEW c \in Callers, Answered(c) PROVE FlightInv'
<1>1. caller[c].pc = "redis" /\ UNCHANGED <<memory, leader, loads>>
  BY DEF Answered
<1>2. caller[c] \in Caller /\ caller \in [Callers -> Caller] /\ Shape(caller[c])
  BY DEF FlightInv
<1>3. CASE caller[c].what # "get" \/ ~ redis
  <2>1. caller' = [caller EXCEPT ![c] = Skipped(c)]
    BY <1>3 DEF Answered, Put, Skipped
  <2>2. QED
    BY <1>1, <2>1, SkippedFlight
<1>4. CASE caller[c].what = "get" /\ redis
  <2> DEFINE r == Goto(c, "fill")
  <2>1. caller' = [caller EXCEPT ![c] = r]
    BY <1>4 DEF Answered, Put
  <2>2. /\ r \in Caller /\ r.second = caller[c].second /\ r.pc = "fill" /\ r.op = caller[c].op
        /\ r.what = caller[c].what /\ r.done = caller[c].done
    BY <1>2, GotoFields DEF PCs
  <2> HIDE DEF r
  <2>3. Shape(r) /\ (Loading(r) => Loading(caller[c]))
    BY <1>1, <1>2, <1>4, <2>2 DEF Shape, Loading
  <2>4. Loading(r) => loads = 0
    BY <2>3 DEF FlightInv
  <2>5. QED
    BY <1>1, <1>2, <2>1, <2>2, <2>3, <2>4, PutWrites, CallerMoves
<1>5. QED
  BY <1>3, <1>4

\* A call of Redis fails.
LEMMA FailedFlight == ASSUME FlightInv, NEW c \in Callers, Failed(c) PROVE FlightInv'
<1>1. caller[c].pc = "redis" /\ UNCHANGED <<memory, leader, loads>>
  BY DEF Failed
<1>2. caller' = [caller EXCEPT ![c] = Skipped(c)] \/ caller' = [Abandoned EXCEPT ![c] = Skipped(c)]
  BY DEF Failed
<1>3. QED
  BY <1>1, <1>2, SkippedFlight

\* A call sticks.
LEMMA SticksFlight == ASSUME FlightInv, NEW c \in Callers, Sticks(c) PROVE FlightInv'
<1> DEFINE r == [caller[c] EXCEPT !.stuck = TRUE]
<1>1. caller[c] \in Caller /\ caller \in [Callers -> Caller] /\ Shape(caller[c]) /\ caller[c].pc = "redis"
  BY DEF FlightInv, Sticks
<1>2. /\ r \in Caller /\ r.done = caller[c].done /\ r.op = caller[c].op /\ r.what = caller[c].what
      /\ r.second = caller[c].second /\ r.pc = caller[c].pc
  BY <1>1 DEF Caller
<1>3. caller' = [caller EXCEPT ![c] = r] /\ UNCHANGED <<memory, leader, loads>>
  BY DEF Sticks, Put, layers
<1> HIDE DEF r
<1>4. Shape(r) /\ (Loading(r) => Loading(caller[c]))
  BY <1>1, <1>2 DEF Shape, Loading
<1>5. Loading(r) => loads = 0
  BY <1>4 DEF FlightInv
<1>6. QED
  BY <1>1, <1>2, <1>3, <1>4, <1>5, PutWrites, CallerMoves

\* What Redis had goes into the memory layer.
LEMMA FillFlight == ASSUME FlightInv, NEW c \in Callers, Fill(c) PROVE FlightInv'
<1>1. caller[c] \in Caller /\ caller \in [Callers -> Caller] /\ Shape(caller[c]) /\ caller[c].pc = "fill"
  BY DEF FlightInv, Fill
<1> DEFINE r == Hit(c)
<1>2. r \in Caller /\ Shape(r) /\ r.second = caller[c].second /\ ~ Loading(r) /\ r.pc \in {"idle", "land"}
  <2>1. CASE caller[c].second
    <3>1. Hit(c) = Goto(c, "land")
      BY <2>1 DEF Hit
    <3>2. r \in Caller /\ r.pc = "land" /\ r.second = caller[c].second /\ r.op = caller[c].op /\ r.what = caller[c].what
      BY <1>1, <3>1, GotoFields DEF PCs
    <3>3. QED
      BY <1>1, <2>1, <3>2 DEF Shape, Loading
  <2>2. CASE ~ caller[c].second
    <3>1. Hit(c) = Resting
      BY <2>2 DEF Hit
    <3>2. caller[c].second = FALSE /\ Resting.second = FALSE
      BY <1>1, <2>2 DEF Caller, Resting
    <3>3. QED
      BY <3>1, <3>2, RestingShape
  <2>3. QED
    BY <2>1, <2>2
<1>3. caller' = [caller EXCEPT ![c] = r] /\ memory' = TRUE /\ loads' = loads /\ leader' = leader
  BY DEF Fill, Put
<1> HIDE DEF r
<1>4. caller' \in [Callers -> Caller] /\ caller'[c] = r /\ \A d \in Callers : d # c => caller'[d] = caller[d]
  BY <1>1, <1>2, <1>3, PutWrites
<1>5. QED
  BY <1>1, <1>2, <1>3, <1>4 DEF FlightInv

\* A caller joins the call in flight, or becomes its leader and looks again.
LEMMA JoinFlight == ASSUME FlightInv, NEW c \in Callers, Join(c) PROVE FlightInv'
<1>1. caller[c] \in Caller /\ caller \in [Callers -> Caller] /\ Shape(caller[c]) /\ caller[c].pc = "join"
  BY DEF FlightInv, Join
<1>2. UNCHANGED <<memory, loads>>
  BY DEF Join, layers
<1>3. ~ caller[c].second /\ caller[c].what = "get" /\ caller[c].op = "load"
  BY <1>1 DEF Shape, Caller
<1>4. CASE leader = None /\ leader' = c /\ Put(c, [Goto(c, "memory") EXCEPT !.second = TRUE])
  <2> DEFINE g == Goto(c, "memory")
             r == [g EXCEPT !.second = TRUE]
  <2>1. g \in Caller /\ g.pc = "memory" /\ g.op = "load" /\ g.what = "get"
    BY <1>1, <1>3, GotoFields DEF PCs
  <2>2. caller' = [caller EXCEPT ![c] = r]
    BY <1>4 DEF Put
  <2> HIDE DEF g
  <2>3. r \in Caller /\ r.pc = "memory" /\ r.op = "load" /\ r.what = "get" /\ r.second = TRUE
    BY <2>1 DEF Caller
  <2> HIDE DEF r
  <2>4. Shape(r) /\ ~ Loading(r)
    BY <2>3 DEF Shape, Loading
  <2>5. caller' \in [Callers -> Caller] /\ caller'[c] = r /\ \A d \in Callers : d # c => caller'[d] = caller[d]
    BY <1>1, <2>2, <2>3, PutWrites
  <2>6. c # None
    BY CacheAssumption DEF None
  <2>7. \A d \in Callers : caller'[d].second <=> leader' = d
    <3>1. \A d \in Callers : ~ caller[d].second
      BY <1>4, CacheAssumption DEF FlightInv, None
    <3>2. QED
      BY <1>4, <2>3, <2>5, <3>1
  <2>8. loads' = 0 \/ memory' \/ \E d \in Callers : caller'[d].pc = "store"
    BY <1>1, <1>2, <2>3, <2>5 DEF FlightInv
  <2>9. QED
    BY <1>2, <1>4, <2>3, <2>4, <2>5, <2>6, <2>7, <2>8 DEF FlightInv
<1>5. CASE leader # None /\ Put(c, Goto(c, "wait")) /\ UNCHANGED leader
  <2> DEFINE r == Goto(c, "wait")
  <2>1. r \in Caller /\ r.pc = "wait" /\ r.op = "load" /\ r.what = "get" /\ r.second = caller[c].second
    BY <1>1, <1>3, GotoFields DEF PCs
  <2>2. caller' = [caller EXCEPT ![c] = r]
    BY <1>5 DEF Put
  <2> HIDE DEF r
  <2>3. Shape(r) /\ ~ Loading(r)
    BY <1>3, <2>1 DEF Shape, Loading
  <2>4. QED
    BY <1>1, <1>2, <1>5, <2>1, <2>2, <2>3, PutWrites, CallerMoves
<1>6. QED
  BY <1>4, <1>5 DEF Join

\* load returns a value: under a live ctx it is the first since the memory layer
\* lost the key.
LEMMA LoadedFlight == ASSUME FlightInv, NEW c \in Callers, Loaded(c) PROVE FlightInv'
<1>1. caller[c] \in Caller /\ caller \in [Callers -> Caller] /\ Shape(caller[c]) /\ caller[c].pc = "load"
  BY DEF FlightInv, Loaded
<1> DEFINE r == Goto(c, "store")
<1>2. /\ r \in Caller /\ r.pc = "store" /\ r.op = caller[c].op /\ r.what = caller[c].what
      /\ r.second = caller[c].second /\ r.done = caller[c].done
  BY <1>1, GotoFields DEF PCs
<1>3. caller' = [caller EXCEPT ![c] = r] /\ memory' = memory /\ leader' = leader
  BY DEF Loaded, Put, layers
<1> HIDE DEF r
<1>4. Shape(r) /\ ~ Loading(r)
  BY <1>1, <1>2 DEF Shape, Loading
<1>5. caller' \in [Callers -> Caller] /\ caller'[c] = r /\ \A d \in Callers : d # c => caller'[d] = caller[d]
  BY <1>1, <1>2, <1>3, PutWrites
<1>6. loads' \in Nat /\ loads' <= 1
  <2>1. loads \in Nat /\ loads <= 1
    BY DEF FlightInv
  <2>2. CASE caller[c].done
    BY <2>1, <2>2 DEF Loaded
  <2>3. CASE ~ caller[c].done
    <3>1. Loading(caller[c])
      BY <1>1, <2>3 DEF Loading, Shape, Caller
    <3>2. loads = 0
      BY <3>1 DEF FlightInv
    <3>3. QED
      BY <2>1, <3>2 DEF Loaded
  <2>4. QED
    BY <2>2, <2>3
<1>7. \A d \in Callers : ~ Loading(caller'[d])
  <2>1. ASSUME NEW d \in Callers, d # c PROVE ~ caller[d].second
    BY <1>1, <2>1 DEF FlightInv, Shape
  <2>2. QED
    BY <1>4, <1>5, <2>1 DEF Loading
<1>8. QED
  BY <1>1, <1>2, <1>3, <1>4, <1>5, <1>6, <1>7 DEF FlightInv

\* The call is over, by a value or by an error: nobody leads and nobody waits.
LEMMA OverFlight ==
  ASSUME FlightInv, NEW c \in Callers, caller[c].pc \in {"load", "land"}, leader' = None, UNCHANGED <<memory, loads>>,
         caller' = [Woken EXCEPT ![c] = Resting]
  PROVE  FlightInv'
<1>1. caller \in [Callers -> Caller] /\ \A d \in Callers : caller[d] \in Caller /\ Shape(caller[d])
  BY DEF FlightInv
<1>2. caller' \in [Callers -> Caller] /\ \A d \in Callers : caller'[d] = Resting \/ (d # c /\ caller'[d] = caller[d] /\ caller[d].pc # "wait")
  BY <1>1, RestingShape DEF Woken
<1>3. leader = c
  BY <1>1 DEF FlightInv, Shape
<1>4. \A d \in Callers : ~ caller'[d].second /\ Shape(caller'[d]) /\ ~ Loading(caller'[d]) /\ caller'[d].pc # "wait"
  BY <1>1, <1>2, <1>3, RestingShape DEF FlightInv, Loading
<1>5. loads' = 0 \/ memory'
  <2>1. \A d \in Callers : caller[d].pc # "store"
    BY <1>1, <1>3 DEF FlightInv, Shape
  <2>2. QED
    BY <2>1 DEF FlightInv
<1>6. \A d \in Callers : leader' # d
  BY CacheAssumption DEF None
<1>7. QED
  BY <1>2, <1>4, <1>5, <1>6 DEF FlightInv

\* The leader stores what it loaded.
LEMMA StoreFlight == ASSUME FlightInv, NEW c \in Callers, Store(c) PROVE FlightInv'
<1>1. caller[c] \in Caller /\ caller \in [Callers -> Caller] /\ Shape(caller[c]) /\ caller[c].pc = "store"
  BY DEF FlightInv, Store
<1> DEFINE g == Goto(c, "allow")
           r == [g EXCEPT !.what = "set"]
<1>2. g \in Caller /\ g.pc = "allow" /\ g.op = caller[c].op /\ g.second = caller[c].second
  BY <1>1, GotoFields DEF PCs
<1>3. caller' = [caller EXCEPT ![c] = r] /\ memory' = TRUE /\ UNCHANGED <<leader, loads>>
  BY DEF Store, Put
<1> HIDE DEF g
<1>4. r \in Caller /\ r.pc = "allow" /\ r.op = caller[c].op /\ r.what = "set" /\ r.second = caller[c].second
  BY <1>2 DEF Caller
<1> HIDE DEF r
<1>5. Shape(r) /\ ~ Loading(r)
  BY <1>1, <1>4 DEF Shape, Loading, Caller
<1>6. caller' \in [Callers -> Caller] /\ caller'[c] = r /\ \A d \in Callers : d # c => caller'[d] = caller[d]
  BY <1>1, <1>3, <1>4, PutWrites
<1>7. QED
  BY <1>1, <1>3, <1>4, <1>5, <1>6 DEF FlightInv

\* A waiter leaves.
LEMMA LeaveFlight == ASSUME FlightInv, NEW c \in Callers, Leave(c) PROVE FlightInv'
<1>1. caller[c] \in Caller /\ caller \in [Callers -> Caller] /\ Shape(caller[c]) /\ caller[c].pc = "wait"
  BY DEF FlightInv, Leave
<1>2. caller[c].second = FALSE /\ Resting.second = FALSE
  BY <1>1 DEF Shape, Caller, Resting
<1>3. caller' = [caller EXCEPT ![c] = Resting] /\ UNCHANGED <<memory, leader, loads>>
  BY DEF Leave, Put, layers
<1>4. QED
  BY <1>1, <1>2, <1>3, RestingShape, PutWrites, CallerMoves

\* Every step keeps the flight's part of the invariant.
LEMMA NextFlight == ASSUME FlightInv, [CacheNext]_cacheVars PROVE FlightInv'
<1>1. ASSUME NEW c \in Callers, Step(c) PROVE FlightInv'
  <2>1. CASE LoadFails(c) \/ Land(c)
    <3>1. caller[c].pc \in {"load", "land"} /\ leader' = None /\ UNCHANGED <<memory, loads>> /\ caller' = [Woken EXCEPT ![c] = Resting]
      BY <2>1 DEF LoadFails, Land, layers
    <3>2. QED
      BY <3>1, OverFlight
  <2>2. CASE Begin(c) \/ Get(c) \/ Delete(c) \/ allow(c) \/ Fill(c)
    BY <2>2, BeginFlight, GetFlight, DeleteFlight, AllowFlight, FillFlight
  <2>3. CASE Join(c) \/ Loaded(c) \/ Store(c) \/ Leave(c)
    BY <2>3, JoinFlight, LoadedFlight, StoreFlight, LeaveFlight
  <2>4. QED
    BY <1>1, <2>1, <2>2, <2>3 DEF Step
<1>2. ASSUME NEW c \in Callers, CallerCtxEnds(c) \/ Answered(c) \/ Failed(c) \/ Sticks(c) PROVE FlightInv'
  BY <1>2, CtxEndsFlight, AnsweredFlight, FailedFlight, SticksFlight
<1>3. CASE Evict
  BY <1>3, EvictFlight
<1>4. CASE Expire \/ RedisFails \/ RedisHeals \/ ResetPasses \/ ProbeHangs \/ UNCHANGED cacheVars
  <2>1. UNCHANGED <<caller, memory, leader, loads>>
    BY <1>4 DEF Expire, RedisFails, RedisHeals, ResetPasses, ProbeHangs, cacheVars, layers
  <2>2. QED
    BY <2>1, FlightFrame
<1>5. QED
  BY <1>1, <1>2, <1>3, <1>4 DEF CacheNext

-----------------------------------------------------------------------------
(* The breaker.                                                            *)

\* An outcome is counted only in the state that let the call through; counted
\* failures are blamed on Redis, and an answer forgives both counts.
LEMMA RecordBreaker ==
  ASSUME BreakerInv, NEW ok \in BOOLEAN, NEW probe \in BOOLEAN, NEW gaveUp \in BOOLEAN,
         record(ok, probe, gaveUp), Blame(ok, gaveUp), ok => ~ gaveUp
  PROVE  /\ BreakerInv'
         /\ state = "closed" /\ state' = "open" => blamed' >= Threshold
         /\ state # "closed" /\ ~ probe => state' = state /\ streak' = streak
<1> USE CacheAssumption DEF record, Count
<1>1. CASE state = "closed"
  <2>1. /\ failures \in Nat /\ blamed \in Nat /\ failures <= blamed /\ failures < Threshold
    BY <1>1 DEF BreakerInv
  <2>2. CASE ok
    <3>1. state' = "closed" /\ failures' = 0
      BY <1>1, <2>2
    <3>2. blamed' = 0
      BY <1>1, <2>2 DEF Blame
    <3>3. QED
      BY <1>1, <3>1, <3>2 DEF BreakerInv
  <2>3. CASE ~ ok /\ gaveUp
    <3>1. state' = "closed" /\ failures' = failures
      BY <1>1, <2>3
    <3>2. blamed' = blamed
      BY <1>1, <2>3 DEF Blame
    <3>3. QED
      BY <1>1, <2>1, <3>1, <3>2 DEF BreakerInv
  <2>4. CASE ~ ok /\ ~ gaveUp
    <3>1. failures' = failures + 1 /\ state' = IF failures + 1 >= Threshold THEN "open" ELSE "closed"
      BY <1>1, <2>4
    <3>2. blamed' = IF blamed < Threshold THEN blamed + 1 ELSE blamed
      BY <1>1, <2>4 DEF Blame
    <3> HIDE DEF record, Count
    <3>3. QED
      BY <1>1, <2>1, <3>1, <3>2 DEF BreakerInv
  <2>5. QED
    BY <2>2, <2>3, <2>4
<1>2. CASE state # "closed"
  <2>1. state \in {"open", "halfOpen"} /\ failures \in Nat /\ blamed \in Nat
    BY <1>2 DEF BreakerInv
  <2>2. blamed' \in Nat
    BY <2>1 DEF Blame
  <2>3. ~ probe => state' = state /\ streak' = streak
    BY <1>2, <2>1
  <2>4. failures' \in Nat /\ state' \in {"closed", "open", "halfOpen"} /\ (state' = "closed" => failures' = 0)
    BY <1>2, <2>1
  <2>5. state' = "closed" => failures' <= blamed' /\ failures' < Threshold
    BY <2>2, <2>4
  <2>6. QED
    BY <1>2, <2>2, <2>3, <2>4, <2>5 DEF BreakerInv
<1>3. QED
  BY <1>1, <1>2

\* What the breaker may do in a step: the two halves of BreakerSteady.
Opens == (state = "closed" /\ state' = "open") => blamed' >= Threshold
Straggles == \A c \in Callers :
  (caller[c].pc = "redis" /\ ~ caller[c].probe /\ caller'[c].pc # "redis" /\ state # "closed") => state' = state /\ streak' = streak

\* A caller's record written, probes given up on or not: nobody else leaves Redis.
LEMMA OthersStay ==
  ASSUME FlightInv, NEW d \in Callers, NEW r,
         caller' = [caller EXCEPT ![d] = r] \/ caller' = [Abandoned EXCEPT ![d] = r]
  PROVE  \A c \in Callers : c # d => caller'[c].pc = caller[c].pc
<1>1. caller \in [Callers -> Caller] /\ \A c \in Callers : caller[c] \in Caller
  BY DEF FlightInv
<1>2. \A c \in Callers : Abandoned[c].pc = caller[c].pc
  BY <1>1 DEF Abandoned, Caller
<1>3. DOMAIN Abandoned = Callers
  BY DEF Abandoned
<1>4. QED
  BY <1>1, <1>2, <1>3

\* The end of a call.
LEMMA CallEnds ==
  ASSUME FlightInv, BreakerInv, NEW d \in Callers, NEW ok \in BOOLEAN, NEW gaveUp \in BOOLEAN, NEW r,
         record(ok, caller[d].probe, gaveUp), Blame(ok, gaveUp), ok => ~ gaveUp,
         caller' = [caller EXCEPT ![d] = r] \/ caller' = [Abandoned EXCEPT ![d] = r]
  PROVE  BreakerInv' /\ Opens /\ Straggles
<1>1. caller[d] \in Caller
  BY DEF FlightInv
<1>2. caller[d].probe \in BOOLEAN
  BY <1>1 DEF Caller
<1>3. BreakerInv' /\ Opens /\ (state # "closed" /\ ~ caller[d].probe => state' = state /\ streak' = streak)
  BY <1>2, RecordBreaker DEF Opens
<1>4. \A c \in Callers : c # d => caller'[c].pc = caller[c].pc
  BY OthersStay
<1>5. QED
  BY <1>3, <1>4 DEF Straggles

\* A call asks the breaker, which may try again or give up on a probe but
\* closes for nobody.
LEMMA AllowBreaker == ASSUME FlightInv, BreakerInv, NEW d \in Callers, allow(d) PROVE BreakerInv' /\ Opens /\ Straggles
<1>1. caller[d].pc = "allow" /\ failures' = failures /\ blamed' = blamed
  BY DEF allow, breaker
<1>2. \/ state' = state
      \/ state # "closed" /\ state' \in {"open", "halfOpen"}
  BY DEF allow, breaker
<1>3. BreakerInv' /\ Opens
  BY <1>1, <1>2 DEF BreakerInv, Opens
<1>4. \E r : caller' = [caller EXCEPT ![d] = r] \/ caller' = [Abandoned EXCEPT ![d] = r]
  BY DEF allow, Put, Asks
<1>5. \A c \in Callers : c # d => caller'[c].pc = caller[c].pc
  BY <1>4, OthersStay
<1>6. Straggles
  BY <1>1, <1>5 DEF Straggles
<1>7. QED
  BY <1>3, <1>6

\* Every step does to the breaker only what it may.
LEMMA NextBreaker == ASSUME FlightInv, BreakerInv, [CacheNext]_cacheVars PROVE BreakerInv' /\ Opens /\ Straggles
<1>1. CASE UNCHANGED <<state, failures, streak, blamed>>
  <2>1. BreakerInv'
    BY <1>1, BreakerFrame
  <2>2. QED
    BY <1>1, <2>1 DEF Opens, Straggles
<1>2. ASSUME NEW c \in Callers, Step(c) PROVE UNCHANGED <<state, failures, streak, blamed>> \/ allow(c)
  BY <1>2 DEF Step, Begin, Get, Delete, Fill, Join, Loaded, LoadFails, Store, Land, Leave, breaker
<1>3. ASSUME NEW c \in Callers, Answered(c) PROVE BreakerInv' /\ Opens /\ Straggles
  <2>1. record(TRUE, caller[c].probe, FALSE) /\ Blame(TRUE, FALSE)
    BY <1>3 DEF Answered
  <2>2. \E r : caller' = [caller EXCEPT ![c] = r]
    BY <1>3 DEF Answered, Put
  <2>3. QED
    BY <2>1, <2>2, CallEnds
<1>4. ASSUME NEW c \in Callers, Failed(c) PROVE BreakerInv' /\ Opens /\ Straggles
  <2> DEFINE gaveUp == ~ caller[c].probe /\ caller[c].done
  <2>1. record(FALSE, caller[c].probe, gaveUp) /\ Blame(FALSE, gaveUp)
    BY <1>4 DEF Failed
  <2>2. gaveUp \in BOOLEAN
    OBVIOUS
  <2>3. caller' = [caller EXCEPT ![c] = Skipped(c)] \/ caller' = [Abandoned EXCEPT ![c] = Skipped(c)]
    BY <1>4 DEF Failed
  <2> HIDE DEF gaveUp
  <2>4. QED
    BY <2>1, <2>2, <2>3, CallEnds
<1>5. ASSUME NEW c \in Callers, CallerCtxEnds(c) \/ Sticks(c) PROVE UNCHANGED <<state, failures, streak, blamed>>
  BY <1>5 DEF CallerCtxEnds, Sticks, breaker
<1>6. ASSUME Evict \/ Expire \/ RedisFails \/ RedisHeals \/ ResetPasses \/ ProbeHangs \/ UNCHANGED cacheVars
      PROVE  UNCHANGED <<state, failures, streak, blamed>>
  BY <1>6 DEF Evict, Expire, RedisFails, RedisHeals, ResetPasses, ProbeHangs, cacheVars, breaker
<1>7. QED
  BY <1>1, <1>2, <1>3, <1>4, <1>5, <1>6, AllowBreaker DEF CacheNext

-----------------------------------------------------------------------------
\* Nobody calls, nothing is in memory and the breaker is closed.
LEMMA CacheInitInv == CacheInit => CacheInv
<1> SUFFICES ASSUME CacheInit PROVE CacheInv
  OBVIOUS
<1>1. caller \in [Callers -> Caller] /\ \A c \in Callers : caller[c] = Resting
  BY RestingShape DEF CacheInit
<1>2. leader = None /\ loads = 0 /\ \A c \in Callers : leader # c
  BY CacheAssumption DEF CacheInit, None
<1>3. FlightInv
  BY <1>1, <1>2, RestingShape DEF FlightInv
<1>4. BreakerInv
  BY CacheAssumption DEF CacheInit, BreakerInv
<1>5. QED
  BY <1>3, <1>4 DEF CacheInv

\* Every step keeps the inductive invariant.
LEMMA CacheNextInv == CacheInv /\ [CacheNext]_cacheVars => CacheInv'
  BY NextFlight, NextBreaker DEF CacheInv

\* The invariant says what the run checks: two callers in load are both the
\* leader, hence one.
LEMMA CacheInvImplies == CacheInv => FlightHolds
<1> SUFFICES ASSUME CacheInv PROVE FlightHolds
  OBVIOUS
<1> DEFINE S == {c \in Callers : caller[c].pc \in {"load", "store"}}
<1>1. \A c \in S : leader = c
  BY DEF CacheInv, FlightInv, Shape
<1>2. S = {} \/ S = {leader}
  BY <1>1
<1>3. Cardinality(S) <= 1
  <2>1. Cardinality({}) = 0 /\ Cardinality({leader}) = 1
    BY FS_EmptySet, FS_Singleton
  <2> HIDE DEF S
  <2>2. Cardinality(S) = 0 \/ Cardinality(S) = 1
    BY <1>2, <2>1
  <2>3. QED
    BY <2>2
<1>4. LoadedOnce
  BY <1>3 DEF LoadedOnce, CacheInv, FlightInv
<1>5. WaitersLed
  BY DEF WaitersLed, CacheInv, FlightInv, Shape
<1>6. QED
  BY <1>4, <1>5 DEF FlightHolds

\* The invariant holds in every reachable state.
LEMMA CacheSafe == CacheSpec => []CacheInv
<1>1. QED
  BY CacheInitInv, CacheNextInv, PTL DEF CacheSpec

\* GetOrLoad: one load serves everyone who missed and no waiter is left without
\* a leader, for any callers and whatever load, Redis and the contexts do.
THEOREM CacheFlightHolds == CacheSpec => []FlightHolds
<1>1. QED
  BY CacheSafe, CacheInvImplies, PTL

\* The breaker opens from closed only for Threshold failures of Redis since it
\* last answered, and calls that its present state did not let through neither
\* open nor close it: for any thresholds.
THEOREM CacheBreakerSteady == CacheSpec => BreakerSteady
<1>1. CacheInv /\ [CacheNext]_cacheVars => [Opens]_cacheVars /\ [Straggles]_cacheVars
  BY NextBreaker DEF CacheInv
<1>2. CacheSpec => [][Opens]_cacheVars /\ [][Straggles]_cacheVars
  BY <1>1, CacheSafe, PTL DEF CacheSpec
<1>3. QED
  BY <1>2 DEF BreakerSteady, OpensForCause, StragglersIgnored, Opens, Straggles

=============================================================================
