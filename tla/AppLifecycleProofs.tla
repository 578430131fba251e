------------------------- MODULE AppLifecycleProofs -------------------------
(***************************************************************************)
(* Proofs about AppLifecycle for any number of components, any budgets and *)
(* any number of signals.                                                  *)
(***************************************************************************)
EXTENDS AppLifecycle, FiniteSetTheorems, WellFoundedInduction, TLAPS

\* The types of the App's state; what bounds failed is FailedInv.
AppTypes ==
  /\ http \in BOOLEAN /\ hurry \in BOOLEAN /\ watched \in BOOLEAN /\ runCtx \in BOOLEAN
  /\ request \in BOOLEAN /\ probed \in BOOLEAN /\ ready \in BOOLEAN /\ draining \in BOOLEAN
  /\ fast \in BOOLEAN /\ errs \in BOOLEAN /\ quit \in BOOLEAN
  /\ registered \in 0 .. N /\ by \in {"none", "run", "close"}
  /\ phase \in {"new", "starting", "listen", "ready", "running", "drain", "shutdown", "cancel", "wait", "closing", "done"}
  /\ ctx \in {"live", "signal", "quit", "deadline"} /\ signals \in 0 .. MaxSignals
  /\ starter \in [1 .. N -> {"none", "running", "returned"}]
  /\ close \in [1 .. N -> {"idle", "running", "closed", "abandoned"}]
  /\ server \in {"off", "serving", "broken", "stopped", "forced"}
  /\ waiter \in {"idle", "waiting", "served", "gone"}
  /\ failed \in Nat /\ left \in 0 .. Budget /\ timer \in Nat /\ took \in Nat /\ rushed \in Nat

\* Who owns the App's life: Run starts every Starter, Close none, and whoever
\* was served in Close waited for the end.
LifeInv ==
  /\ by = "none" <=> phase = "new"
  /\ by = "close" => phase \in {"closing", "done"}
  /\ waiter = "served" => phase = "done"
  /\ by # "run" => \A i \in 1 .. N : starter[i] = "none"
  /\ by = "run" => \A i \in Comps \cap Starters : starter[i] # "none"

\* The server by phase: it is down, or was closed by force, from the phase
\* cancel on, and a request in flight then means by force.
ServerInv ==
  /\ server \in {"off", "stopped"} => ~ request
  /\ phase \in {"new", "starting", "listen"} => server = "off"
  /\ phase \in {"ready", "running"} => server \in {"off", "serving", "broken"}
  /\ phase \in {"drain", "shutdown"} => server \in {"serving", "broken"}
  /\ phase \in {"cancel", "wait", "closing", "done"} => server \in {"off", "stopped", "forced"}
  /\ ready => phase = "running"

\* Each entry of the failed channel is a Start that returned, or the server.
Returned == {i \in 1 .. N : starter[i] = "returned"}
FailedInv == failed <= Cardinality(Returned) + (IF server \in {"broken", "stopped", "forced"} THEN 1 ELSE 0)

\* What was given up on is reported.
ReportInv ==
  /\ server = "forced" => errs
  /\ \A i \in 1 .. N : close[i] = "abandoned" => errs
  /\ phase \in {"closing", "done"} => StartersDone \/ (left = 0 /\ errs)

\* Components close one by one from the last, and all of them before the end.
OrderInv ==
  /\ \A i \in 1 .. N : close[i] # "idle" =>
       /\ i \in Comps \cap Closers /\ phase \in {"closing", "done"}
       /\ \A j \in Comps \cap Closers : j > i => close[j] \in {"closed", "abandoned"}
  /\ phase = "done" => \A i \in Comps \cap Closers : close[i] \in {"closed", "abandoned"}

\* The components whose Close was called, and what the current one has left of
\* its grace.
Called == {i \in 1 .. N : close[i] # "idle"}
GraceLeft == IF Closing # {} THEN timer ELSE 0

\* The time a stop has taken, and the time it may still take, fit its budget
\* and one closeGrace for each Close called.
TimeInv ==
  /\ phase \in {"new", "starting", "listen", "ready", "running"} => took = 0 /\ rushed = 0 /\ ~ fast /\ ~ watched
  /\ GraceLeft <= Grace * Cardinality(Called)
  /\ took + left + GraceLeft <= Budget + Grace * Cardinality(Called)
  /\ fast => took + left + GraceLeft <= FastBudget + Grace * Cardinality(Called)
  /\ by = "run" /\ watched => rushed + left + GraceLeft <= FastBudget + Grace * Cardinality(Called)
  /\ by = "run" /\ ~ watched => rushed = 0

\* The inductive invariant.
AppInv == AppTypes /\ LifeInv /\ ServerInv /\ FailedInv /\ ReportInv /\ OrderInv /\ TimeInv

-----------------------------------------------------------------------------
\* A set of naturals that is not empty has a least element.
LEMMA LeastNatural ==
  ASSUME NEW T, T \subseteq Nat, T # {}
  PROVE  \E x \in T : \A y \in T : x <= y
<1>1. PICK x \in T : \A y \in T : ~ (<<y, x>> \in OpToRel(<, Nat))
  BY NatLessThanWellFounded, WFMin
<1>2. \A y \in T : ~ (y < x)
  BY <1>1 DEF OpToRel
<1>3. x \in Nat /\ \A y \in T : y \in Nat
  OBVIOUS
<1>4. QED
  BY <1>2, <1>3

\* closeAll finds the last component it has not closed.
LEMMA LastUnclosed ==
  ASSUME AppTypes, Unclosed # {}
  PROVE  Max(Unclosed) \in Unclosed /\ \A j \in Unclosed : j <= Max(Unclosed)
<1>1. N \in Nat /\ \A i \in Unclosed : i \in 1 .. N
  BY AppAssumption DEF AppTypes, Unclosed, Comps
<1> DEFINE T == {N - i : i \in Unclosed}
<1>2. T \subseteq Nat
  BY <1>1
<1>3. T # {}
  OBVIOUS
<1> HIDE DEF T
<1>4. PICK x \in T : \A y \in T : x <= y
  BY <1>2, <1>3, LeastNatural
<1>5. PICK i \in Unclosed : x = N - i
  BY DEF T
<1>6. ASSUME NEW j \in Unclosed PROVE i >= j
  <2>1. N - j \in T
    BY DEF T
  <2>2. N - i <= N - j
    BY <1>4, <1>5, <2>1
  <2>3. i \in Int /\ j \in Int /\ N \in Int
    BY <1>1
  <2>4. QED
    BY <2>2, <2>3
<1>7. \E k \in Unclosed : \A j \in Unclosed : k >= j
  BY <1>6
<1>8. Max(Unclosed) \in Unclosed /\ \A j \in Unclosed : Max(Unclosed) >= j
  BY <1>7 DEF Max
<1>9. QED
  BY <1>1, <1>8

\* The shorter of two times.
LEMMA MinOfTwo ==
  ASSUME NEW a \in Nat, NEW b \in Nat
  PROVE  Min({a, b}) \in Nat /\ Min({a, b}) <= a /\ Min({a, b}) <= b
<1>1. \E x \in {a, b} : \A y \in {a, b} : x <= y
  BY LeastNatural
<1>2. Min({a, b}) \in {a, b} /\ \A y \in {a, b} : Min({a, b}) <= y
  BY <1>1 DEF Min
<1>3. QED
  BY <1>2

\* The sets the invariant counts are finite.
LEMMA CountsAreNat ==
  /\ IsFiniteSet(1 .. N) /\ Cardinality(1 .. N) = N
  /\ \A S \in SUBSET (1 .. N) : IsFiniteSet(S) /\ Cardinality(S) \in Nat /\ Cardinality(S) <= N
<1>1. IsFiniteSet(1 .. N) /\ Cardinality(1 .. N) = N
  <2>1. N \in Nat /\ 1 \in Int /\ N \in Int
    BY AppAssumption
  <2>2. IsFiniteSet(1 .. N) /\ Cardinality(1 .. N) = IF 1 > N THEN 0 ELSE N - 1 + 1
    BY <2>1, FS_Interval
  <2>3. QED
    BY <2>1, <2>2
<1>2. QED
  BY <1>1, FS_Subset, FS_CardinalityType

\* More Closes called is no less time.
LEMMA GraceGrows ==
  ASSUME NEW a \in Nat, NEW b \in Nat, a <= b
  PROVE  Grace * a <= Grace * b
  BY AppAssumption

\* The invariant says what the runs check.
LEMMA AppInvImplies == AppInv => TypeOK /\ ReleasedInOrder /\ StopKeepsItsWord
<1> SUFFICES ASSUME AppInv PROVE TypeOK /\ ReleasedInOrder /\ StopKeepsItsWord
  OBVIOUS
<1> USE AppAssumption DEF AppInv
<1>1. TypeOK
  <2>1. Cardinality(Returned) \in Nat /\ Cardinality(Returned) <= N
    BY CountsAreNat DEF Returned
  <2>2. failed \in 0 .. N + 1
    BY <2>1 DEF FailedInv, AppTypes
  <2>3. {http, hurry, watched, runCtx, request, probed, ready, draining, fast, errs, quit} \subseteq BOOLEAN
    BY DEF AppTypes
  <2>4. QED
    BY <2>2, <2>3 DEF TypeOK, AppTypes, StopPhases
<1>2. ClosedInOrder
  BY DEF ClosedInOrder, OrderInv, ServerInv, ReportInv, AppTypes, Comps
<1>3. ReleasedByOne
  BY DEF ReleasedByOne, OrderInv, LifeInv
<1>4. NothingLeftSilently
  BY DEF NothingLeftSilently, ReportInv, AppTypes, Comps
<1>5. StopsInTime
  <2>1. Called \in SUBSET (1 .. N) /\ Called \subseteq Comps \cap Closers /\ Comps \cap Closers \in SUBSET (1 .. N)
    BY DEF Called, OrderInv, Comps
  <2>2. Cardinality(Called) \in Nat /\ Cardinality(Comps \cap Closers) \in Nat /\ Cardinality(Called) <= Cardinality(Comps \cap Closers)
    BY <2>1, CountsAreNat, FS_Subset
  <2>3. Grace * Cardinality(Called) <= Graces /\ Graces \in Nat /\ Grace * Cardinality(Called) \in Nat
    BY <2>2, GraceGrows DEF Graces
  <2>4. GraceLeft \in Nat /\ took \in Nat /\ rushed \in Nat /\ left \in Nat
    BY DEF GraceLeft, AppTypes
  <2>5. took <= Budget + Graces
    BY <2>3, <2>4 DEF TimeInv
  <2>6. fast => took <= FastBudget + Graces
    BY <2>3, <2>4 DEF TimeInv
  <2>7. by = "run" => rushed <= FastBudget + Graces
    BY <2>3, <2>4 DEF TimeInv, AppTypes
  <2>8. QED
    BY <2>5, <2>6, <2>7 DEF StopsInTime
<1>6. QED
  BY <1>1, <1>2, <1>3, <1>4, <1>5 DEF ReleasedInOrder, StopKeepsItsWord

\* No component is registered and nothing has happened.
LEMMA AppInitInv == Init => AppInv
<1> SUFFICES ASSUME Init PROVE AppInv
  OBVIOUS
<1> USE AppAssumption DEF Init
<1>1. AppTypes
  <2>1. starter \in [1 .. N -> {"none", "running", "returned"}] /\ close \in [1 .. N -> {"idle", "running", "closed", "abandoned"}]
    OBVIOUS
  <2>2. registered \in 0 .. N /\ signals \in 0 .. MaxSignals /\ left \in 0 .. Budget
    OBVIOUS
  <2>3. QED
    BY <2>1, <2>2 DEF AppTypes
<1>2. LifeInv /\ ServerInv /\ OrderInv
  BY DEF LifeInv, ServerInv, OrderInv, Comps
<1>3. ReportInv
  BY DEF ReportInv, StartersDone
<1>4. Returned = {} /\ Called = {} /\ Closing = {}
  BY DEF Returned, Called, Closing, Comps
<1>5. FailedInv /\ TimeInv
  BY <1>4, FS_EmptySet DEF FailedInv, TimeInv, GraceLeft
<1>6. QED
  BY <1>1, <1>2, <1>3, <1>5 DEF AppInv

-----------------------------------------------------------------------------
(* Frames: what keeps a part of the invariant when its variables stay.     *)

\* Two times add up to a time.
LEMMA SumIsNat == ASSUME NEW a \in Nat, NEW b \in Nat PROVE a + b \in Nat
  OBVIOUS

\* A tick on one clock is a tick less on another.
LEMMA TimesAddUp ==
  ASSUME NEW r \in Nat, NEW s \in Nat, NEW m \in Nat, NEW h \in Nat, s <= r + 1
  PROVE  s + m + h <= r + (m + h + 1)
  OBVIOUS

\* A Close brings its grace along.
LEMMA GraceFits ==
  ASSUME NEW x \in Nat, NEW y \in Nat, NEW z \in Nat, NEW c \in Nat, NEW d \in Nat, NEW g \in Nat,
         x + y <= z + c, g <= d
  PROVE  x + y + g <= z + (c + d)
  OBVIOUS

\* The accounting of time depends on the stop's clocks and on the Closes.
LEMMA TimeFrame ==
  ASSUME TimeInv, UNCHANGED <<registered, by, phase, close, fast, watched, left, timer, took, rushed>>
  PROVE  TimeInv'
<1>1. GraceLeft' = GraceLeft /\ Called' = Called
  BY DEF GraceLeft, Called, Closing, Comps
<1>2. QED
  BY <1>1 DEF TimeInv

\* A move between phases in none of which a Close runs costs no time; only a
\* stop that has begun may have taken some.
LEMMA TimeMoves ==
  ASSUME AppInv, UNCHANGED <<registered, by, close, fast, watched, left, took, rushed>>, timer' \in Nat, Closing = {},
         phase = "new" \/ phase' # "new",
         phase' \in {"starting", "listen", "ready", "running"} => phase \in {"new", "starting", "listen", "ready", "running"},
         Closing' = {}
  PROVE  TimeInv'
<1>1. GraceLeft' = GraceLeft /\ Called' = Called
  BY DEF GraceLeft, Called
<1>2. QED
  BY <1>1 DEF TimeInv, AppInv, AppTypes

\* Before a stop no time has been taken and no Close called.
LEMMA TimeAtRest ==
  ASSUME AppInv, UNCHANGED <<close, fast, watched, left, took, rushed>>,
         phase \in {"new", "starting", "listen", "ready", "running"}, phase' \in {"new", "starting", "listen", "ready", "running"}
  PROVE  TimeInv'
<1>1. Called' = {} /\ Closing' = {}
  BY DEF Called, Closing, AppInv, OrderInv
<1>2. GraceLeft' = 0 /\ Grace * Cardinality(Called') = 0
  BY <1>1, FS_EmptySet, AppAssumption DEF GraceLeft
<1>3. took = 0 /\ rushed = 0 /\ ~ fast /\ ~ watched /\ left \in Nat /\ left <= Budget
  BY AppAssumption DEF AppInv, TimeInv, AppTypes
<1>4. QED
  BY <1>2, <1>3, AppAssumption DEF TimeInv

\* The channel's bound depends on the Starters and the server.
LEMMA FailedFrame ==
  ASSUME AppInv, failed' \in Nat, failed' <= failed, UNCHANGED starter,
         server \in {"broken", "stopped", "forced"} => server' \in {"broken", "stopped", "forced"}
  PROVE  FailedInv'
<1>1. Returned' = Returned /\ Cardinality(Returned) \in Nat
  BY CountsAreNat DEF Returned
<1>2. QED
  BY <1>1 DEF FailedInv, AppInv, AppTypes

-----------------------------------------------------------------------------
(* One lemma per action.                                                   *)

\* Use registers a component while the App is new.
LEMMA UseInv == ASSUME AppInv, Use PROVE AppInv'
<1> USE AppAssumption DEF AppInv, Use, life, causes, serving, clocks
<1>1. AppTypes'
  BY DEF AppTypes
<1>2. LifeInv'
  BY DEF LifeInv, Comps
<1>3. ServerInv'
  BY DEF ServerInv, AppTypes
<1>4. FailedInv'
  BY FailedFrame DEF AppTypes
<1>5. ReportInv'
  BY DEF ReportInv, LifeInv, AppTypes
<1>6. OrderInv'
  BY DEF OrderInv, LifeInv, AppTypes
<1>7. TimeInv'
  BY TimeAtRest DEF LifeInv
<1>8. QED
  BY <1>1, <1>2, <1>3, <1>4, <1>5, <1>6, <1>7

\* Run starts every Starter.
LEMMA RunInv == ASSUME AppInv, Run PROVE AppInv'
<1> USE AppAssumption DEF AppInv, Run, life, causes, serving, clocks
<1>1. AppTypes'
  BY DEF AppTypes
<1>2. LifeInv'
  BY DEF LifeInv, Comps
<1>3. ServerInv'
  BY DEF ServerInv, LifeInv
<1>4. FailedInv'
  <2>1. Returned = {} /\ Returned' = {}
    BY DEF Returned, LifeInv, AppTypes
  <2>2. QED
    BY <2>1 DEF FailedInv
<1>5. ReportInv'
  BY DEF ReportInv, LifeInv
<1>6. OrderInv'
  BY DEF OrderInv, LifeInv, AppTypes
<1>7. TimeInv'
  BY TimeAtRest DEF LifeInv
<1>8. QED
  BY <1>1, <1>2, <1>3, <1>4, <1>5, <1>6, <1>7

\* A Start returns and may leave one failure.
LEMMA StartReturnsInv == ASSUME NEW i \in 1 .. N, AppInv, StartReturns(i) PROVE AppInv'
<1> USE AppAssumption DEF AppInv, StartReturns, life, causes, serving, clocks
<1>1. AppTypes'
  <2>1. failed' \in Nat
    BY DEF AppTypes
  <2>2. QED
    BY <2>1 DEF AppTypes
<1>2. LifeInv'
  BY DEF LifeInv, Comps, AppTypes
<1>3. ServerInv'
  BY DEF ServerInv, AppTypes
<1>4. FailedInv'
  <2>1. Returned' = Returned \cup {i} /\ i \notin Returned
    BY DEF Returned, AppTypes
  <2>2. Cardinality(Returned') = Cardinality(Returned) + 1 /\ Cardinality(Returned) \in Nat
    <3>1. IsFiniteSet(Returned) /\ Cardinality(Returned) \in Nat
      BY CountsAreNat DEF Returned
    <3>2. QED
      BY <2>1, <3>1, FS_AddElement
  <2>3. failed' <= failed + 1 /\ failed \in Nat /\ failed' \in Nat /\ server' = server
    BY DEF AppTypes
  <2>4. QED
    BY <2>2, <2>3 DEF FailedInv
<1>5. ReportInv'
  BY DEF ReportInv, StartersDone, Comps, AppTypes
<1>6. OrderInv'
  BY DEF OrderInv, Comps
<1>7. TimeInv'
  BY TimeFrame
<1>8. QED
  BY <1>1, <1>2, <1>3, <1>4, <1>5, <1>6, <1>7

\* A signal ends the context, or hurries a stop.
LEMMA SignalInv == ASSUME NEW quits \in BOOLEAN, AppInv, Signal(quits) PROVE AppInv'
<1> USE AppAssumption DEF AppInv, Signal, life, causes, serving, clocks
<1>1. AppTypes'
  <2>1. signals' \in 0 .. MaxSignals
    BY DEF AppTypes
  <2>2. quit' \in BOOLEAN
    OBVIOUS
  <2>3. hurry' \in BOOLEAN
    BY DEF AppTypes
  <2>4. ctx' \in {"live", "signal", "quit", "deadline"}
    BY DEF AppTypes
  <2>5. QED
    BY <2>1, <2>2, <2>3, <2>4 DEF AppTypes
<1>2. LifeInv'
  BY DEF LifeInv, Comps
<1>3. ServerInv'
  BY DEF ServerInv, AppTypes
<1>4. FailedInv'
  BY FailedFrame DEF AppTypes
<1>5. ReportInv'
  BY DEF ReportInv, StartersDone, Comps
<1>6. OrderInv'
  BY DEF OrderInv, Comps
<1>7. TimeInv'
  BY TimeFrame
<1>8. QED
  BY <1>1, <1>2, <1>3, <1>4, <1>5, <1>6, <1>7

\* The context given to Run ends.
LEMMA DeadlineExpiresInv == ASSUME AppInv, DeadlineExpires PROVE AppInv'
<1> USE AppAssumption DEF AppInv, DeadlineExpires, life, causes, serving, clocks
<1>1. AppTypes'
  BY DEF AppTypes
<1>2. LifeInv'
  BY DEF LifeInv, Comps
<1>3. ServerInv'
  BY DEF ServerInv, AppTypes
<1>4. FailedInv'
  BY FailedFrame DEF AppTypes
<1>5. ReportInv'
  BY DEF ReportInv, StartersDone, Comps
<1>6. OrderInv'
  BY DEF OrderInv, Comps
<1>7. TimeInv'
  BY TimeFrame
<1>8. QED
  BY <1>1, <1>2, <1>3, <1>4, <1>5, <1>6, <1>7

\* The components are healthy.
LEMMA HealthyInv == ASSUME AppInv, Healthy PROVE AppInv'
<1> USE AppAssumption DEF AppInv, Healthy, life, causes, serving, clocks
<1>1. AppTypes'
  BY DEF AppTypes
<1>2. LifeInv'
  BY DEF LifeInv, Comps
<1>3. ServerInv'
  BY DEF ServerInv, AppTypes
<1>4. FailedInv'
  BY FailedFrame DEF AppTypes
<1>5. ReportInv'
  BY DEF ReportInv, StartersDone, Comps
<1>6. OrderInv'
  BY DEF OrderInv, Comps
<1>7. TimeInv'
  <2>1. Closing = {} /\ Closing' = {}
    BY DEF Closing, OrderInv, Comps, AppTypes
  <2>2. QED
    BY <1>1, <2>1, TimeMoves DEF AppTypes
<1>8. QED
  BY <1>1, <1>2, <1>3, <1>4, <1>5, <1>6, <1>7

\* The server listens.
LEMMA ListenInv == ASSUME AppInv, Listen PROVE AppInv'
<1> USE AppAssumption DEF AppInv, Listen, life, causes, serving, clocks
<1>1. AppTypes'
  BY DEF AppTypes
<1>2. LifeInv'
  BY DEF LifeInv, Comps
<1>3. ServerInv'
  BY DEF ServerInv, AppTypes
<1>4. FailedInv'
  BY FailedFrame DEF AppTypes, ServerInv
<1>5. ReportInv'
  BY DEF ReportInv, StartersDone, Comps
<1>6. OrderInv'
  BY DEF OrderInv, Comps
<1>7. TimeInv'
  <2>1. Closing = {} /\ Closing' = {}
    BY DEF Closing, OrderInv, Comps, AppTypes
  <2>2. QED
    BY <1>1, <2>1, TimeMoves DEF AppTypes
<1>8. QED
  BY <1>1, <1>2, <1>3, <1>4, <1>5, <1>6, <1>7

\* The App is ready.
LEMMA ReadyInv == ASSUME AppInv, Ready PROVE AppInv'
<1> USE AppAssumption DEF AppInv, Ready, life, causes, serving, clocks
<1>1. AppTypes'
  BY DEF AppTypes
<1>2. LifeInv'
  BY DEF LifeInv, Comps
<1>3. ServerInv'
  BY DEF ServerInv, AppTypes
<1>4. FailedInv'
  BY FailedFrame DEF AppTypes
<1>5. ReportInv'
  BY DEF ReportInv, StartersDone, Comps
<1>6. OrderInv'
  BY DEF OrderInv, Comps
<1>7. TimeInv'
  <2>1. Closing = {} /\ Closing' = {}
    BY DEF Closing, OrderInv, Comps, AppTypes
  <2>2. QED
    BY <1>1, <2>1, TimeMoves DEF AppTypes
<1>8. QED
  BY <1>1, <1>2, <1>3, <1>4, <1>5, <1>6, <1>7

\* A request or a probe comes while the server serves.
LEMMA RequestBeginsInv == ASSUME AppInv, RequestBegins PROVE AppInv'
<1> USE AppAssumption DEF AppInv, RequestBegins, life, causes, serving, clocks
<1>1. AppTypes'
  <2>1. request' \in BOOLEAN /\ probed' \in BOOLEAN
    BY DEF AppTypes
  <2>2. QED
    BY <2>1 DEF AppTypes
<1>2. LifeInv'
  BY DEF LifeInv, Comps
<1>3. ServerInv'
  BY DEF ServerInv, AppTypes
<1>4. FailedInv'
  BY FailedFrame DEF AppTypes
<1>5. ReportInv'
  BY DEF ReportInv, StartersDone, Comps
<1>6. OrderInv'
  BY DEF OrderInv, Comps
<1>7. TimeInv'
  BY TimeFrame
<1>8. QED
  BY <1>1, <1>2, <1>3, <1>4, <1>5, <1>6, <1>7

\* A request ends.
LEMMA RequestEndsInv == ASSUME AppInv, RequestEnds PROVE AppInv'
<1> USE AppAssumption DEF AppInv, RequestEnds, life, causes, serving, clocks
<1>1. AppTypes'
  <2>1. request' \in BOOLEAN
    OBVIOUS
  <2>2. QED
    BY <2>1 DEF AppTypes
<1>2. LifeInv'
  BY DEF LifeInv, Comps
<1>3. ServerInv'
  BY DEF ServerInv, AppTypes
<1>4. FailedInv'
  BY FailedFrame DEF AppTypes
<1>5. ReportInv'
  BY DEF ReportInv, StartersDone, Comps
<1>6. OrderInv'
  BY DEF OrderInv, Comps
<1>7. TimeInv'
  BY TimeFrame
<1>8. QED
  BY <1>1, <1>2, <1>3, <1>4, <1>5, <1>6, <1>7

\* The server breaks and leaves the one failure it may.
LEMMA ServeFailsInv == ASSUME AppInv, ServeFails PROVE AppInv'
<1> USE AppAssumption DEF AppInv, ServeFails, life, causes, serving, clocks
<1>1. AppTypes'
  BY DEF AppTypes
<1>2. LifeInv'
  BY DEF LifeInv, Comps
<1>3. ServerInv'
  BY DEF ServerInv, AppTypes
<1>4. FailedInv'
  <2>1. Returned' = Returned /\ Cardinality(Returned) \in Nat
    BY CountsAreNat DEF Returned
  <2>2. QED
    BY <2>1 DEF FailedInv, AppTypes
<1>5. ReportInv'
  BY DEF ReportInv, StartersDone, Comps
<1>6. OrderInv'
  BY DEF OrderInv, Comps
<1>7. TimeInv'
  BY TimeFrame
<1>8. QED
  BY <1>1, <1>2, <1>3, <1>4, <1>5, <1>6, <1>7

\* The drain ends.
LEMMA DrainEndsInv == ASSUME AppInv, DrainEnds PROVE AppInv'
<1> USE AppAssumption DEF AppInv, DrainEnds, life, causes, serving, clocks
<1>1. AppTypes'
  BY DEF AppTypes
<1>2. LifeInv'
  BY DEF LifeInv, Comps
<1>3. ServerInv'
  BY DEF ServerInv, AppTypes
<1>4. FailedInv'
  BY FailedFrame DEF AppTypes
<1>5. ReportInv'
  BY DEF ReportInv, StartersDone, Comps
<1>6. OrderInv'
  BY DEF OrderInv, Comps
<1>7. TimeInv'
  <2>1. Closing = {} /\ Closing' = {}
    BY DEF Closing, OrderInv, Comps, AppTypes
  <2>2. QED
    BY <1>1, <2>1, TimeMoves DEF AppTypes
<1>8. QED
  BY <1>1, <1>2, <1>3, <1>4, <1>5, <1>6, <1>7

\* The server is down, or closed by force, which is an error.
LEMMA ShutdownInv == ASSUME AppInv, Shutdown PROVE AppInv'
<1> USE AppAssumption DEF AppInv, Shutdown, life, causes, serving, clocks
<1>1. AppTypes'
  <2>1. errs' \in BOOLEAN
    BY DEF AppTypes
  <2>2. server' \in {"stopped", "forced"}
    OBVIOUS
  <2>3. QED
    BY <2>1, <2>2 DEF AppTypes
<1>2. LifeInv'
  BY DEF LifeInv, Comps
<1>3. ServerInv'
  BY DEF ServerInv, AppTypes
<1>4. FailedInv'
  BY FailedFrame DEF AppTypes
<1>5. ReportInv'
  BY DEF ReportInv, StartersDone, Comps
<1>6. OrderInv'
  BY DEF OrderInv, Comps
<1>7. TimeInv'
  <2>1. Closing = {} /\ Closing' = {}
    BY DEF Closing, OrderInv, Comps, AppTypes
  <2>2. QED
    BY <1>1, <2>1, TimeMoves DEF AppTypes
<1>8. QED
  BY <1>1, <1>2, <1>3, <1>4, <1>5, <1>6, <1>7

\* The Starters' context ends.
LEMMA CancelRunInv == ASSUME AppInv, CancelRun PROVE AppInv'
<1> USE AppAssumption DEF AppInv, CancelRun, life, causes, serving, clocks
<1>1. AppTypes'
  <2>1. runCtx' \in BOOLEAN
    OBVIOUS
  <2>2. QED
    BY <2>1 DEF AppTypes
<1>2. LifeInv'
  BY DEF LifeInv, Comps
<1>3. ServerInv'
  BY DEF ServerInv, AppTypes
<1>4. FailedInv'
  BY FailedFrame DEF AppTypes
<1>5. ReportInv'
  BY DEF ReportInv, StartersDone, Comps
<1>6. OrderInv'
  BY DEF OrderInv, Comps
<1>7. TimeInv'
  <2>1. Closing = {} /\ Closing' = {}
    BY DEF Closing, OrderInv, Comps, AppTypes
  <2>2. QED
    BY <1>1, <2>1, TimeMoves DEF AppTypes
<1>8. QED
  BY <1>1, <1>2, <1>3, <1>4, <1>5, <1>6, <1>7

\* The Starters have returned, or the budget is over, which is an error.
LEMMA AwaitStartersInv == ASSUME AppInv, AwaitStarters PROVE AppInv'
<1> USE AppAssumption DEF AppInv, AwaitStarters, life, causes, serving, clocks
<1>1. AppTypes'
  <2>1. errs' \in BOOLEAN
    BY DEF AppTypes
  <2>2. QED
    BY <2>1 DEF AppTypes
<1>2. LifeInv'
  BY DEF LifeInv, Comps
<1>3. ServerInv'
  BY DEF ServerInv, AppTypes
<1>4. FailedInv'
  BY FailedFrame DEF AppTypes
<1>5. ReportInv'
  BY DEF ReportInv, StartersDone, Comps
<1>6. OrderInv'
  BY DEF OrderInv, Comps
<1>7. TimeInv'
  <2>1. Closing = {} /\ Closing' = {}
    BY DEF Closing, OrderInv, Comps, AppTypes
  <2>2. QED
    BY <1>1, <2>1, TimeMoves DEF AppTypes
<1>8. QED
  BY <1>1, <1>2, <1>3, <1>4, <1>5, <1>6, <1>7

\* The last component not closed is closed: all after it have been.
LEMMA CloseOneInv == ASSUME AppInv, CloseOne PROVE AppInv'
<1> USE AppAssumption DEF AppInv, CloseOne, life, causes, serving, clocks
<1>1. AppTypes'
  <2>1. Max(Unclosed) \in 1 .. N
    BY LastUnclosed DEF AppTypes, Unclosed, Comps
  <2>2. QED
    BY <2>1 DEF AppTypes
<1>2. LifeInv'
  BY DEF LifeInv, Comps
<1>3. ServerInv'
  BY DEF ServerInv, AppTypes
<1>4. FailedInv'
  BY FailedFrame DEF AppTypes
<1>5. ReportInv'
  <2>1. \A i \in 1 .. N : close'[i] = "abandoned" => close[i] = "abandoned"
    BY DEF AppTypes
  <2>2. QED
    BY <2>1 DEF ReportInv, StartersDone, Comps
<1>6. OrderInv'
  <2> DEFINE m == Max(Unclosed)
  <2>1. m \in Unclosed /\ \A j \in Unclosed : j <= m
    BY LastUnclosed
  <2> HIDE DEF m
  <2>2. m \in Comps \cap Closers /\ m \in 1 .. N /\ close[m] = "idle"
    BY <2>1 DEF Unclosed, AppTypes, Comps
  <2>3. close'[m] = "running" /\ \A j \in 1 .. N : j # m => close'[j] = close[j]
    BY <2>2 DEF AppTypes, m
  <2>4. Comps' = Comps /\ Comps \subseteq 1 .. N
    BY DEF Comps, AppTypes
  <2>5. ASSUME NEW j \in Comps \cap Closers, j > m PROVE close[j] \in {"closed", "abandoned"}
    <3>1. close[j] # "idle"
      <4>1. j \notin Unclosed
        BY <2>1, <2>2, <2>4, <2>5
      <4>2. QED
        BY <4>1 DEF Unclosed
    <3>2. close[j] # "running"
      BY DEF Closing
    <3>3. QED
      BY <2>4, <3>1, <3>2 DEF AppTypes
  <2>6. ASSUME NEW i \in 1 .. N, close'[i] # "idle", NEW j \in Comps \cap Closers, j > i
        PROVE  close'[j] \in {"closed", "abandoned"}
    BY <2>2, <2>3, <2>4, <2>5, <2>6 DEF OrderInv
  <2>7. QED
    BY <2>2, <2>3, <2>4, <2>6 DEF OrderInv
<1>7. TimeInv'
  <2> DEFINE m == Max(Unclosed)
  <2>1. m \in 1 .. N /\ close[m] = "idle"
    BY LastUnclosed DEF AppTypes, Unclosed, Comps
  <2> HIDE DEF m
  <2>2. Called' = Called \cup {m} /\ m \notin Called
    BY <2>1 DEF Called, AppTypes, m
  <2>3. /\ IsFiniteSet(Called) /\ Cardinality(Called) \in Nat
    BY CountsAreNat DEF Called
  <2>4. Cardinality(Called') = Cardinality(Called) + 1
    BY <2>2, <2>3, FS_AddElement
  <2>5. Grace * Cardinality(Called') = Grace * Cardinality(Called) + Grace /\ Grace * Cardinality(Called) \in Nat
    BY <2>3, <2>4
  <2>6. GraceLeft = 0 /\ GraceLeft' \in 0 .. Grace
    BY DEF GraceLeft
  <2>7. /\ took' = took /\ rushed' = rushed /\ left' = left /\ fast' = fast /\ watched' = watched /\ by' = by /\ phase' = "closing"
        /\ took \in Nat /\ rushed \in Nat /\ left \in Nat /\ watched \in BOOLEAN
    BY DEF AppTypes
  <2> DEFINE G == Grace * Cardinality(Called)
  <2>8. /\ took + left <= Budget + G /\ (fast => took + left <= FastBudget + G)
        /\ by = "run" /\ watched => rushed + left <= FastBudget + G
        /\ by = "run" /\ ~ watched => rushed = 0
    BY <2>6, <2>7 DEF TimeInv
  <2>9. G \in Nat /\ Grace * Cardinality(Called') = G + Grace /\ G + Grace \in Nat
    BY <2>5
  <2>10. GraceLeft' \in Nat /\ GraceLeft' <= Grace /\ Budget \in Nat /\ FastBudget \in Nat /\ Grace \in Nat
    BY <2>6
  <2> HIDE DEF G, CloseOne, AppInv
  <2> HIDE AppAssumption
  <2>11. \A x, y, z \in Nat : x + y <= z + G => x + y + GraceLeft' <= z + (G + Grace)
    <3>1. G \in Nat
      BY <2>9
    <3>2. GraceLeft' \in Nat
      BY <2>10
    <3>3. GraceLeft' <= Grace /\ Grace \in Nat
      BY <2>10
    <3>4. QED
      BY <3>1, <3>2, <3>3, GraceFits, Zenon
  <2>12. GraceLeft' <= G + Grace
    BY <2>9, <2>10
  <2>13. /\ took + left + GraceLeft' <= Budget + (G + Grace)
         /\ fast => took + left + GraceLeft' <= FastBudget + (G + Grace)
         /\ by = "run" /\ watched => rushed + left + GraceLeft' <= FastBudget + (G + Grace)
    BY <2>7, <2>8, <2>10, <2>11
  <2>14. QED
    BY <2>7, <2>8, <2>9, <2>12, <2>13 DEF TimeInv
<1>8. QED
  BY <1>1, <1>2, <1>3, <1>4, <1>5, <1>6, <1>7

\* A Close returns.
LEMMA CloseReturnsInv == ASSUME NEW i \in 1 .. N, AppInv, CloseReturns(i) PROVE AppInv'
<1> USE AppAssumption DEF AppInv, CloseReturns, life, causes, serving, clocks
<1>1. AppTypes'
  <2>1. errs' \in BOOLEAN
    BY DEF AppTypes
  <2>2. close' \in [1 .. N -> {"idle", "running", "closed", "abandoned"}]
    BY DEF AppTypes
  <2>3. QED
    BY <2>1, <2>2 DEF AppTypes
<1>2. LifeInv'
  BY DEF LifeInv, Comps
<1>3. ServerInv'
  BY DEF ServerInv, AppTypes
<1>4. FailedInv'
  BY FailedFrame DEF AppTypes
<1>5. ReportInv'
  <2>1. \A j \in 1 .. N : close'[j] = "abandoned" => close[j] = "abandoned"
    BY DEF AppTypes
  <2>2. errs => errs'
    BY DEF AppTypes
  <2>3. QED
    BY <2>1, <2>2 DEF ReportInv, StartersDone, Comps
<1>6. OrderInv'
  <2>1. /\ close[i] = "running" /\ close'[i] \in {"closed", "abandoned"} /\ phase = "closing"
        /\ \A j \in 1 .. N : j # i => close'[j] = close[j]
    BY DEF Closing, AppTypes
  <2>2. Comps' = Comps /\ Comps \subseteq 1 .. N
    BY DEF Comps, AppTypes
  <2>3. QED
    BY <2>1, <2>2 DEF OrderInv
<1>7. TimeInv'
  <2>1. Called' = Called /\ GraceLeft' \in Nat /\ GraceLeft' <= GraceLeft /\ GraceLeft \in Nat
    <3>1. Called' = Called
      BY DEF Called, Closing, AppTypes
    <3>2. timer' = timer /\ timer \in Nat /\ Closing # {}
      BY DEF AppTypes
    <3>3. QED
      BY <3>1, <3>2 DEF GraceLeft
  <2>2. Cardinality(Called) \in Nat
    BY CountsAreNat DEF Called
  <2>3. Grace * Cardinality(Called) \in Nat
    BY <2>2
  <2>4. QED
    BY <2>1, <2>3, SMTT(30) DEF TimeInv, AppTypes
<1>8. QED
  BY <1>1, <1>2, <1>3, <1>4, <1>5, <1>6, <1>7

\* A Close is left behind, which is an error.
LEMMA AbandonInv == ASSUME NEW i \in 1 .. N, AppInv, Abandon(i) PROVE AppInv'
<1> USE AppAssumption DEF AppInv, Abandon, life, causes, serving, clocks
<1>1. AppTypes'
  BY DEF AppTypes
<1>2. LifeInv'
  BY DEF LifeInv, Comps
<1>3. ServerInv'
  BY DEF ServerInv, AppTypes
<1>4. FailedInv'
  BY FailedFrame DEF AppTypes
<1>5. ReportInv'
  BY DEF ReportInv, StartersDone, Comps
<1>6. OrderInv'
  <2>1. /\ close[i] = "running" /\ close'[i] \in {"closed", "abandoned"} /\ phase = "closing"
        /\ \A j \in 1 .. N : j # i => close'[j] = close[j]
    BY DEF Closing, AppTypes
  <2>2. Comps' = Comps /\ Comps \subseteq 1 .. N
    BY DEF Comps, AppTypes
  <2>3. QED
    BY <2>1, <2>2 DEF OrderInv
<1>7. TimeInv'
  <2>1. Called' = Called /\ GraceLeft' \in Nat /\ GraceLeft' <= GraceLeft /\ GraceLeft \in Nat
    <3>1. Called' = Called
      BY DEF Called, Closing, AppTypes
    <3>2. timer' = timer /\ timer \in Nat /\ Closing # {}
      BY DEF AppTypes
    <3>3. QED
      BY <3>1, <3>2 DEF GraceLeft
  <2>2. Cardinality(Called) \in Nat
    BY CountsAreNat DEF Called
  <2>3. Grace * Cardinality(Called) \in Nat
    BY <2>2
  <2>4. QED
    BY <2>1, <2>3, SMTT(30) DEF TimeInv, AppTypes
<1>8. QED
  BY <1>1, <1>2, <1>3, <1>4, <1>5, <1>6, <1>7

\* The last Close has been dealt with.
LEMMA FinishInv == ASSUME AppInv, Finish PROVE AppInv'
<1> USE AppAssumption DEF AppInv, Finish, life, causes, serving, clocks
<1>1. AppTypes'
  BY DEF AppTypes
<1>2. LifeInv'
  BY DEF LifeInv, Comps
<1>3. ServerInv'
  BY DEF ServerInv, AppTypes
<1>4. FailedInv'
  BY FailedFrame DEF AppTypes
<1>5. ReportInv'
  BY DEF ReportInv, StartersDone, Comps
<1>6. OrderInv'
  <2>1. ASSUME NEW i \in Comps \cap Closers PROVE close[i] \in {"closed", "abandoned"}
    BY DEF Closing, Unclosed, AppTypes, Comps
  <2>2. QED
    BY <2>1 DEF OrderInv, Comps
<1>7. TimeInv'
  <2>1. Closing = {} /\ Closing' = {}
    BY DEF Closing
  <2>2. QED
    BY <1>1, <2>1, TimeMoves DEF AppTypes
<1>8. QED
  BY <1>1, <1>2, <1>3, <1>4, <1>5, <1>6, <1>7

\* Close releases an App that Run never got.
LEMMA CloseInv == ASSUME AppInv, Close PROVE AppInv'
<1> USE AppAssumption DEF AppInv, Close, life, causes, serving, clocks
<1>1. AppTypes'
  BY DEF AppTypes
<1>2. LifeInv'
  BY DEF LifeInv, Comps
<1>3. ServerInv'
  BY DEF ServerInv, LifeInv
<1>4. FailedInv'
  BY FailedFrame DEF AppTypes
<1>5. ReportInv'
  BY DEF ReportInv, LifeInv, StartersDone, Comps, AppTypes
<1>6. OrderInv'
  BY DEF OrderInv, Comps
<1>7. TimeInv'
  <2>1. Called' = {} /\ Called = {} /\ Closing = {} /\ Closing' = {}
    BY DEF Called, Closing, OrderInv, LifeInv, AppTypes, Comps
  <2>2. GraceLeft' = 0 /\ Grace * Cardinality(Called') = 0
    BY <2>1, FS_EmptySet DEF GraceLeft
  <2>3. took' = 0 /\ rushed' = 0 /\ left' = Budget /\ by' = "close" /\ ~ fast' /\ phase' = "closing"
    BY DEF TimeInv, LifeInv
  <2>4. QED
    BY <2>2, <2>3 DEF TimeInv
<1>8. QED
  BY <1>1, <1>2, <1>3, <1>4, <1>5, <1>6, <1>7

\* Another Close waits.
LEMMA CloseWaitsInv == ASSUME AppInv, CloseWaits PROVE AppInv'
<1> USE AppAssumption DEF AppInv, CloseWaits, life, causes, serving, clocks
<1>1. AppTypes'
  BY DEF AppTypes
<1>2. LifeInv'
  BY DEF LifeInv, Comps
<1>3. ServerInv'
  BY DEF ServerInv, AppTypes
<1>4. FailedInv'
  BY FailedFrame DEF AppTypes
<1>5. ReportInv'
  BY DEF ReportInv, StartersDone, Comps
<1>6. OrderInv'
  BY DEF OrderInv, Comps
<1>7. TimeInv'
  BY TimeFrame
<1>8. QED
  BY <1>1, <1>2, <1>3, <1>4, <1>5, <1>6, <1>7

\* The waiting Close ends.
LEMMA CloseReleasedInv == ASSUME AppInv, CloseReleased PROVE AppInv'
<1> USE AppAssumption DEF AppInv, CloseReleased, life, causes, serving, clocks
<1>1. AppTypes'
  BY DEF AppTypes
<1>2. LifeInv'
  BY DEF LifeInv, Comps
<1>3. ServerInv'
  BY DEF ServerInv, AppTypes
<1>4. FailedInv'
  BY FailedFrame DEF AppTypes
<1>5. ReportInv'
  BY DEF ReportInv, StartersDone, Comps
<1>6. OrderInv'
  BY DEF OrderInv, Comps
<1>7. TimeInv'
  BY TimeFrame
<1>8. QED
  BY <1>1, <1>2, <1>3, <1>4, <1>5, <1>6, <1>7

\* stop's watcher caps what is left of the budget.
LEMMA HurryInv == ASSUME AppInv, Hurry PROVE AppInv'
<1> USE AppAssumption DEF AppInv, Hurry, life, causes, serving, clocks
<1>1. AppTypes'
  <2>1. left \in Nat /\ left <= Budget
    BY DEF AppTypes
  <2>2. Min({left, FastBudget}) \in Nat /\ Min({left, FastBudget}) <= left
    BY <2>1, MinOfTwo
  <2>3. left' \in 0 .. Budget
    BY <2>1, <2>2
  <2>4. QED
    BY <2>3 DEF AppTypes
<1>2. LifeInv'
  BY DEF LifeInv, Comps
<1>3. ServerInv'
  BY DEF ServerInv, AppTypes
<1>4. FailedInv'
  BY FailedFrame DEF AppTypes
<1>5. ReportInv'
  <2>1. left \in Nat
    BY DEF AppTypes
  <2>2. left = 0 => left' = 0
    BY <2>1, MinOfTwo
  <2>3. QED
    BY <2>2 DEF ReportInv, StartersDone, Comps
<1>6. OrderInv'
  BY DEF OrderInv, Comps
<1>7. TimeInv'
  <2>1. left \in Nat
    BY DEF AppTypes
  <2>2. left' \in Nat /\ left' <= left /\ left' <= FastBudget
    BY <2>1, MinOfTwo
  <2>3. GraceLeft' = GraceLeft /\ Called' = Called
    BY DEF GraceLeft, Called, Closing, Comps
  <2>4. GraceLeft \in Nat /\ took \in Nat /\ rushed \in Nat
    BY DEF GraceLeft, AppTypes
  <2>5. Cardinality(Called) \in Nat
    BY CountsAreNat DEF Called
  <2>6. Grace * Cardinality(Called) \in Nat
    BY <2>5
  <2>7. phase' \notin {"new", "starting", "listen", "ready", "running"} /\ watched'
    BY DEF StopPhases
  <2>8. took' = took /\ rushed' = rushed /\ fast' = fast /\ by' = "run" /\ rushed = 0
    BY DEF TimeInv, AppTypes
  <2> DEFINE G == Grace * Cardinality(Called)
  <2>9. /\ GraceLeft <= G /\ took + left + GraceLeft <= Budget + G
        /\ fast => took + left + GraceLeft <= FastBudget + G
    BY DEF TimeInv
  <2> HIDE DEF G
  <2>10. G \in Nat
    BY <2>6 DEF G
  <2>11. /\ took + left' + GraceLeft <= Budget + G
         /\ fast => took + left' + GraceLeft <= FastBudget + G
         /\ 0 + left' + GraceLeft <= FastBudget + G
    <3> HIDE DEF Hurry, AppInv
    <3>1. QED
      BY <2>1, <2>2, <2>4, <2>9, <2>10
  <2>12. QED
    <3> HIDE DEF Hurry, AppInv
    <3>1. QED
      BY <2>3, <2>7, <2>8, <2>9, <2>11 DEF TimeInv, G
<1>8. QED
  BY <1>1, <1>2, <1>3, <1>4, <1>5, <1>6, <1>7

\* Time passes in a stop that is blocked: it comes out of the budget, or out of the
\* grace of the Close that runs.
LEMMA TickInv == ASSUME AppInv, Tick PROVE AppInv'
<1> USE AppAssumption DEF AppInv, Tick, life, causes, serving, clocks
<1>1. AppTypes'
  <2>1. left' \in 0 .. Budget /\ timer' \in Nat /\ took' \in Nat /\ rushed' \in Nat
    BY DEF AppTypes
  <2>2. QED
    BY <2>1 DEF AppTypes
<1>2. LifeInv'
  BY DEF LifeInv, Comps
<1>3. ServerInv'
  BY DEF ServerInv, AppTypes
<1>4. FailedInv'
  BY FailedFrame DEF AppTypes
<1>5. ReportInv'
  <2>1. left = 0 => left' = 0
    BY DEF AppTypes
  <2>2. QED
    BY <2>1 DEF ReportInv, StartersDone, Comps
<1>6. OrderInv'
  BY DEF OrderInv, Comps
<1>7. TimeInv'
  <2>1. /\ left \in Nat /\ timer \in Nat /\ took \in Nat /\ rushed \in Nat
        /\ Called' = Called /\ Closing' = Closing /\ took' = took + 1
    BY DEF AppTypes, Called, Closing, Comps
  <2>2. Cardinality(Called) \in Nat
    BY CountsAreNat DEF Called
  <2>3. Grace * Cardinality(Called) \in Nat
    BY <2>2
  <2>4. phase \in {"drain", "shutdown", "wait", "closing"}
    BY DEF Blocked
  <2>5. left' + GraceLeft' + 1 = left + GraceLeft /\ GraceLeft' <= GraceLeft /\ GraceLeft \in Nat /\ GraceLeft' \in Nat /\ left' \in Nat
    <3>1. CASE left > 0
      <4>1. left' = left - 1
        BY <3>1
      <4>2. Closing # {} => timer' = timer
        BY <3>1, <2>1 DEF Closing
      <4>3. GraceLeft' = GraceLeft /\ GraceLeft \in Nat
        BY <2>1, <4>2 DEF GraceLeft
      <4>4. QED
        BY <2>1, <3>1, <4>1, <4>3
    <3>2. CASE left = 0
      <4>1. phase = "closing" /\ Closing # {} /\ timer > 0
        BY <3>2 DEF Blocked
      <4>2. left' = 0 /\ timer' = timer - 1
        BY <3>2, <4>1
      <4>3. GraceLeft = timer /\ GraceLeft' = timer - 1
        BY <2>1, <4>1, <4>2 DEF GraceLeft
      <4>4. QED
        BY <2>1, <3>2, <4>1, <4>2, <4>3
    <3>3. QED
      BY <2>1, <3>1, <3>2
  <2>6. by = "run" /\ ~ watched => rushed' = rushed
    BY DEF Blocked
  <2>7. rushed' <= rushed + 1 /\ rushed' \in Nat
    BY <2>1
  <2>8. by' = by /\ fast' = fast /\ watched' = watched /\ watched \in BOOLEAN /\ phase' = phase
    BY DEF AppTypes
  <2> DEFINE G == Grace * Cardinality(Called)
  <2>9. /\ GraceLeft <= G /\ took + left + GraceLeft <= Budget + G
        /\ fast => took + left + GraceLeft <= FastBudget + G
        /\ by = "run" /\ watched => rushed + left + GraceLeft <= FastBudget + G
        /\ by = "run" /\ ~ watched => rushed = 0
    BY DEF TimeInv
  <2> HIDE DEF G
  <2>10. G \in Nat
    BY <2>3 DEF G
  <2> HIDE DEF Tick, AppInv
  <2>11. GraceLeft' <= G /\ took' + left' + GraceLeft' = took + left + GraceLeft /\ rushed' + left' + GraceLeft' <= rushed + left + GraceLeft
    <3> HIDE DEF GraceLeft, Called
    <3>1. GraceLeft' <= G
      BY <2>5, <2>9, <2>10
    <3>2. took' = took + 1 /\ took \in Nat /\ rushed \in Nat /\ left \in Nat
      BY <2>1
    <3>3. left' \in Nat /\ GraceLeft' \in Nat /\ GraceLeft \in Nat /\ left' + GraceLeft' + 1 = left + GraceLeft /\ rushed' \in Nat /\ rushed' <= rushed + 1
      BY <2>5, <2>7
    <3> HIDE AppAssumption
    <3>4. took + left + GraceLeft = took + (left + GraceLeft) /\ rushed + left + GraceLeft = rushed + (left + GraceLeft)
      BY <3>2, <3>3
    <3>5. took + 1 + left' + GraceLeft' = took + (left' + GraceLeft' + 1)
      BY <3>2, <3>3
    <3>6. rushed' + left' + GraceLeft' <= rushed + (left' + GraceLeft' + 1)
      <4>1. left' \in Nat /\ GraceLeft' \in Nat
        BY <3>3
      <4>2. rushed \in Nat /\ rushed' \in Nat /\ rushed' <= rushed + 1
        BY <3>2, <3>3
      <4>3. QED
        BY <4>1, <4>2, TimesAddUp, Zenon
    <3>7. QED
      BY <3>1, <3>2, <3>3, <3>4, <3>5, <3>6
  <2>12. /\ took' + left' + GraceLeft' <= Budget + G
         /\ fast => took' + left' + GraceLeft' <= FastBudget + G
    BY <2>9, <2>11
  <2>13. by = "run" /\ watched => rushed' + left' + GraceLeft' <= FastBudget + G
    <3>1. rushed' + left' + GraceLeft' \in Nat /\ rushed + left + GraceLeft \in Nat /\ FastBudget + G \in Nat
      <4>1. FastBudget + G \in Nat
        BY <2>10
      <4>2. rushed' + left' \in Nat /\ rushed + left \in Nat /\ GraceLeft \in Nat /\ GraceLeft' \in Nat
        <5>1. rushed' \in Nat /\ left' \in Nat /\ GraceLeft \in Nat /\ GraceLeft' \in Nat /\ rushed \in Nat /\ left \in Nat
          BY <2>1, <2>5, <2>7
        <5>2. rushed' + left' \in Nat
          BY <5>1, SumIsNat, Zenon
        <5>3. rushed + left \in Nat
          BY <5>1, SumIsNat, Zenon
        <5>4. QED
          BY <5>1, <5>2, <5>3
      <4>3. rushed' + left' + GraceLeft' \in Nat
        BY <4>2, SumIsNat, Zenon
      <4>4. rushed + left + GraceLeft \in Nat
        BY <4>2, SumIsNat, Zenon
      <4>5. QED
        BY <4>1, <4>3, <4>4
    <3>2. QED
      BY <2>9, <2>11, <3>1
  <2>14. by = "run" /\ ~ watched => rushed' = 0
    BY <2>6, <2>9
  <2>15. QED
    BY <2>1, <2>4, <2>8, <2>11, <2>12, <2>13, <2>14 DEF TimeInv, G
<1>8. QED
  BY <1>1, <1>2, <1>3, <1>4, <1>5, <1>6, <1>7

\* What stop does first: it begins its budget, of which nothing has been used.
LEMMA StopBegins ==
  ASSUME NEW f \in BOOLEAN, NEW err \in BOOLEAN, AppInv, Stop(f, err), phase \in {"starting", "listen", "running"},
         failed' \in Nat, failed' <= failed
  PROVE  AppInv'
<1> USE AppAssumption DEF AppInv, Stop, life, causes
<1>1. /\ left' \in 0 .. Budget /\ (f => left' <= FastBudget) /\ timer' \in Nat
      /\ phase' \in {"cancel", "drain", "shutdown"}
  OBVIOUS
<1>2. AppTypes'
  <2>1. fast' \in BOOLEAN /\ watched' \in BOOLEAN /\ ready' \in BOOLEAN /\ draining' \in BOOLEAN /\ errs' \in BOOLEAN
    OBVIOUS
  <2>2. QED
    BY <1>1, <2>1 DEF AppTypes
<1>3. LifeInv'
  BY <1>1 DEF LifeInv, Comps
<1>4. ServerInv'
  BY DEF ServerInv, AppTypes
<1>5. FailedInv'
  BY FailedFrame
<1>6. OrderInv'
  BY <1>1 DEF OrderInv, Comps
<1>7. ReportInv'
  BY <1>1 DEF ReportInv, OrderInv, ServerInv, AppTypes
<1>8. TimeInv'
  <2>1. Called' = {} /\ Closing' = {}
    BY <1>1 DEF Called, Closing, OrderInv, AppTypes, Comps
  <2>2. GraceLeft' = 0 /\ Grace * Cardinality(Called') = 0
    BY <2>1, FS_EmptySet DEF GraceLeft
  <2>3. took' = 0 /\ rushed' = 0 /\ fast' = f /\ watched' = FALSE /\ by' = by
    BY DEF TimeInv
  <2>4. QED
    BY <1>1, <2>2, <2>3 DEF TimeInv
<1>9. QED
  BY <1>2, <1>3, <1>4, <1>5, <1>6, <1>7, <1>8

\* The four ways a stop begins: a start that fails, a server that cannot listen,
\* the end of the context and a failure while the App runs.
LEMMA StopsInv == ASSUME AppInv, StartFails \/ ListenFails \/ CtxDone \/ Failure PROVE AppInv'
<1>1. failed \in Nat
  BY DEF AppInv, AppTypes
<1>2. CASE StartFails
  <2>1. Stop(ctx = "quit", TRUE) /\ phase = "starting"
    BY <1>2 DEF StartFails
  <2>2. failed' \in Nat /\ failed' <= failed
    BY <1>1, <1>2 DEF StartFails
  <2>3. (ctx = "quit") \in BOOLEAN /\ TRUE \in BOOLEAN
    OBVIOUS
  <2>4. QED
    BY <2>1, <2>2, <2>3, StopBegins
<1>3. CASE ListenFails
  <2>1. Stop(FALSE, TRUE) /\ phase = "listen"
    BY <1>3 DEF ListenFails
  <2>2. failed' \in Nat /\ failed' <= failed
    BY <1>1, <1>3 DEF ListenFails
  <2>3. QED
    BY <2>1, <2>2, StopBegins
<1>4. CASE CtxDone
  <2>1. Stop(ctx = "quit", ctx = "deadline") /\ phase = "running"
    BY <1>4 DEF CtxDone
  <2>2. failed' \in Nat /\ failed' <= failed
    BY <1>1, <1>4 DEF CtxDone
  <2>3. (ctx = "quit") \in BOOLEAN /\ (ctx = "deadline") \in BOOLEAN
    OBVIOUS
  <2>4. QED
    BY <2>1, <2>2, <2>3, StopBegins
<1>5. CASE Failure
  <2>1. Stop(FALSE, TRUE) /\ phase = "running"
    BY <1>5 DEF Failure
  <2>2. failed' \in Nat /\ failed' <= failed
    BY <1>1, <1>5 DEF Failure
  <2>3. QED
    BY <2>1, <2>2, StopBegins
<1>6. QED
  BY <1>2, <1>3, <1>4, <1>5

-----------------------------------------------------------------------------
\* Every step keeps the inductive invariant.
LEMMA AppNextInv == AppInv /\ [Next]_vars => AppInv'
<1> SUFFICES ASSUME AppInv, [Next]_vars PROVE AppInv'
  OBVIOUS
<1>1. CASE Steps
  BY <1>1, HealthyInv, StopsInv, ListenInv, ReadyInv, DrainEndsInv, ShutdownInv, CancelRunInv, AwaitStartersInv, CloseOneInv,
     FinishInv, HurryInv, TickInv, AbandonInv DEF Steps
<1>2. CASE Use \/ Run \/ Close \/ CloseWaits \/ CloseReleased
  BY <1>2, UseInv, RunInv, CloseInv, CloseWaitsInv, CloseReleasedInv
<1>3. CASE (\E quits \in BOOLEAN : Signal(quits)) \/ DeadlineExpires \/ RequestBegins \/ RequestEnds \/ ServeFails
  BY <1>3, SignalInv, DeadlineExpiresInv, RequestBeginsInv, RequestEndsInv, ServeFailsInv
<1>4. CASE \E i \in 1 .. N : StartReturns(i) \/ CloseReturns(i)
  BY <1>4, StartReturnsInv, CloseReturnsInv
<1>5. CASE UNCHANGED vars
  <2> USE <1>5 DEF vars, life, causes, serving, clocks, AppInv
  <2>1. AppTypes' /\ LifeInv' /\ ServerInv'
    BY DEF AppTypes, LifeInv, ServerInv, Comps
  <2>2. FailedInv'
    BY FailedFrame DEF AppTypes
  <2>3. ReportInv' /\ OrderInv'
    BY DEF ReportInv, OrderInv, StartersDone, Comps
  <2>4. TimeInv'
    BY TimeFrame
  <2>5. QED
    BY <2>1, <2>2, <2>3, <2>4
<1>6. QED
  BY <1>1, <1>2, <1>3, <1>4, <1>5 DEF Next

\* The invariant holds in every reachable state.
THEOREM AppSafe == Spec => []AppInv
<1>1. QED
  BY AppInitInv, AppNextInv, PTL DEF Spec

\* The state stays within its types; failed never exceeds the capacity Run gives
\* its channel, so no Starter and not the server blocks on it.
THEOREM AppTypeCorrect == Spec => []TypeOK
<1>1. AppInv => TypeOK
  BY AppInvImplies
<1>2. QED
  BY <1>1, AppSafe, PTL

\* closeAll releases the components from the last to the first, once the server
\* is down and the Starters have returned or the budget is over, and whoever
\* finds the App finished finds every one released: for any components.
THEOREM AppReleasesInOrder == Spec => []ReleasedInOrder
<1>1. AppInv => ReleasedInOrder
  BY AppInvImplies
<1>2. QED
  BY <1>1, AppSafe, PTL

\* A stop takes its budget and one closeGrace for each Close at most, a fast or
\* hurried one fastStopBudget in place of its own, and what it gave up on it
\* reports: for any budgets and however the signals fall.
THEOREM AppStopKeepsItsWord == Spec => []StopKeepsItsWord
<1>1. AppInv => StopKeepsItsWord
  BY AppInvImplies
<1>2. QED
  BY <1>1, AppSafe, PTL

=============================================================================
