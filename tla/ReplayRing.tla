----------------------------- MODULE ReplayRing -----------------------------
(***************************************************************************)
(* The ring buffer behind a hub's resume (realtime/replay.go): buf, head   *)
(* and n hold the latest events, first numbers the oldest of them, and pos *)
(* finds an event's number.  RealtimeHub keeps one per hub.                *)
(***************************************************************************)
EXTENDS Integers, Sequences

CONSTANTS
  ReplaySize, \* Config.Replay
  MaxEvents   \* bound: Publish calls

ASSUME RingAssumption == ReplaySize \in Nat /\ MaxEvents \in Nat

(* An event is the number of its Publish call.                             *)
Events == 1 .. MaxEvents

(* 0 is an empty cell; an event that pos does not hold has no number.      *)
Nil == 0
NoPos == -1

newReplay ==
  [buf |-> [i \in 0 .. ReplaySize - 1 |-> Nil], head |-> 0, n |-> 0, first |-> 0,
   pos |-> [e \in Events |-> NoPos]]

(* add's first half: make room by evicting the oldest event.               *)
evict(r) ==
  IF r.n < ReplaySize THEN r
  ELSE LET old == r.buf[r.head]
       IN  [r EXCEPT !.pos[old] = IF @ = r.first THEN NoPos ELSE @,
                     !.buf[r.head] = Nil, !.head = (@ + 1) % ReplaySize, !.first = @ + 1, !.n = @ - 1]

add(r, e) ==
  LET q == evict(r)
  IN  IF ReplaySize = 0 THEN r
      ELSE [q EXCEPT !.buf[(q.head + q.n) % ReplaySize] = e, !.pos[e] = q.first + q.n, !.n = @ + 1]

kept(r, e) == r.pos[e] # NoPos

(* since: what the ring holds after event e, oldest first.                 *)
follow(r, e) ==
  [i \in 1 .. r.first + r.n - 1 - r.pos[e] |-> r.buf[(r.head + (r.pos[e] + i - r.first)) % ReplaySize]]

=============================================================================
