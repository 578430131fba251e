--------------------------- MODULE RealtimeTickets ---------------------------
(***************************************************************************)
(* One-time tickets (realtime/ticket.go, issue and redeem of mount.go).    *)
(* A single replica keeps them in memTickets: byID, and order, from whose  *)
(* front expire pops the tickets that are spent or expired.  Replicas that *)
(* share Redis keep them there.  memTickets reads the clock before it      *)
(* takes its lock, so calls may enter it out of the order of their clock   *)
(* readings.                                                               *)
(***************************************************************************)
EXTENDS Integers, Sequences, FiniteSets, SequencesExt

CONSTANTS
  Tickets,  \* 256 random bits each: every issue draws a new one
  Calls,    \* calls of issue and redeem
  TTL,      \* Config.TicketTTL
  MaxTime   \* bound: the clock

ASSUME TicketsAssumption == TTL \in Nat \ {0} /\ MaxTime \in Nat

VARIABLES
  InRedis,     \* tickets live in Redis: chosen once, by New
  clock,
  byID,      \* ticket -> when it expires, 0 when it is not kept
  order,     \* tickets in the order put saw them
  call,      \* call -> what it does: idle, put or take of a ticket, at which time
  issued,    \* ticket -> when it expires, 0 before it is issued
  admitted   \* the redemptions that succeeded, in order: ticket and time

ticketVars == <<InRedis, clock, byID, order, call, issued, admitted>>

NoOp == [op |-> "idle", ticket |-> CHOOSE t \in Tickets : TRUE, now |-> 0]

TicketsInit ==
  /\ InRedis \in BOOLEAN
  /\ clock = 0
  /\ byID = [t \in Tickets |-> 0]
  /\ order = <<>>
  /\ call = [c \in Calls |-> NoOp]
  /\ issued = [t \in Tickets |-> 0]
  /\ admitted = <<>>

Tick ==
  /\ clock < MaxTime
  /\ clock' = clock + 1
  /\ UNCHANGED <<InRedis, byID, order, call, issued, admitted>>

(* A call reads the clock; its critical section comes later.               *)
Enter(c, op, t) ==
  /\ call[c].op = "idle"
  /\ op = "put" => issued[t] = 0 /\ \A d \in Calls : call[d].op = "put" => call[d].ticket # t
  /\ call' = [call EXCEPT ![c] = [op |-> op, ticket |-> t, now |-> clock]]
  /\ UNCHANGED <<InRedis, clock, byID, order, issued, admitted>>

(* memTickets.expire: the longest prefix of order that is spent or         *)
(* expired.                                                                *)
Alive(t, now) == byID[t] # 0 /\ now < byID[t]

expire(now) ==
  LET alive == {i \in DOMAIN order : Alive(order[i], now)}
  IN  IF alive = {} THEN Len(order) ELSE Min(alive) - 1

Kept(now) == [t \in Tickets |-> IF t \in Range(SubSeq(order, 1, expire(now))) THEN 0 ELSE byID[t]]
Rest(now) == SubSeq(order, expire(now) + 1, Len(order))

put(c) ==
  LET t == call[c].ticket
      now == call[c].now
  IN  /\ ~ InRedis /\ call[c].op = "put"
      /\ byID' = [Kept(now) EXCEPT ![t] = now + TTL]
      /\ order' = Append(Rest(now), t)
      /\ issued' = [issued EXCEPT ![t] = now + TTL]
      /\ call' = [call EXCEPT ![c] = NoOp]
      /\ UNCHANGED <<InRedis, clock, admitted>>

take(c) ==
  LET t == call[c].ticket
      now == call[c].now
  IN  /\ ~ InRedis /\ call[c].op = "take"
      /\ order' = Rest(now)
      /\ IF Kept(now)[t] # 0 /\ now < Kept(now)[t]
         THEN /\ byID' = [Kept(now) EXCEPT ![t] = 0]
              /\ admitted' = Append(admitted, [ticket |-> t, at |-> now])
         ELSE /\ byID' = Kept(now)
              /\ UNCHANGED admitted
      /\ call' = [call EXCEPT ![c] = NoOp]
      /\ UNCHANGED <<InRedis, clock, issued>>

(* redisTickets: SET NX with the TTL, GETDEL.  Redis reads its own clock   *)
(* when it runs the command, and forgets a key that has expired.  A reply  *)
(* may be lost: the caller then answers an error, whatever Redis did.      *)
putRedis(c) ==
  LET t == call[c].ticket
  IN  /\ InRedis /\ call[c].op = "put"
      /\ byID[t] = 0
      /\ byID' = [byID EXCEPT ![t] = clock + TTL]
      /\ issued' = [issued EXCEPT ![t] = clock + TTL]
      /\ call' = [call EXCEPT ![c] = NoOp]
      /\ UNCHANGED <<InRedis, clock, order, admitted>>

takeRedis_GetThenDel(c) ==
  LET t == call[c].ticket
  IN  /\ InRedis /\ call[c].op = "take"
      /\ \/ byID' = [byID EXCEPT ![t] = 0]
         \/ UNCHANGED byID
      /\ admitted' = IF clock < byID[t] THEN Append(admitted, [ticket |-> t, at |-> clock]) ELSE admitted
      /\ call' = [call EXCEPT ![c] = NoOp]
      /\ UNCHANGED <<InRedis, clock, order, issued>>
takeRedis(c) ==
  LET t == call[c].ticket
  IN  /\ InRedis /\ call[c].op = "take"
      /\ byID' = [byID EXCEPT ![t] = 0]
      /\ \/ /\ clock < byID[t]
            /\ admitted' = Append(admitted, [ticket |-> t, at |-> clock])
         \/ UNCHANGED admitted
      /\ call' = [call EXCEPT ![c] = NoOp]
      /\ UNCHANGED <<InRedis, clock, order, issued>>

TicketsNext ==
  \/ Tick
  \/ \E c \in Calls, t \in Tickets : Enter(c, "put", t) \/ Enter(c, "take", t)
  \/ \E c \in Calls : put(c) \/ take(c) \/ putRedis(c) \/ takeRedis(c)

TicketsSpec == TicketsInit /\ [][TicketsNext]_ticketVars

-----------------------------------------------------------------------------
(* A ticket opens one connection: no call that races a redemption of the   *)
(* same ticket succeeds too.                                               *)
RedeemedOnce ==
  \A i, j \in DOMAIN admitted : i # j => admitted[i].ticket # admitted[j].ticket

(* No ticket is redeemed after its TTL, even when a ticket put ahead of it *)
(* by a slower caller hides it from expire.                                *)
RedeemedInTime == \A r \in Range(admitted) : r.at < issued[r.ticket]

(* A ticket that is neither spent nor expired can be redeemed: expire      *)
(* never forgets it early.                                                 *)
GoodUntilExpiry ==
  (~ InRedis) => \A t \in Tickets :
    (clock < issued[t] /\ ~ \E r \in Range(admitted) : r.ticket = t) => byID[t] = issued[t]

(* Every ticket kept is in order, where a later call will find it expired: *)
(* tickets nobody redeems do not pile up.                                  *)
NoneLeaks == (~ InRedis) => \A t \in Tickets : byID[t] # 0 => t \in Range(order)

(* A ticket is good for one connection, until its TTL, and no longer kept. *)
TicketsHonoured == RedeemedOnce /\ RedeemedInTime /\ GoodUntilExpiry /\ NoneLeaks
=============================================================================
