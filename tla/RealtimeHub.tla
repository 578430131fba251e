---------------------------- MODULE RealtimeHub ----------------------------
(***************************************************************************)
(* The realtime battery (realtime/hub.go, conn.go, replay.go, ws.go,       *)
(* sse.go, backplane.go): hubs publish events to the send queues of their  *)
(* subscribers, keep the latest ones so that a client can resume, drop     *)
(* slow consumers, and, with Redis, hand events to each other.             *)
(*                                                                         *)
(* What Hub.mu or conn.mu guards in one critical section is one action.    *)
(* An event is its position in the order of the Publish calls.  A client   *)
(* is the page of docs/realtime.md: it remembers the last event it saw,    *)
(* and reconnects with it when its connection ends.  Tickets are in module *)
(* RealtimeTickets.                                                        *)
(***************************************************************************)
EXTENDS ReplayRing, FiniteSets, SequencesExt

CONSTANTS
  Hubs,               \* the replicas
  Clients,            \* one user each
  HubTopics,
  Kinds,              \* the transports in use, of "ws" and "sse"
  SendBuffer, MaxSubscriptions,  \* Config
  Redis,              \* the hubs share a Redis backplane
  Faults,             \* what may happen: "retopic", a client changing its topics on an
                      \* open connection, "loss" of the backplane's connection or of a
                      \* PUBLISH, "cut" of a client's connection, its "end" by the
                      \* server, "disconnect" of a user, "close" of a hub
  Roams,              \* a client may reconnect to another replica
  MaxConns            \* bound: connections per client

ASSUME RealtimeAssumption ==
  /\ Kinds \subseteq {"ws", "sse"}
  /\ {SendBuffer, MaxSubscriptions, MaxConns} \subseteq Nat
  /\ SendBuffer > 0 /\ MaxSubscriptions > 0
  /\ Faults \subseteq {"retopic", "loss", "cut", "end", "disconnect", "close"}
  /\ {Redis, Roams} \subseteq BOOLEAN
  /\ Hubs # {} /\ IsFiniteSet(HubTopics)

VARIABLES
  log,      \* every event published: its topic and the hub it was published on
  replay,   \* hub -> its ring of the latest events
  closing,  \* hub -> how far Close is: open, closing, closed, late (gave up)
  backplane,\* hub -> its subscription: off (before Start), connecting, up, down, done
  inbox,    \* hub -> the messages Redis has for its subscription
  unsent,   \* events published and not yet handed to Redis
  conn,     \* <<client, n>> -> the n-th connection of the client
  cur,      \* client -> its latest connection
  last,     \* client -> the last event it saw, 0 for none
  seen,     \* client -> every event it saw
  wants,    \* client -> the topics it follows
  owed,     \* client -> events of those topics published since, not seen yet
  lost      \* hub -> events the backplane never brought it

clientVars == <<cur, last, seen, wants, owed>>
planeVars  == <<backplane, inbox, unsent, lost>>
hubVars == <<log, replay, closing, planeVars, conn, clientVars>>

Slots  == Clients \X (1 .. MaxConns)

Item == [kind : {"live", "replay", "reset", "refused"}, id : 0 .. MaxEvents, topic : HubTopics]

(* A conn and the goroutines of its handler.  phase is where the reader    *)
(* is: in Authorize (asking), registered and about to attach (ready), or   *)
(* between frames.  *)
Conn ==
  [hub : Hubs, kind : {"ws", "sse"}, phase : {"none", "asking", "ready", "idle", "gone"},
   registered : BOOLEAN, asked : SUBSET HubTopics, refused : SUBSET HubTopics, after : 0 .. MaxEvents,
   topics : SUBSET HubTopics, queue : Seq(Item), ended : BOOLEAN, fresh : BOOLEAN,
   wake : BOOLEAN, writer : {"waiting", "draining"}, cut : BOOLEAN]

noConn ==
  [hub |-> CHOOSE h \in Hubs : TRUE, kind |-> "ws", phase |-> "none", registered |-> FALSE,
   asked |-> {}, refused |-> {}, after |-> 0, topics |-> {}, queue |-> <<>>, ended |-> FALSE,
   fresh |-> TRUE, wake |-> FALSE, writer |-> "waiting", cut |-> FALSE]

HubInit ==
  /\ log = <<>>
  /\ replay = [h \in Hubs |-> newReplay]
  /\ closing = [h \in Hubs |-> "open"]
  /\ backplane = [h \in Hubs |-> "off"]
  /\ inbox = [h \in Hubs |-> <<>>]
  /\ unsent = {}
  /\ conn = [k \in Slots |-> noConn]
  /\ cur = [u \in Clients |-> 0]
  /\ last = [u \in Clients |-> 0]
  /\ seen = [u \in Clients |-> {}]
  /\ wants = [u \in Clients |-> {}]
  /\ owed = [u \in Clients |-> {}]
  /\ lost = [h \in Hubs |-> {}]

-----------------------------------------------------------------------------
(* A connection's queue.                                                   *)

cap_NoOwnEvents == SendBuffer + ReplaySize
cap == SendBuffer + ReplaySize + 2 * MaxSubscriptions

live(c) == Cardinality({i \in DOMAIN c.queue : c.queue[i].kind = "live"})

full(c, q) == (q.kind = "live" /\ live(c) >= SendBuffer) \/ Len(c.queue) >= cap

push(c, q) == IF c.ended THEN c ELSE [c EXCEPT !.queue = Append(@, q), !.wake = TRUE]

(* The writer of an ended connection only closes it.                       *)
end(c) == [c EXCEPT !.ended = TRUE, !.queue = <<>>, !.wake = FALSE, !.writer = "waiting"]

detachLocked(c, ts) == [c EXCEPT !.topics = @ \ ts]

dropLocked(c) == end(detachLocked(c, HubTopics))

On(h) == {k \in Slots : conn[k].registered /\ conn[k].hub = h}

-----------------------------------------------------------------------------
(* The elements of s at the positions I, in the order they have in s.      *)
Picked(s, I) == [j \in 1 .. Cardinality(I) |-> s[CHOOSE i \in I : Cardinality({x \in I : x <= i}) = j]]

(* since: the events of topics ts that the hub keeps after event e, oldest *)
(* first.                                                                  *)
since(h, e, ts) ==
  LET es == follow(replay[h], e)
  IN  Picked(es, {i \in DOMAIN es : log[es[i]].topic \in ts})

(* deliverLocked queues event e of topic t on the hub's subscribers; one   *)
(* that cannot take it is dropped.                                         *)
deliverLocked(h, e, t) ==
  LET q == [kind |-> "live", id |-> e, topic |-> t]
  IN  [k \in Slots |->
         LET c == conn[k]
         IN  IF c.hub # h \/ t \notin c.topics THEN c
             ELSE IF ~ c.ended /\ full(c, q) THEN dropLocked(c)
             ELSE push(c, q)]

Publish(h, t) ==
  LET e == Len(log) + 1
  IN  /\ e \in Events
      /\ log' = Append(log, [topic |-> t, hub |-> h])
      /\ replay' = [replay EXCEPT ![h] = add(@, e)]
      /\ conn' = deliverLocked(h, e, t)
      /\ unsent' = IF Redis THEN unsent \cup {e} ELSE unsent
      /\ owed' = [u \in Clients |-> owed[u] \cup (IF t \in wants[u] THEN {e} ELSE {})]
      /\ UNCHANGED <<closing, backplane, inbox, lost, cur, last, seen, wants>>

-----------------------------------------------------------------------------
(* The server's side of a connection: serveWS and serveSSE.                *)

(* The client's connection is over as far as it can tell.                  *)
Adrift(u) ==
  cur[u] # 0 => LET c == conn[<<u, cur[u]>>] IN c.cut \/ c.ended \/ c.phase = "gone"

Home(u, h) == (cur[u] # 0 /\ ~ Roams) => conn[<<u, cur[u]>>].hub = h

(* The App takes requests once the hub is healthy: with Redis, once it     *)
(* hears the other replicas.                                               *)
Serving(h) == Redis => backplane[h] \in {"up", "down"}

(* What the client's first frame, or its stream request, asks for.         *)
FirstTopics(u) == IF wants[u] # {} THEN {wants[u]} ELSE (SUBSET HubTopics) \ {{}}

(* serveWS up to register: a closed hub refuses, the client tries again.   *)
OpenWS(u, h) ==
  /\ Adrift(u) /\ Home(u, h) /\ cur[u] < MaxConns
  /\ "ws" \in Kinds /\ Serving(h)
  /\ closing[h] = "open"
  /\ cur' = [cur EXCEPT ![u] = @ + 1]
  /\ conn' = [conn EXCEPT ![<<u, cur[u] + 1>>] =
                [noConn EXCEPT !.hub = h, !.phase = "idle", !.registered = TRUE]]
  /\ UNCHANGED <<log, replay, closing, planeVars, last, seen, wants, owed>>

(* serveSSE up to check: the ticket is redeemed, nothing is registered.    *)
OpenSSE(u, h) ==
  /\ Adrift(u) /\ Home(u, h) /\ cur[u] < MaxConns
  /\ "sse" \in Kinds /\ Serving(h)
  /\ closing[h] = "open"
  /\ cur' = [cur EXCEPT ![u] = @ + 1]
  /\ \E ts \in FirstTopics(u) :
       /\ Cardinality(ts) <= MaxSubscriptions
       /\ conn' = [conn EXCEPT ![<<u, cur[u] + 1>>] =
                     [noConn EXCEPT !.hub = h, !.kind = "sse", !.phase = "asking",
                                    !.asked = ts, !.after = last[u], !.fresh = FALSE]]
  /\ UNCHANGED <<log, replay, closing, planeVars, last, seen, wants, owed>>

(* wsRead takes a subscribe frame: wsSubscribe up to check.  The first     *)
(* frame of a connection resumes after the last event seen; a later one    *)
(* adds topics.                                                            *)
wsSubscribe(k) ==
  LET c == conn[k]
      u == k[1]
  IN  /\ c.kind = "ws" /\ c.phase = "idle" /\ c.registered /\ ~ c.cut
      /\ c.fresh \/ "retopic" \in Faults
      /\ \E ts \in IF c.fresh THEN FirstTopics(u) ELSE (SUBSET (HubTopics \ c.topics)) \ {{}} :
           conn' = [conn EXCEPT ![k] =
             IF Cardinality(ts) > MaxSubscriptions - Cardinality(c.topics)
             THEN end(c)
             ELSE [c EXCEPT !.phase = "asking", !.asked = ts, !.fresh = FALSE,
                            !.after = IF c.fresh THEN last[u] ELSE 0]]
      /\ UNCHANGED <<log, replay, closing, planeVars, clientVars>>

EventsOf(ts) == {e \in DOMAIN log : log[e].topic \in ts}

(* wsRead takes an unsubscribe frame.                                      *)
Unsubscribe(k) ==
  LET c == conn[k]
      u == k[1]
  IN  /\ c.kind = "ws" /\ c.phase = "idle" /\ c.registered /\ ~ c.cut /\ ~ c.fresh
      /\ "retopic" \in Faults
      /\ \E ts \in (SUBSET c.topics) \ {{}} :
           /\ conn' = [conn EXCEPT ![k] = detachLocked(c, ts)]
           /\ wants' = [wants EXCEPT ![u] = @ \ ts]
           /\ owed' = [owed EXCEPT ![u] = @ \ EventsOf(ts)]
      /\ UNCHANGED <<log, replay, closing, planeVars, cur, last, seen>>

(* serveSSE after check, which runs Authorize outside the hub's lock: the  *)
(* stream registers only now, unless every topic is refused or the hub has *)
(* closed.                                                                 *)
register(k) ==
  LET c == conn[k]
  IN  /\ c.kind = "sse" /\ c.phase = "asking"
      /\ \E ok \in SUBSET c.asked :
           conn' = [conn EXCEPT ![k] =
             IF ok = {} \/ closing[c.hub] # "open"
             THEN [noConn EXCEPT !.hub = c.hub, !.kind = "sse", !.phase = "gone"]
             ELSE [c EXCEPT !.phase = "ready", !.asked = ok, !.refused = c.asked \ ok, !.registered = TRUE]]
      /\ UNCHANGED <<log, replay, closing, planeVars, clientVars>>

(* What attach queues: a refused event per refusal, then the events since  *)
(* the one the client resumes after, or a reset per topic.                 *)
OwnEvents(kind, ts, e) == [i \in 1 .. Cardinality(ts) |-> [kind |-> kind, id |-> e, topic |-> SetToSeq(ts)[i]]]
Replayed(es) == [i \in DOMAIN es |-> [kind |-> "replay", id |-> es[i], topic |-> log[es[i]].topic]]

frames_NoReset(c) ==
  OwnEvents("refused", c.refused, 0)
    \o (IF c.after = 0 \/ ~ kept(replay[c.hub], c.after) THEN <<>> ELSE Replayed(since(c.hub, c.after, c.asked)))
frames(c) ==
  OwnEvents("refused", c.refused, 0)
    \o (IF c.after = 0 THEN <<>>
        ELSE IF kept(replay[c.hub], c.after) THEN Replayed(since(c.hub, c.after, c.asked))
        ELSE OwnEvents("reset", c.asked, Len(log)))

(* attach subscribes and queues under one lock.  An ended connection is    *)
(* subscribed too and takes nothing.                                       *)
attachLocked(c) ==
  LET subscribed == [c EXCEPT !.topics = @ \cup c.asked, !.phase = "idle", !.asked = {}, !.refused = {},
                              !.after = 0, !.writer = IF c.kind = "sse" /\ ~ c.ended THEN "draining" ELSE @]
      fs == frames(c)
  IN  IF c.ended THEN subscribed
      ELSE IF Len(c.queue) + Len(fs) > cap THEN dropLocked(subscribed)
      ELSE [subscribed EXCEPT !.queue = @ \o fs, !.wake = @ \/ fs # <<>>]

(* check's verdict on the topics asked for: a WebSocket's comes now, a     *)
(* stream's came before it registered.                                     *)
Verdicts(c) ==
  IF c.kind = "sse" THEN {c}
  ELSE {[c EXCEPT !.asked = ok, !.refused = c.asked \ ok] : ok \in SUBSET c.asked}

Attach(k) ==
  LET u == k[1]
  IN  /\ conn[k].phase = IF conn[k].kind = "sse" THEN "ready" ELSE "asking"
      /\ \E c \in Verdicts(conn[k]) :
           LET forgiven  == EventsOf(c.refused) \cup (IF c.after = 0 THEN EventsOf(c.asked) ELSE {})
               listening == k[2] = cur[u] /\ ~ c.cut /\ ~ attachLocked(c).ended
           IN  /\ conn' = [conn EXCEPT ![k] = attachLocked(c)]
               /\ wants' = IF listening THEN [wants EXCEPT ![u] = (@ \cup c.asked) \ c.refused] ELSE wants
               /\ owed' = IF listening THEN [owed EXCEPT ![u] = @ \ forgiven] ELSE owed
      /\ UNCHANGED <<log, replay, closing, planeVars, cur, last, seen>>

(* The writer (wsWrite, sseStream.drain) sleeps until it is woken.         *)
Wake(k) ==
  /\ conn[k].phase = "idle" \/ conn[k].kind = "ws"
  /\ conn[k].writer = "waiting" /\ conn[k].wake
  /\ conn' = [conn EXCEPT ![k] = [@ EXCEPT !.writer = "draining", !.wake = FALSE]]
  /\ UNCHANGED <<log, replay, closing, planeVars, clientVars>>

Drained(k) ==
  /\ ~ conn[k].ended
  /\ conn[k].writer = "draining" /\ conn[k].queue = <<>>
  /\ conn' = [conn EXCEPT ![k].writer = "waiting"]
  /\ UNCHANGED <<log, replay, closing, planeVars, clientVars>>

(* pop and the write after it: the client sees the event unless its side   *)
(* of the connection is gone.  A reset makes the client read the state     *)
(* anew.                                                                   *)
pop_OnePerWake(k) ==
  LET c == conn[k]
      u == k[1]
      q == Head(c.queue)
      event == q.kind \in {"live", "replay"}
  IN  /\ c.writer = "draining" /\ c.queue # <<>> /\ ~ c.ended
      /\ conn' = [conn EXCEPT ![k].queue = Tail(@), ![k].writer = "waiting"]
      /\ last' = IF c.cut \/ ~ event THEN last ELSE [last EXCEPT ![u] = q.id]
      /\ seen' = IF c.cut \/ ~ event THEN seen ELSE [seen EXCEPT ![u] = @ \cup {q.id}]
      /\ owed' = IF c.cut THEN owed
                 ELSE [owed EXCEPT ![u] = @ \ (IF event THEN {q.id}
                                               ELSE IF q.kind = "reset" THEN {e \in EventsOf({q.topic}) : e <= q.id}
                                               ELSE {})]
      /\ UNCHANGED <<log, replay, closing, planeVars, cur, wants>>
pop(k) ==
  LET c == conn[k]
      u == k[1]
      q == Head(c.queue)
      event == q.kind \in {"live", "replay"}
  IN  /\ c.writer = "draining" /\ c.queue # <<>> /\ ~ c.ended
      /\ conn' = [conn EXCEPT ![k].queue = Tail(@)]
      /\ last' = IF c.cut \/ ~ event THEN last ELSE [last EXCEPT ![u] = q.id]
      /\ seen' = IF c.cut \/ ~ event THEN seen ELSE [seen EXCEPT ![u] = @ \cup {q.id}]
      /\ owed' = IF c.cut THEN owed
                 ELSE [owed EXCEPT ![u] = @ \ (IF event THEN {q.id}
                                               ELSE IF q.kind = "reset" THEN {e \in EventsOf({q.topic}) : e <= q.id}
                                               ELSE {})]
      /\ UNCHANGED <<log, replay, closing, planeVars, cur, wants>>

(* The network or the client breaks the connection; the server learns of   *)
(* it later, from a read, a write or a ping that fails.                    *)
Cut(k) ==
  /\ "cut" \in Faults
  /\ conn[k].phase \notin {"none", "gone"} /\ ~ conn[k].cut
  /\ conn' = [conn EXCEPT ![k].cut = TRUE]
  /\ UNCHANGED <<log, replay, closing, planeVars, clientVars>>

(* wsHeartbeat, a failed write or ConnectionTTL ends the connection.       *)
Ends(k) ==
  /\ "end" \in Faults \/ conn[k].cut
  /\ conn[k].registered /\ ~ conn[k].ended
  /\ conn' = [conn EXCEPT ![k] = end(@)]
  /\ UNCHANGED <<log, replay, closing, planeVars, clientVars>>

(* The handler returns: unregister.                                        *)
unregister_WhenCut(k) ==
  /\ conn[k].phase = "idle" /\ conn[k].registered
  /\ conn[k].cut
  /\ conn' = [conn EXCEPT ![k] = [noConn EXCEPT !.hub = conn[k].hub, !.kind = conn[k].kind, !.phase = "gone"]]
  /\ UNCHANGED <<log, replay, closing, planeVars, clientVars>>
unregister_StillSubscribed(k) ==
  /\ conn[k].phase = "idle" /\ conn[k].registered
  /\ conn[k].ended \/ conn[k].cut
  /\ conn' = [conn EXCEPT ![k] = [noConn EXCEPT !.hub = conn[k].hub, !.kind = conn[k].kind, !.phase = "gone",
                                                !.topics = conn[k].topics]]
  /\ UNCHANGED <<log, replay, closing, planeVars, clientVars>>
unregister(k) ==
  /\ conn[k].phase = "idle" /\ conn[k].registered
  /\ conn[k].ended \/ conn[k].cut
  /\ conn' = [conn EXCEPT ![k] = [noConn EXCEPT !.hub = conn[k].hub, !.kind = conn[k].kind, !.phase = "gone"]]
  /\ UNCHANGED <<log, replay, closing, planeVars, clientVars>>

-----------------------------------------------------------------------------
(* What the application does to a hub.                                     *)

Disconnect(h, u) ==
  /\ "disconnect" \in Faults
  /\ \E k \in On(h) : k[1] = u /\ ~ conn[k].ended
  /\ conn' = [k \in Slots |-> IF k \in On(h) /\ k[1] = u THEN dropLocked(conn[k]) ELSE conn[k]]
  /\ UNCHANGED <<log, replay, closing, planeVars, clientVars>>

(* The HTTP server's shutdown hook ends its streams.                       *)
endStreams(h) ==
  /\ "close" \in Faults
  /\ \E k \in On(h) : conn[k].kind = "sse" /\ ~ conn[k].ended
  /\ conn' = [k \in Slots |-> IF k \in On(h) /\ conn[k].kind = "sse" THEN end(conn[k]) ELSE conn[k]]
  /\ UNCHANGED <<log, replay, closing, planeVars, clientVars>>

Close(h) ==
  /\ "close" \in Faults
  /\ closing[h] = "open"
  /\ closing' = [closing EXCEPT ![h] = "closing"]
  /\ conn' = [k \in Slots |-> IF k \in On(h) THEN end(conn[k]) ELSE conn[k]]
  /\ UNCHANGED <<log, replay, planeVars, clientVars>>

(* Close waits for the handlers and the backplane, within its ctx.         *)
CloseReturns(h) ==
  /\ closing[h] = "closing"
  /\ On(h) = {} /\ backplane[h] \in {"off", "done"}
  /\ closing' = [closing EXCEPT ![h] = "closed"]
  /\ UNCHANGED <<log, replay, planeVars, conn, clientVars>>

CloseGivesUp(h) ==
  /\ closing[h] = "closing"
  /\ closing' = [closing EXCEPT ![h] = "late"]
  /\ UNCHANGED <<log, replay, planeVars, conn, clientVars>>

-----------------------------------------------------------------------------
(* The backplane.                                                          *)

Start(h) ==
  /\ Redis /\ closing[h] = "open" /\ backplane[h] = "off"
  /\ backplane' = [backplane EXCEPT ![h] = "connecting"]
  /\ UNCHANGED <<log, replay, closing, inbox, unsent, lost, conn, clientVars>>

(* Redis confirms the subscription: bp.up.                                 *)
Subscribed(h) ==
  /\ backplane[h] \in {"connecting", "down"}
  /\ backplane' = [backplane EXCEPT ![h] = "up"]
  /\ UNCHANGED <<log, replay, closing, inbox, unsent, lost, conn, clientVars>>

(* The connection fails, or stays silent through a ping: bp.down.  What    *)
(* Redis had for it is gone.                                               *)
Disconnected(h) ==
  /\ "loss" \in Faults /\ backplane[h] \in {"connecting", "up"}
  /\ backplane' = [backplane EXCEPT ![h] = "down"]
  /\ inbox' = [inbox EXCEPT ![h] = <<>>]
  /\ lost' = [lost EXCEPT ![h] = @ \cup {e \in Range(inbox[h]) : log[e].hub # h}]
  /\ UNCHANGED <<log, replay, closing, unsent, conn, clientVars>>

(* runBackplane returns once its ctx has ended, which Close makes sure of. *)
BackplaneStops(h) ==
  /\ backplane[h] \in {"connecting", "up", "down"}
  /\ closing[h] # "open"
  /\ backplane' = [backplane EXCEPT ![h] = "done"]
  /\ inbox' = [inbox EXCEPT ![h] = <<>>]
  /\ lost' = [lost EXCEPT ![h] = @ \cup {e \in Range(inbox[h]) : log[e].hub # h}]
  /\ UNCHANGED <<log, replay, closing, unsent, conn, clientVars>>

(* broadcast: PUBLISH reaches every hub subscribed now, the publisher too; *)
(* or it fails.                                                            *)
broadcast(e) ==
  LET reached == {h \in Hubs : backplane[h] = "up"}
      misses(hs) == lost' = [h \in Hubs |-> lost[h] \cup (IF h \notin hs \cup {log[e].hub} THEN {e} ELSE {})]
  IN  /\ e \in unsent
      /\ unsent' = unsent \ {e}
      /\ \/ /\ inbox' = [h \in Hubs |-> IF h \in reached THEN Append(inbox[h], e) ELSE inbox[h]]
            /\ misses(reached)
         \/ /\ "loss" \in Faults
            /\ UNCHANGED inbox
            /\ misses({})
      /\ UNCHANGED <<log, replay, closing, backplane, conn, clientVars>>

receive_KeepsEcho(h) ==
  /\ backplane[h] = "up" /\ inbox[h] # <<>>
  /\ inbox' = [inbox EXCEPT ![h] = Tail(@)]
  /\ replay' = [replay EXCEPT ![h] = add(@, Head(inbox[h]))]
  /\ conn' = deliverLocked(h, Head(inbox[h]), log[Head(inbox[h])].topic)
  /\ UNCHANGED <<log, closing, backplane, unsent, lost, clientVars>>
receive(h) ==
  LET e == Head(inbox[h])
  IN  /\ backplane[h] = "up" /\ inbox[h] # <<>>
      /\ inbox' = [inbox EXCEPT ![h] = Tail(@)]
      /\ \/ /\ log[e].hub = h
            /\ UNCHANGED <<replay, conn>>
         \/ /\ log[e].hub # h
            /\ replay' = [replay EXCEPT ![h] = add(@, e)]
            /\ conn' = deliverLocked(h, e, log[e].topic)
      /\ UNCHANGED <<log, closing, backplane, unsent, lost, clientVars>>

-----------------------------------------------------------------------------
Handler(k) == register(k) \/ Attach(k) \/ Wake(k) \/ Drained(k) \/ pop(k) \/ unregister(k)

HubNext ==
  \/ \E h \in Hubs, t \in HubTopics : Publish(h, t)
  \/ \E u \in Clients, h \in Hubs : OpenWS(u, h) \/ OpenSSE(u, h) \/ Disconnect(h, u)
  \/ \E k \in Slots : wsSubscribe(k) \/ Unsubscribe(k) \/ Cut(k) \/ Ends(k) \/ Handler(k)
  \/ \E h \in Hubs : endStreams(h) \/ Close(h) \/ CloseReturns(h) \/ CloseGivesUp(h)
                       \/ Start(h) \/ Subscribed(h) \/ Disconnected(h) \/ BackplaneStops(h) \/ receive(h)
  \/ \E e \in unsent : broadcast(e)

HubSpec == HubInit /\ [][HubNext]_hubVars

(* Go runs every runnable goroutine, so a handler past Authorize, a        *)
(* writer, the backplane loop and the goroutine of Close take their steps; *)
(* a ping tells the server of a broken connection.  Nothing makes          *)
(* Authorize return.                                                       *)
HubFairness ==
  /\ \A k \in Slots : /\ WF_hubVars(conn[k].phase = "ready" /\ Attach(k))
                        /\ WF_hubVars(Wake(k)) /\ WF_hubVars(Drained(k)) /\ WF_hubVars(pop(k))
                        /\ WF_hubVars(unregister(k))
  /\ \A h \in Hubs : WF_hubVars(CloseReturns(h)) /\ WF_hubVars(BackplaneStops(h))
LiveHub == HubSpec /\ HubFairness

-----------------------------------------------------------------------------
(* The connection a client is served on: subscribed, and neither side has  *)
(* given up on it.                                                         *)
Attended(k) == k[2] = cur[k[1]] /\ ~ conn[k].cut /\ ~ conn[k].ended /\ conn[k].registered

(* Where events, not the hub's own, wait in its queue, and which.          *)
Waiting(k) == {i \in DOMAIN conn[k].queue : conn[k].queue[i].kind \in {"live", "replay"}}
Queued(k)  == {conn[k].queue[i].id : i \in Waiting(k)}

(* The events a reset waiting in the queue tells the client to read anew.  *)
Reset(k) ==
  {e \in DOMAIN log : \E i \in DOMAIN conn[k].queue :
     /\ conn[k].queue[i].kind = "reset"
     /\ conn[k].queue[i].topic = log[e].topic
     /\ e <= conn[k].queue[i].id}

OnTheWay(h) == Range(inbox[h]) \cup unsent \cup lost[h]

(* Nothing is lost across reconnects ("nothing published meanwhile is      *)
(* lost", attach; docs/realtime.md: reconnect with after "and nothing is   *)
(* lost that the hub still keeps"): every event of a topic that a served   *)
(* client follows, published since it began to follow it, has been seen,   *)
(* or waits in its queue, or is covered by a reset that does, or has yet   *)
(* to reach the hub through the backplane.                                 *)
NothingMissed ==
  \A k \in Slots :
    Attended(k) => (owed[k[1]] \cap EventsOf(conn[k].topics)) \subseteq (Queued(k) \cup Reset(k) \cup OnTheWay(conn[k].hub))

(* docs/realtime.md:263-265: "A client that reconnects to another replica  *)
(* resumes there - unless that replica started after the event, which the  *)
(* client sees as a reset": a client that changes replica misses nothing   *)
(* either.                                                                 *)
ResumesOnAnyReplica == NothingMissed

(* Nothing is doubled: no event waits twice in a served client's queue,    *)
(* and none that the client has seen waits there, whether it came live or  *)
(* from the replay of attach.                                              *)
NothingDoubled ==
  \A k \in Slots :
    Attended(k) =>
      /\ Queued(k) \cap seen[k[1]] = {}
      /\ \A i, j \in Waiting(k) : conn[k].queue[i].id = conn[k].queue[j].id => i = j

(* On one replica the events of a connection come in the order they were   *)
(* published, and after the last one the client saw: resuming after it is  *)
(* enough.                                                                 *)
InOrder ==
  \A k \in Slots :
    Attended(k) => \A i \in Waiting(k) :
      /\ conn[k].queue[i].id > last[k[1]]
      /\ \A j \in Waiting(k) : i < j => conn[k].queue[i].id < conn[k].queue[j].id

(* On one replica the ring knows exactly the latest ReplaySize events -    *)
(* an evicted one is never found, a kept one never refused - and since     *)
(* returns all that followed, however often the ring has wrapped.          *)
RingIsLatest ==
  (~ Redis) => \A h \in Hubs, e \in DOMAIN log :
    /\ kept(replay[h], e) <=> e > Len(log) - ReplaySize
    /\ kept(replay[h], e) => follow(replay[h], e) = [i \in 1 .. Len(log) - e |-> e + i]

(* A client that resumes on one replica is sent all it missed, or a reset, *)
(* in order and once, because the ring knows exactly what it keeps.        *)
ResumedWhole == NothingMissed /\ InOrder /\ RingIsLatest

(* A client that stays on its replica gets each event the backplane brings *)
(* or the replica publishes, once.                                         *)
DeliveredWhole == NothingMissed /\ NothingDoubled

(* A connection that was ended - Disconnect after a revocation, Close, a   *)
(* drop, the end of its session - is sent nothing more, even by a          *)
(* subscription that Authorize was still deciding when it ended.           *)
EndedIsSilent == \A k \in Slots : conn[k].ended => conn[k].queue = <<>>

(* A connection whose handler has returned holds no subscription: Publish  *)
(* never meets it again.                                                   *)
SubscriptionsEnd == \A k \in Slots : conn[k].topics # {} => conn[k].registered

(* Close returned without an error only after every connection's handler,  *)
(* and none registers afterwards.                                          *)
QuietAfterClose == \A h \in Hubs : closing[h] = "closed" => On(h) = {}

(* The end of a connection, of its handler and of the hub are final: what  *)
(* runs beside them neither sends, subscribes nor registers afterwards.    *)
EndsForGood == EndedIsSilent /\ SubscriptionsEnd /\ QuietAfterClose

(* The queue has room for what one subscribe frame adds to the live events *)
(* that may wait (newConn): subscribing drops a connection as a slow       *)
(* consumer only when an earlier frame's events are still waiting.         *)
FrameFits ==
  [][\A k \in Slots :
       (Attach(k) /\ live(conn[k]) = Len(conn[k].queue)) => (conn'[k].ended = conn[k].ended)]_hubVars

(* An event that waits in the queue of a connection is sent, unless the    *)
(* connection ends.                                                        *)
QueuedIsSent == \A k \in Slots, e \in Events : (e \in Queued(k)) ~> (e \notin Queued(k))

(* The handler of an ended connection returns, unless Authorize holds it.  *)
SessionEnds == \A k \in Slots : (conn[k].ended /\ conn[k].registered) ~> (~ conn[k].registered \/ conn[k].phase = "asking")

=============================================================================
