--------------------------- MODULE RealtimeProofs ---------------------------
(***************************************************************************)
(* Proofs about RealtimeHub for any hubs, clients, topics, buffer and ring *)
(* sizes and any of the faults, with and without a backplane: the ends of  *)
(* connections and hubs are final; a client that stays where its events    *)
(* are heard of misses none and gets none twice; on one replica it gets    *)
(* them in order; a subscribe frame fits into the queue.  And about        *)
(* RealtimeTickets for any tickets, any concurrent calls and any lifetime, *)
(* in memory and in Redis.                                                 *)
(***************************************************************************)
EXTENDS RealtimeHub, RealtimeTickets, WellFoundedInduction, FiniteSetTheorems, TLAPS

-----------------------------------------------------------------------------
(* Connections.                                                            *)

\* A connection, its fields whatever they are.
Fields == {"hub", "kind", "phase", "registered", "asked", "refused", "after", "topics", "queue", "ended", "fresh",
           "wake", "writer", "cut"}
IsConn(c) == c = [f \in Fields |-> c[f]]

\* A connection that was ended waits for nothing; one that is subscribed, or
\* whose handler has registered it and not yet returned, is registered.
ConnOK(c) ==
  /\ IsConn(c)
  /\ c.ended => c.queue = <<>>
  /\ c.topics # {} => c.registered
  /\ c.phase \in {"ready", "idle"} \/ (c.kind # "sse" /\ c.phase = "asking") => c.registered

\* A hub whose Close returned has no connection left.
ClosedInv == \A h \in Hubs : closing[h] = "closed" => \A k \in Slots : ~ (conn[k].registered /\ conn[k].hub = h)

\* The inductive invariant.
HubInv ==
  /\ conn = [k \in Slots |-> conn[k]] /\ closing = [h \in Hubs |-> closing[h]]
  /\ \A k \in Slots : ConnOK(conn[k])
  /\ ClosedInv

-----------------------------------------------------------------------------
\* The invariant is what EndsForGood says, and more.
LEMMA HubInvEnds == HubInv => EndsForGood
<1>1. SUFFICES ASSUME HubInv PROVE EndsForGood
  OBVIOUS
<1>2. EndedIsSilent /\ SubscriptionsEnd
  BY <1>1 DEF HubInv, ConnOK, EndedIsSilent, SubscriptionsEnd
<1>3. QuietAfterClose
  BY <1>1 DEF HubInv, ClosedInv, QuietAfterClose, On
<1>4. QED
  BY <1>2, <1>3 DEF EndsForGood

\* What no connection is like.
LEMMA NoConnOK ==
  /\ ConnOK(noConn) /\ noConn.registered = FALSE /\ noConn.phase = "none" /\ noConn.topics = {} /\ noConn.ended = FALSE
  /\ noConn.queue = <<>> /\ noConn.kind = "ws"
<1> DEFINE h == CHOOSE h \in Hubs : TRUE
<1>1. /\ DOMAIN noConn = Fields
      /\ noConn = [hub |-> h, kind |-> "ws", phase |-> "none", registered |-> FALSE,
                   asked |-> {}, refused |-> {}, after |-> 0, topics |-> {}, queue |-> <<>>, ended |-> FALSE,
                   fresh |-> TRUE, wake |-> FALSE, writer |-> "waiting", cut |-> FALSE]
  BY DEF noConn, Fields
<1> HIDE DEF h
<1>2. IsConn(noConn)
  BY <1>1 DEF IsConn, Fields
<1>3. QED
  BY <1>2 DEF noConn, ConnOK

\* Connections change one by one: each stays right, on its hub, and registers
\* only while its hub is open.
LEMMA ConnsChange ==
  ASSUME HubInv, closing' = closing, conn' = [k \in Slots |-> conn'[k]],
         \A k \in Slots : \/ conn'[k] = conn[k]
                          \/ /\ ConnOK(conn'[k])
                             /\ conn'[k].registered => (conn[k].registered /\ conn'[k].hub = conn[k].hub) \/ closing[conn'[k].hub] = "open"
  PROVE  HubInv'
<1>1. \A k \in Slots : ConnOK(conn'[k])
  BY DEF HubInv
<1>2. ClosedInv'
  <2>1. SUFFICES ASSUME NEW h \in Hubs, closing[h] = "closed", NEW k \in Slots, conn'[k].registered, conn'[k].hub = h PROVE FALSE
    BY DEF ClosedInv
  <2>2. ~ (conn[k].registered /\ conn[k].hub = h)
    BY <2>1 DEF HubInv, ClosedInv
  <2>3. QED
    BY <2>1, <2>2
<1>3. QED
  BY <1>1, <1>2 DEF HubInv

\* The same for a step of one connection.
LEMMA ConnChanges ==
  ASSUME HubInv, closing' = closing, NEW k, NEW c, conn' = [conn EXCEPT ![k] = c], ConnOK(c),
         k \in Slots => (c.registered => (conn[k].registered /\ c.hub = conn[k].hub) \/ closing[c.hub] = "open")
  PROVE  HubInv'
<1>1. conn' = [j \in Slots |-> conn'[j]] /\ \A j \in Slots : conn'[j] = IF j = k THEN c ELSE conn[j]
  BY DEF HubInv
<1>2. QED
  BY <1>1, ConnsChange

\* end and dropLocked leave an ended connection on its hub.
LEMMA EndOK ==
  ASSUME NEW c, ConnOK(c)
  PROVE  /\ ConnOK(end(c)) /\ end(c).registered = c.registered /\ end(c).hub = c.hub
         /\ ConnOK(dropLocked(c)) /\ dropLocked(c).registered = c.registered /\ dropLocked(c).hub = c.hub
<1>1. IsConn(c)
  BY DEF ConnOK
<1>2. /\ IsConn(end(c)) /\ end(c).registered = c.registered /\ end(c).hub = c.hub /\ end(c).queue = <<>> /\ end(c).topics = c.topics
      /\ end(c).phase = c.phase /\ end(c).kind = c.kind
  BY <1>1 DEF IsConn, Fields, end
<1> DEFINE d == detachLocked(c, HubTopics)
<1>3. /\ IsConn(d) /\ d.registered = c.registered /\ d.hub = c.hub /\ d.queue = c.queue /\ d.topics = c.topics \ HubTopics
      /\ d.phase = c.phase /\ d.kind = c.kind /\ d.ended = c.ended
  BY <1>1 DEF IsConn, Fields, detachLocked
<1>4. dropLocked(c) = end(d)
  BY DEF dropLocked
<1> HIDE DEF d
<1>5. /\ IsConn(end(d)) /\ end(d).registered = d.registered /\ end(d).hub = d.hub /\ end(d).queue = <<>> /\ end(d).topics = d.topics
      /\ end(d).phase = d.phase /\ end(d).kind = d.kind
  BY <1>3 DEF IsConn, Fields, end
<1>6. QED
  BY <1>2, <1>3, <1>4, <1>5 DEF ConnOK

\* push adds to the queue of a connection that is not ended.
LEMMA PushOK ==
  ASSUME NEW c, NEW q, ConnOK(c)
  PROVE  ConnOK(push(c, q)) /\ push(c, q).registered = c.registered /\ push(c, q).hub = c.hub
<1>1. CASE c.ended
  BY <1>1 DEF push
<1>2. CASE ~ c.ended
  <2> DEFINE d == [c EXCEPT !.queue = Append(@, q), !.wake = TRUE]
  <2>1. push(c, q) = d
    BY <1>2 DEF push
  <2>2. IsConn(c)
    BY DEF ConnOK
  <2>3. IsConn(d) /\ d.registered = c.registered /\ d.hub = c.hub /\ d.ended = c.ended /\ d.topics = c.topics /\ d.phase = c.phase /\ d.kind = c.kind
    BY <2>2 DEF IsConn, Fields
  <2> HIDE DEF d
  <2>4. QED
    BY <1>2, <2>1, <2>3 DEF ConnOK
<1>3. QED
  BY <1>1, <1>2

\* A connection as its handler leaves it.
LEMMA GoneOK ==
  ASSUME NEW h, NEW kind
  PROVE  LET c == [noConn EXCEPT !.hub = h, !.kind = kind, !.phase = "gone"] IN ConnOK(c) /\ c.registered = FALSE
<1> DEFINE c == [noConn EXCEPT !.hub = h, !.kind = kind, !.phase = "gone"]
<1>1. IsConn(noConn)
  BY NoConnOK DEF ConnOK
<1>2. IsConn(c) /\ c.registered = noConn.registered /\ c.topics = noConn.topics /\ c.ended = noConn.ended /\ c.phase = "gone"
  BY <1>1 DEF IsConn, Fields
<1> HIDE DEF c
<1>3. ConnOK(c) /\ c.registered = FALSE
  BY <1>2, NoConnOK DEF ConnOK
<1>4. QED
  BY <1>3 DEF c

\* deliverLocked queues on each subscriber of the hub, or drops it.
LEMMA DeliverInv ==
  ASSUME HubInv, closing' = closing, NEW h, NEW e, NEW t, conn' = deliverLocked(h, e, t) PROVE HubInv'
<1> DEFINE q == [kind |-> "live", id |-> e, topic |-> t]
<1>1. conn' = [k \in Slots |-> IF conn[k].hub # h \/ t \notin conn[k].topics THEN conn[k]
                               ELSE IF ~ conn[k].ended /\ full(conn[k], q) THEN dropLocked(conn[k])
                               ELSE push(conn[k], q)]
  BY DEF deliverLocked
<1> HIDE DEF q
<1>2. ASSUME NEW k \in Slots
      PROVE  ConnOK(conn'[k]) /\ conn'[k].registered = conn[k].registered /\ conn'[k].hub = conn[k].hub
  <2>1. ConnOK(conn[k])
    BY DEF HubInv
  <2>2. conn'[k] \in {conn[k], dropLocked(conn[k]), push(conn[k], q)}
    BY <1>1
  <2>3. QED
    BY <2>1, <2>2, EndOK, PushOK
<1>3. conn' = [k \in Slots |-> conn'[k]]
  BY <1>1
<1>4. QED
  BY <1>2, <1>3, ConnsChange

\* A step that leaves the connections and Close alone.
LEMMA ConnsStay == ASSUME HubInv, UNCHANGED <<conn, closing>> PROVE HubInv'
  BY DEF HubInv, ClosedInv

\* Publish and receive.
LEMMA PublishInv == ASSUME HubInv, NEW h, NEW t, Publish(h, t) PROVE HubInv'
  BY DeliverInv DEF Publish
LEMMA ReceiveInv == ASSUME HubInv, NEW h, receive(h) PROVE HubInv'
<1>1. closing' = closing /\ (conn' = conn \/ \E e, t : conn' = deliverLocked(h, e, t))
  BY DEF receive
<1>2. QED
  BY <1>1, ConnsStay, DeliverInv

\* A connection is opened: a WebSocket is registered at once, on an open hub.
LEMMA OpenInv == ASSUME HubInv, NEW u, NEW h, OpenWS(u, h) \/ OpenSSE(u, h) PROVE HubInv'
<1>1. IsConn(noConn) /\ closing' = closing /\ closing[h] = "open"
  BY NoConnOK DEF ConnOK, OpenWS, OpenSSE
<1>2. CASE OpenWS(u, h)
  <2> DEFINE c == [noConn EXCEPT !.hub = h, !.phase = "idle", !.registered = TRUE]
  <2>1. conn' = [conn EXCEPT ![<<u, cur[u] + 1>>] = c]
    BY <1>2 DEF OpenWS
  <2>2. IsConn(c) /\ c.registered /\ c.hub = h /\ c.ended = noConn.ended
    BY <1>1 DEF IsConn, Fields
  <2> HIDE DEF c
  <2>3. ConnOK(c)
    BY <2>2, NoConnOK DEF ConnOK
  <2>4. QED
    BY <1>1, <2>1, <2>2, <2>3, ConnChanges
<1>3. CASE OpenSSE(u, h)
  <2>1. PICK ts : conn' = [conn EXCEPT ![<<u, cur[u] + 1>>] =
                             [noConn EXCEPT !.hub = h, !.kind = "sse", !.phase = "asking", !.asked = ts, !.after = last[u], !.fresh = FALSE]]
    BY <1>3 DEF OpenSSE
  <2> DEFINE c == [noConn EXCEPT !.hub = h, !.kind = "sse", !.phase = "asking", !.asked = ts, !.after = last[u], !.fresh = FALSE]
  <2>2. IsConn(c) /\ c.registered = noConn.registered /\ c.topics = noConn.topics /\ c.ended = noConn.ended /\ c.phase = "asking" /\ c.kind = "sse"
    BY <1>1 DEF IsConn, Fields
  <2>3. conn' = [conn EXCEPT ![<<u, cur[u] + 1>>] = c]
    BY <2>1
  <2> HIDE DEF c
  <2>4. ConnOK(c) /\ ~ c.registered
    BY <2>2, NoConnOK DEF ConnOK
  <2>5. QED
    BY <1>1, <2>3, <2>4, ConnChanges
<1>4. QED
  BY <1>2, <1>3

\* A frame of a WebSocket: subscribe, or unsubscribe.
LEMMA FrameInv == ASSUME HubInv, NEW k \in Slots, wsSubscribe(k) \/ Unsubscribe(k) PROVE HubInv'
<1>1. ConnOK(conn[k]) /\ IsConn(conn[k]) /\ conn[k].registered /\ closing' = closing
  BY DEF HubInv, ConnOK, wsSubscribe, Unsubscribe
<1>2. CASE wsSubscribe(k)
  <2>1. PICK ts : conn' = [conn EXCEPT ![k] =
             IF Cardinality(ts) > MaxSubscriptions - Cardinality(conn[k].topics)
             THEN end(conn[k])
             ELSE [conn[k] EXCEPT !.phase = "asking", !.asked = ts, !.fresh = FALSE,
                            !.after = IF conn[k].fresh THEN last[k[1]] ELSE 0]]
    BY <1>2 DEF wsSubscribe
  <2> DEFINE a == IF conn[k].fresh THEN last[k[1]] ELSE 0
             c == [conn[k] EXCEPT !.phase = "asking", !.asked = ts, !.fresh = FALSE, !.after = a]
  <2>2. conn' = [conn EXCEPT ![k] = end(conn[k])] \/ conn' = [conn EXCEPT ![k] = c]
    BY <2>1
  <2> HIDE DEF a
  <2>3. IsConn(c) /\ c.registered = conn[k].registered /\ c.hub = conn[k].hub /\ c.ended = conn[k].ended /\ c.queue = conn[k].queue
    BY <1>1 DEF IsConn, Fields
  <2> HIDE DEF c
  <2>4. ConnOK(c)
    BY <1>1, <2>3 DEF ConnOK
  <2>5. QED
    BY <1>1, <2>2, <2>3, <2>4, EndOK, ConnChanges
<1>3. CASE Unsubscribe(k)
  <2>1. PICK ts : conn' = [conn EXCEPT ![k] = detachLocked(conn[k], ts)]
    BY <1>3 DEF Unsubscribe
  <2> DEFINE c == detachLocked(conn[k], ts)
  <2>2. IsConn(c) /\ c.registered = conn[k].registered /\ c.hub = conn[k].hub /\ c.ended = conn[k].ended /\ c.queue = conn[k].queue
    BY <1>1 DEF IsConn, Fields, detachLocked
  <2> HIDE DEF c
  <2>3. ConnOK(c)
    BY <1>1, <2>2 DEF ConnOK
  <2>4. QED
    BY <1>1, <2>1, <2>2, <2>3, ConnChanges DEF c
<1>4. QED
  BY <1>2, <1>3

\* A stream registers after Authorize, on a hub that is open still.
LEMMA RegisterInv == ASSUME HubInv, NEW k \in Slots, register(k) PROVE HubInv'
<1>1. ConnOK(conn[k]) /\ IsConn(conn[k]) /\ closing' = closing
  BY DEF HubInv, ConnOK, register
<1>2. PICK ok : conn' = [conn EXCEPT ![k] =
                  IF ok = {} \/ closing[conn[k].hub] # "open"
                  THEN [noConn EXCEPT !.hub = conn[k].hub, !.kind = "sse", !.phase = "gone"]
                  ELSE [conn[k] EXCEPT !.phase = "ready", !.asked = ok, !.refused = conn[k].asked \ ok, !.registered = TRUE]]
  BY DEF register
<1>3. CASE ok = {} \/ closing[conn[k].hub] # "open"
  <2>1. conn' = [conn EXCEPT ![k] = [noConn EXCEPT !.hub = conn[k].hub, !.kind = "sse", !.phase = "gone"]]
    BY <1>2, <1>3
  <2>2. QED
    BY <1>1, <2>1, GoneOK, ConnChanges
<1>4. CASE ~ (ok = {} \/ closing[conn[k].hub] # "open")
  <2> DEFINE c == [conn[k] EXCEPT !.phase = "ready", !.asked = ok, !.refused = conn[k].asked \ ok, !.registered = TRUE]
  <2>1. conn' = [conn EXCEPT ![k] = c]
    BY <1>2, <1>4
  <2>2. IsConn(c) /\ c.registered /\ c.hub = conn[k].hub /\ c.ended = conn[k].ended /\ c.queue = conn[k].queue
    BY <1>1 DEF IsConn, Fields
  <2> HIDE DEF c
  <2>3. ConnOK(c)
    BY <1>1, <2>2 DEF ConnOK
  <2>4. QED
    BY <1>1, <1>4, <2>1, <2>2, <2>3, ConnChanges
<1>5. QED
  BY <1>3, <1>4

\* attach subscribes what is registered, and queues nothing on what was ended.
LEMMA AttachedOK ==
  ASSUME NEW c, ConnOK(c), c.registered
  PROVE  ConnOK(attachLocked(c)) /\ attachLocked(c).registered = c.registered /\ attachLocked(c).hub = c.hub
<1> DEFINE w == IF c.kind = "sse" /\ ~ c.ended THEN "draining" ELSE c.writer
           d == [c EXCEPT !.topics = @ \cup c.asked, !.phase = "idle", !.asked = {}, !.refused = {}, !.after = 0, !.writer = w]
           fs == frames(c)
           e == [d EXCEPT !.queue = @ \o fs, !.wake = @ \/ fs # <<>>]
<1>1. attachLocked(c) = IF c.ended THEN d ELSE IF Len(c.queue) + Len(fs) > cap THEN dropLocked(d) ELSE e
  BY DEF attachLocked
<1> HIDE DEF w, fs
<1>2. IsConn(c)
  BY DEF ConnOK
<1>3. IsConn(d) /\ d.registered = c.registered /\ d.hub = c.hub /\ d.ended = c.ended /\ d.queue = c.queue
  BY <1>2 DEF IsConn, Fields
<1> HIDE DEF d
<1>4. IsConn(e) /\ e.registered = d.registered /\ e.hub = d.hub /\ e.ended = d.ended
  BY <1>3 DEF IsConn, Fields
<1> HIDE DEF e
<1>5. ConnOK(d)
  BY <1>3 DEF ConnOK
<1>6. CASE c.ended
  BY <1>1, <1>3, <1>5, <1>6
<1>7. CASE ~ c.ended
  <2>1. ConnOK(e)
    BY <1>3, <1>4, <1>7 DEF ConnOK
  <2>2. attachLocked(c) \in {dropLocked(d), e}
    BY <1>1, <1>7
  <2>3. QED
    BY <1>3, <1>4, <1>5, <2>1, <2>2, EndOK
<1>8. QED
  BY <1>6, <1>7

\* attach, after check.
LEMMA AttachInv == ASSUME HubInv, NEW k \in Slots, Attach(k) PROVE HubInv'
<1>1. ConnOK(conn[k]) /\ IsConn(conn[k]) /\ closing' = closing
  BY DEF HubInv, ConnOK, Attach
<1>2. PICK c \in Verdicts(conn[k]) : conn' = [conn EXCEPT ![k] = attachLocked(c)]
  BY DEF Attach
<1>3. conn[k].registered
  BY <1>1 DEF Attach, ConnOK
<1>4. ConnOK(c) /\ c.registered /\ c.hub = conn[k].hub
  <2>1. CASE conn[k].kind = "sse"
    BY <1>1, <1>3, <2>1 DEF Verdicts
  <2>2. CASE conn[k].kind # "sse"
    <3>1. PICK ok : c = [conn[k] EXCEPT !.asked = ok, !.refused = conn[k].asked \ ok]
      BY <2>2 DEF Verdicts
    <3>2. IsConn(c) /\ c.registered = conn[k].registered /\ c.hub = conn[k].hub /\ c.ended = conn[k].ended /\ c.queue = conn[k].queue
      BY <1>1, <3>1 DEF IsConn, Fields
    <3>3. QED
      BY <1>1, <1>3, <3>2 DEF ConnOK
  <2>3. QED
    BY <2>1, <2>2
<1>5. QED
  BY <1>1, <1>2, <1>3, <1>4, AttachedOK, ConnChanges

\* The writer wakes, pops and sleeps; the connection is cut.
LEMMA WriterInv == ASSUME HubInv, NEW k \in Slots, Wake(k) \/ Drained(k) \/ pop(k) \/ Cut(k) PROVE HubInv'
<1>1. ConnOK(conn[k]) /\ IsConn(conn[k]) /\ closing' = closing
  BY DEF HubInv, ConnOK, Wake, Drained, pop, Cut
<1> DEFINE a == [conn[k] EXCEPT !.writer = "draining", !.wake = FALSE]
           b == [conn[k] EXCEPT !.writer = "waiting"]
           c == [conn[k] EXCEPT !.queue = Tail(@)]
           d == [conn[k] EXCEPT !.cut = TRUE]
           Like(x) == x.registered = conn[k].registered /\ x.hub = conn[k].hub /\ x.ended = conn[k].ended /\ x.topics = conn[k].topics
                        /\ x.phase = conn[k].phase /\ x.kind = conn[k].kind /\ IsConn(x)
<1>2. Like(a) /\ a.queue = conn[k].queue /\ Like(b) /\ b.queue = conn[k].queue
  BY <1>1 DEF IsConn, Fields
<1>3. Like(c) /\ Like(d) /\ d.queue = conn[k].queue
  BY <1>1 DEF IsConn, Fields
<1>4. \/ conn' = [conn EXCEPT ![k] = a] \/ conn' = [conn EXCEPT ![k] = b]
      \/ conn' = [conn EXCEPT ![k] = c] /\ ~ conn[k].ended
      \/ conn' = [conn EXCEPT ![k] = d]
  BY DEF Wake, Drained, pop, Cut
<1> HIDE DEF a, b, c, d
<1>5. ConnOK(a) /\ ConnOK(b) /\ ConnOK(d) /\ (~ conn[k].ended => ConnOK(c))
  BY <1>1, <1>2, <1>3 DEF ConnOK
<1>6. QED
  BY <1>1, <1>2, <1>3, <1>4, <1>5, ConnChanges

\* A connection ends, and its handler returns.
LEMMA EndsInv == ASSUME HubInv, NEW k \in Slots, Ends(k) \/ unregister(k) PROVE HubInv'
<1>1. ConnOK(conn[k]) /\ closing' = closing
  BY DEF HubInv, Ends, unregister
<1>2. CASE Ends(k)
  BY <1>1, <1>2, EndOK, ConnChanges DEF Ends
<1>3. CASE unregister(k)
  BY <1>1, <1>3, GoneOK, ConnChanges DEF unregister
<1>4. QED
  BY <1>2, <1>3

\* Disconnect, endStreams and Close end connections and open none.
LEMMA EndManyInv == ASSUME HubInv, NEW h, (\E u : Disconnect(h, u)) \/ endStreams(h) \/ Close(h) PROVE HubInv'
<1>1. conn' = [k \in Slots |-> conn'[k]] /\ \A k \in Slots : conn'[k] \in {conn[k], end(conn[k]), dropLocked(conn[k])}
  BY DEF Disconnect, endStreams, Close
<1>2. ASSUME NEW k \in Slots PROVE ConnOK(conn'[k]) /\ conn'[k].registered = conn[k].registered /\ conn'[k].hub = conn[k].hub
  BY <1>1, EndOK DEF HubInv
<1>3. CASE closing' = closing
  BY <1>1, <1>2, <1>3, ConnsChange
<1>4. CASE closing' = [closing EXCEPT ![h] = "closing"]
  <2>1. closing' = [g \in Hubs |-> closing'[g]] /\ \A g \in Hubs : closing'[g] = "closed" => closing[g] = "closed"
    BY <1>4 DEF HubInv
  <2>2. ClosedInv'
    BY <1>2, <2>1 DEF HubInv, ClosedInv
  <2>3. QED
    BY <1>1, <1>2, <2>1, <2>2 DEF HubInv
<1>5. QED
  BY <1>3, <1>4 DEF Disconnect, endStreams, Close

\* Close returns, or gives up.
LEMMA CloseReturnsInv == ASSUME HubInv, NEW h \in Hubs, CloseReturns(h) \/ CloseGivesUp(h) PROVE HubInv'
<1>1. conn' = conn /\ (CloseReturns(h) => \A k \in Slots : ~ (conn[k].registered /\ conn[k].hub = h))
  BY DEF CloseReturns, CloseGivesUp, On
<1>2. closing' = [g \in Hubs |-> closing'[g]] /\ \A g \in Hubs : closing'[g] = "closed" => closing[g] = "closed" \/ (g = h /\ CloseReturns(h))
  BY DEF HubInv, CloseReturns, CloseGivesUp
<1>3. ClosedInv'
  BY <1>1, <1>2 DEF HubInv, ClosedInv
<1>4. QED
  BY <1>1, <1>2, <1>3 DEF HubInv

-----------------------------------------------------------------------------
\* At the start no connection is open.
LEMMA HubInitInv == ASSUME HubInit PROVE HubInv
<1>1. conn = [k \in Slots |-> noConn] /\ closing = [h \in Hubs |-> "open"]
  BY DEF HubInit
<1>2. conn = [k \in Slots |-> conn[k]] /\ closing = [h \in Hubs |-> closing[h]]
  BY <1>1
<1>3. QED
  BY <1>1, <1>2, NoConnOK DEF HubInv, ClosedInv

\* Every step keeps the invariant.
LEMMA HubStepInv == ASSUME HubInv, [HubNext]_hubVars PROVE HubInv'
<1>1. CASE UNCHANGED hubVars
  BY <1>1, ConnsStay DEF hubVars
<1>2. CASE \E h \in Hubs, t \in HubTopics : Publish(h, t)
  BY <1>2, PublishInv
<1>3. CASE \E u \in Clients, h \in Hubs : OpenWS(u, h) \/ OpenSSE(u, h) \/ Disconnect(h, u)
  BY <1>3, OpenInv, EndManyInv
<1>4. CASE \E k \in Slots : wsSubscribe(k) \/ Unsubscribe(k) \/ Cut(k) \/ Ends(k) \/ Handler(k)
  BY <1>4, FrameInv, RegisterInv, AttachInv, WriterInv, EndsInv DEF Handler
<1>5. CASE \E h \in Hubs : endStreams(h) \/ Close(h) \/ CloseReturns(h) \/ CloseGivesUp(h)
  BY <1>5, EndManyInv, CloseReturnsInv
<1>6. CASE \E h \in Hubs : Start(h) \/ Subscribed(h) \/ Disconnected(h) \/ BackplaneStops(h)
  BY <1>6, ConnsStay DEF Start, Subscribed, Disconnected, BackplaneStops
<1>7. CASE \E h \in Hubs : receive(h)
  BY <1>7, ReceiveInv
<1>8. CASE \E e \in unsent : broadcast(e)
  BY <1>8, ConnsStay DEF broadcast
<1>9. QED
  BY <1>1, <1>2, <1>3, <1>4, <1>5, <1>6, <1>7, <1>8 DEF HubNext

\* The end of a connection, of its handler and of a hub are final, whatever
\* Authorize, a writer, Publish or the backplane still does beside them (end,
\* unregister, Close).
THEOREM HubEndsForGood == HubSpec => []EndsForGood
<1>1. HubInit => HubInv
  BY HubInitInv
<1>2. HubInv /\ [HubNext]_hubVars => HubInv'
  BY HubStepInv
<1>3. QED
  BY <1>1, <1>2, HubInvEnds, PTL DEF HubSpec

-----------------------------------------------------------------------------
(* The ring.                                                               *)

\* The ring, its fields whatever they hold.
IsRing(r) ==
  r \in [buf : [0 .. ReplaySize - 1 -> Events \cup {Nil}], head : Nat, n : 0 .. ReplaySize, first : Nat,
         pos : [Events -> Nat \cup {NoPos}]]

\* The n cells from head on hold events, numbered from first, and pos finds each
\* of them in its cell and no other event.
RingOK(r) ==
  /\ IsRing(r)
  /\ ReplaySize > 0 => r.head < ReplaySize
  /\ \A i \in 0 .. r.n - 1 :
       r.buf[(r.head + i) % ReplaySize] \in Events /\ r.pos[r.buf[(r.head + i) % ReplaySize]] = r.first + i
  /\ \A e \in Events : kept(r, e) =>
       r.pos[e] - r.first \in 0 .. r.n - 1 /\ r.buf[(r.head + (r.pos[e] - r.first)) % ReplaySize] = e

\* As far as the ring knows, event f came to the hub after event e: a ring that
\* still keeps e keeps f, behind it.
After(r, e, f) == kept(r, e) => kept(r, f) /\ r.pos[e] < r.pos[f]

\* The index of a cell.
LEMMA CellIndex ==
  ASSUME NEW a \in Nat, NEW i \in Nat, a < ReplaySize, i <= ReplaySize
  PROVE  (a + i) % ReplaySize = IF a + i < ReplaySize THEN a + i ELSE a + i - ReplaySize
<1>1. PICK R : R = ReplaySize
  OBVIOUS
<1>2. R \in Nat /\ R > 0 /\ a < R /\ i <= R
  BY <1>1, RingAssumption
<1>3. (a + i) % R = IF a + i < R THEN a + i ELSE a + i - R
  BY <1>2, SMTT(30)
<1>4. QED
  BY <1>1, <1>3

\* A new ring is empty.
LEMMA NewRingOK == RingOK(newReplay) /\ \A e \in Events : ~ kept(newReplay, e)
  BY RingAssumption DEF newReplay, RingOK, IsRing, kept, NoPos, Nil

\* evict makes room: it takes the oldest event, if any, and moves no other.
LEMMA EvictOK ==
  ASSUME NEW r, RingOK(r), ReplaySize > 0
  PROVE  /\ RingOK(evict(r)) /\ evict(r).n < ReplaySize /\ evict(r).first + evict(r).n = r.first + r.n
         /\ \A f \in Events : kept(evict(r), f) => kept(r, f) /\ evict(r).pos[f] = r.pos[f]
         /\ \A f, g \in Events : kept(r, f) /\ ~ kept(evict(r), f) /\ kept(r, g) => r.pos[f] <= r.pos[g]
<1> DEFINE R == ReplaySize
<1>0. R \in Nat /\ R > 0
  BY RingAssumption
<1>1. /\ r.buf \in [0 .. R - 1 -> Events \cup {Nil}] /\ r.head \in Nat /\ r.n \in 0 .. R /\ r.first \in Nat
      /\ r.pos \in [Events -> Nat \cup {NoPos}] /\ r.head < R
  BY DEF RingOK, IsRing
<1>2. CASE r.n < R
  BY <1>0, <1>1, <1>2 DEF evict
<1>3. CASE ~ (r.n < R)
  <2> DEFINE old == r.buf[r.head]
             q == evict(r)
  <2>1. r.n = R
    BY <1>0, <1>1, <1>3
  <2>2. (r.head + 0) % R = r.head
    <3>1. (r.head + 0) % R = IF r.head + 0 < R THEN r.head + 0 ELSE r.head + 0 - R
      <4>1. 0 \in Nat /\ 0 <= R
        BY <1>0
      <4>2. QED
        BY <1>1, <4>1, CellIndex
    <3>2. QED
      BY <1>0, <1>1, <3>1
  <2>3. old \in Events /\ r.pos[old] = r.first
    <3>1. 0 \in 0 .. r.n - 1
      BY <1>0, <2>1
    <3>2. r.buf[(r.head + 0) % R] \in Events /\ r.pos[r.buf[(r.head + 0) % R]] = r.first + 0
      BY <3>1 DEF RingOK
    <3>3. QED
      BY <1>1, <2>2, <3>2
  <2>4. q = [r EXCEPT !.pos[old] = NoPos, !.buf[r.head] = Nil, !.head = (r.head + 1) % R, !.first = r.first + 1, !.n = r.n - 1]
    BY <1>3, <2>3 DEF evict
  <2> HIDE DEF q
  <2>5. (r.head + 1) % R = IF r.head + 1 < R THEN r.head + 1 ELSE 0
    <3>1. (r.head + 1) % R = IF r.head + 1 < R THEN r.head + 1 ELSE r.head + 1 - R
      <4>1. 1 \in Nat /\ 1 <= R
        BY <1>0
      <4>2. QED
        BY <1>1, <4>1, CellIndex
    <3>2. QED
      BY <1>0, <1>1, <3>1
  <2>6. /\ q.pos = [r.pos EXCEPT ![old] = NoPos] /\ q.buf = [r.buf EXCEPT ![r.head] = Nil]
        /\ q.head = (r.head + 1) % R /\ q.first = r.first + 1 /\ q.n = R - 1
    BY <1>1, <2>1, <2>4 DEF RingOK, IsRing
  <2>7. IsRing(q)
    <3>1. (r.head + 1) % R \in Nat /\ r.first + 1 \in Nat /\ r.n - 1 \in 0 .. R
      BY <1>0, <1>1, <2>1, <2>5
    <3>2. r \in [buf : [0 .. R - 1 -> Events \cup {Nil}], head : Nat, n : 0 .. R, first : Nat, pos : [Events -> Nat \cup {NoPos}]]
      BY DEF RingOK, IsRing
    <3>3. QED
      BY <2>3, <2>4, <3>1, <3>2 DEF IsRing
  <2>8. q.head < R /\ q.head \in Nat
    BY <1>0, <1>1, <2>5, <2>6
  <2>9. ASSUME NEW i \in 0 .. R - 2 PROVE (q.head + i) % R = (r.head + (i + 1)) % R /\ (r.head + (i + 1)) % R # r.head
    <3>1. (q.head + i) % R = IF q.head + i < R THEN q.head + i ELSE q.head + i - R
      BY <1>0, <2>8, CellIndex
    <3>2. (r.head + (i + 1)) % R = IF r.head + (i + 1) < R THEN r.head + (i + 1) ELSE r.head + (i + 1) - R
      <4>1. i + 1 \in Nat /\ i + 1 <= R
        BY <1>0
      <4>2. QED
        BY <1>0, <1>1, <4>1, CellIndex
    <3>3. PICK a, b, x, y : a = r.head /\ b = q.head /\ x = (q.head + i) % R /\ y = (r.head + (i + 1)) % R
      OBVIOUS
    <3>4. /\ a \in Nat /\ a < R /\ b = (IF a + 1 < R THEN a + 1 ELSE 0) /\ x = (IF b + i < R THEN b + i ELSE b + i - R)
          /\ y = (IF a + (i + 1) < R THEN a + (i + 1) ELSE a + (i + 1) - R)
      BY <1>1, <2>5, <2>6, <3>1, <3>2, <3>3
    <3>5. x = y /\ y # a
      BY <1>0, <3>4
    <3>6. QED
      BY <3>3, <3>5
  <2>10. ASSUME NEW i \in 0 .. R - 2
         PROVE  LET f == r.buf[(r.head + (i + 1)) % R] IN
                q.buf[(q.head + i) % R] = f /\ f \in Events /\ r.pos[f] = r.first + (i + 1) /\ f # old /\ q.pos[f] = q.first + i
    <3>1. i + 1 \in 0 .. r.n - 1
      BY <1>0, <2>1
    <3> DEFINE f == r.buf[(r.head + (i + 1)) % R]
    <3>2. f \in Events /\ r.pos[f] = r.first + (i + 1)
      BY <3>1 DEF RingOK
    <3>3. (r.head + (i + 1)) % R \in 0 .. R - 1
      <4>0. i + 1 \in Nat /\ i + 1 <= R
        BY <1>0
      <4>1. (r.head + (i + 1)) % R = IF r.head + (i + 1) < R THEN r.head + (i + 1) ELSE r.head + (i + 1) - R
        BY <1>0, <1>1, <4>0, CellIndex
      <4>2. QED
        BY <1>0, <1>1, <4>1
    <3>4. q.buf[(q.head + i) % R] = f
      BY <1>1, <2>6, <2>9, <3>3
    <3> HIDE DEF f
    <3>5. f # old
      BY <1>1, <2>3, <3>2
    <3>6. q.pos[f] = q.first + i
      BY <1>1, <2>6, <3>2, <3>5
    <3>7. QED
      BY <3>2, <3>4, <3>5, <3>6 DEF f
  <2>11. ASSUME NEW e \in Events, kept(q, e)
         PROVE  kept(r, e) /\ q.pos[e] = r.pos[e] /\ q.pos[e] - q.first \in 0 .. q.n - 1
                /\ q.buf[(q.head + (q.pos[e] - q.first)) % R] = e
    <3>1. e # old /\ q.pos[e] = r.pos[e] /\ kept(r, e)
      BY <1>1, <2>3, <2>6, <2>11 DEF kept
    <3> DEFINE j == r.pos[e] - r.first
    <3>2. j \in 0 .. R - 1 /\ r.buf[(r.head + j) % R] = e /\ r.pos[e] \in Nat
      BY <1>1, <2>1, <3>1 DEF RingOK, kept
    <3>3. j # 0
      BY <2>2, <3>1, <3>2
    <3> DEFINE i == j - 1
    <3> HIDE DEF j
    <3>4. i \in 0 .. R - 2 /\ i + 1 = j
      BY <1>0, <3>2, <3>3
    <3>5. q.pos[e] - q.first = i
      BY <1>1, <2>6, <3>1, <3>2 DEF j
    <3> HIDE DEF i
    <3>6. q.buf[(q.head + i) % R] = e
      BY <2>10, <3>2, <3>4
    <3>7. QED
      BY <1>0, <2>6, <3>1, <3>4, <3>5, <3>6
  <2>12. RingOK(q)
    <3>1. \A i \in 0 .. q.n - 1 : i \in 0 .. R - 2
      BY <1>0, <2>6
    <3>2. \A i \in 0 .. q.n - 1 : q.buf[(q.head + i) % R] \in Events /\ q.pos[q.buf[(q.head + i) % R]] = q.first + i
      BY <2>10, <3>1
    <3>3. QED
      BY <2>7, <2>8, <2>11, <3>2 DEF RingOK
  <2>13. ASSUME NEW f \in Events, NEW g \in Events, kept(r, f), ~ kept(q, f), kept(r, g) PROVE r.pos[f] <= r.pos[g]
    <3>1. f = old
      BY <1>1, <2>6, <2>13 DEF kept
    <3>2. r.pos[g] - r.first \in 0 .. r.n - 1 /\ r.pos[g] \in Nat
      BY <1>1, <2>13 DEF RingOK, kept
    <3>3. QED
      BY <1>1, <2>3, <3>1, <3>2
  <2>14. q.n < R /\ q.first + q.n = r.first + r.n
    BY <1>0, <1>1, <2>1, <2>6
  <2>15. QED
    BY <2>11, <2>12, <2>13, <2>14 DEF q
<1>4. QED
  BY <1>2, <1>3

\* add keeps the event behind all the ring keeps, and evicts at most the oldest.
LEMMA AddOK ==
  ASSUME NEW r, RingOK(r), NEW e \in Events, ~ kept(r, e)
  PROVE  /\ RingOK(add(r, e))
         /\ \A f \in Events : kept(add(r, e), f) => f = e \/ (kept(r, f) /\ add(r, e).pos[f] = r.pos[f])
         /\ \A f, g \in Events : kept(r, f) /\ ~ kept(add(r, e), f) /\ kept(r, g) => r.pos[f] <= r.pos[g]
         /\ ReplaySize > 0 => kept(add(r, e), e) /\ add(r, e).pos[e] = r.first + r.n
         /\ \A f \in Events : kept(r, f) => r.pos[f] < r.first + r.n
         /\ ReplaySize > 0 => add(r, e).first + add(r, e).n = r.first + r.n + 1
<1> DEFINE R == ReplaySize
<1>0. R \in Nat
  BY RingAssumption
<1>1. \A f \in Events : kept(r, f) => r.pos[f] < r.first + r.n
  BY <1>0 DEF RingOK, IsRing, kept, NoPos
<1>2. CASE R = 0
  <2>1. add(r, e) = r
    BY <1>2 DEF add
  <2>2. QED
    BY <1>1, <1>2, <2>1
<1>3. CASE R # 0
  <2>1. R > 0
    BY <1>0, <1>3
  <2>2. PICK q : q = evict(r)
    OBVIOUS
  <2>3. /\ RingOK(q) /\ q.n < R /\ q.first + q.n = r.first + r.n
        /\ \A f \in Events : kept(q, f) => kept(r, f) /\ q.pos[f] = r.pos[f]
        /\ \A f, g \in Events : kept(r, f) /\ ~ kept(q, f) /\ kept(r, g) => r.pos[f] <= r.pos[g]
    BY <2>1, <2>2, EvictOK
  <2>4. /\ q.buf \in [0 .. R - 1 -> Events \cup {Nil}] /\ q.head \in Nat /\ q.n \in 0 .. R /\ q.first \in Nat
        /\ q.pos \in [Events -> Nat \cup {NoPos}] /\ q.head < R
    BY <2>1, <2>3 DEF RingOK, IsRing
  <2> DEFINE d == (q.head + q.n) % R
             p == add(r, e)
  <2>5. p = [q EXCEPT !.buf[d] = e, !.pos[e] = q.first + q.n, !.n = q.n + 1]
    BY <1>3, <2>2 DEF add
  <2> HIDE DEF p
  <2>6. d = (IF q.head + q.n < R THEN q.head + q.n ELSE q.head + q.n - R) /\ d \in 0 .. R - 1
    <3>0. q.n \in Nat /\ q.n <= R
      BY <1>0, <2>4
    <3>1. d = IF q.head + q.n < R THEN q.head + q.n ELSE q.head + q.n - R
      BY <1>0, <2>4, <3>0, CellIndex
    <3> HIDE DEF d
    <3>2. PICK a, n : a = q.head /\ n = q.n
      OBVIOUS
    <3>3. d \in 0 .. R - 1
      <4>1. a \in Nat /\ n \in Nat /\ a < R /\ n < R /\ d = IF a + n < R THEN a + n ELSE a + n - R
        BY <2>3, <2>4, <3>0, <3>1, <3>2
      <4>2. QED
        BY <1>0, <4>1
    <3>4. QED
      BY <3>1, <3>3
  <2> HIDE DEF d
  <2>7. /\ p.buf = [q.buf EXCEPT ![d] = e] /\ p.pos = [q.pos EXCEPT ![e] = q.first + q.n] /\ p.n = q.n + 1
        /\ p.head = q.head /\ p.first = q.first
    BY <2>3, <2>5 DEF RingOK, IsRing
  <2>8. IsRing(p)
    <3>1. q.n + 1 \in 0 .. R /\ q.first + q.n \in Nat
      BY <1>0, <2>3, <2>4
    <3>2. q \in [buf : [0 .. R - 1 -> Events \cup {Nil}], head : Nat, n : 0 .. R, first : Nat, pos : [Events -> Nat \cup {NoPos}]]
      BY <2>3 DEF RingOK, IsRing
    <3>3. QED
      BY <2>5, <2>6, <3>1, <3>2 DEF IsRing
  <2>9. ~ kept(q, e)
    BY <2>3
  <2>10. ASSUME NEW i \in 0 .. q.n - 1 PROVE (q.head + i) % R \in (0 .. R - 1) \ {d}
    <3>1. (q.head + i) % R = IF q.head + i < R THEN q.head + i ELSE q.head + i - R
      <4>1. i \in Nat /\ i <= R
        BY <1>0, <2>4
      <4>2. QED
        BY <1>0, <2>4, <4>1, CellIndex
    <3>2. PICK a, n, x : a = q.head /\ n = q.n /\ x = (q.head + i) % R
      OBVIOUS
    <3>3. /\ a \in Nat /\ n \in Nat /\ i \in 0 .. n - 1 /\ a < R /\ n < R
          /\ d = (IF a + n < R THEN a + n ELSE a + n - R) /\ x = (IF a + i < R THEN a + i ELSE a + i - R)
      BY <2>3, <2>4, <2>6, <3>1, <3>2
    <3>4. x \in (0 .. R - 1) \ {d}
      BY <1>0, <3>3
    <3>5. QED
      BY <3>2, <3>4
  <2>11. ASSUME NEW i \in 0 .. p.n - 1
         PROVE  p.buf[(p.head + i) % R] \in Events /\ p.pos[p.buf[(p.head + i) % R]] = p.first + i
    <3>1. CASE i = q.n
      BY <2>4, <2>6, <2>7, <3>1 DEF d
    <3>2. CASE i # q.n
      <4>1. i \in 0 .. q.n - 1
        BY <1>0, <2>4, <2>7, <3>2
      <4>2. p.buf[(p.head + i) % R] = q.buf[(q.head + i) % R]
        BY <2>4, <2>7, <2>10, <4>1
      <4>3. PICK f : f = q.buf[(q.head + i) % R]
        OBVIOUS
      <4>4. f \in Events /\ q.pos[f] = q.first + i
        BY <2>3, <4>1, <4>3 DEF RingOK
      <4>5. f # e
        BY <2>4, <2>9, <4>4 DEF kept, NoPos
      <4>6. QED
        BY <2>4, <2>7, <4>2, <4>3, <4>4, <4>5
    <3>3. QED
      BY <3>1, <3>2
  <2>12. ASSUME NEW f \in Events, kept(p, f)
         PROVE  /\ p.pos[f] - p.first \in 0 .. p.n - 1 /\ p.buf[(p.head + (p.pos[f] - p.first)) % R] = f
                /\ f = e \/ (kept(r, f) /\ p.pos[f] = r.pos[f])
    <3>1. CASE f = e
      <4>1. p.pos[f] - p.first = q.n
        BY <2>4, <2>7, <3>1
      <4>2. p.buf[(p.head + q.n) % R] = e
        BY <2>4, <2>6, <2>7 DEF d
      <4>3. q.n \in 0 .. p.n - 1
        BY <2>4, <2>7
      <4>4. QED
        BY <3>1, <4>1, <4>2, <4>3
    <3>2. CASE f # e
      <4>1. p.pos[f] = q.pos[f] /\ kept(q, f)
        BY <2>4, <2>7, <2>12, <3>2 DEF kept
      <4>2. q.pos[f] - q.first \in 0 .. q.n - 1 /\ q.buf[(q.head + (q.pos[f] - q.first)) % R] = f
        BY <2>3, <4>1 DEF RingOK
      <4>3. p.buf[(q.head + (q.pos[f] - q.first)) % R] = f
        BY <2>4, <2>7, <2>10, <4>2
      <4>4. QED
        BY <2>3, <2>4, <2>7, <4>1, <4>2, <4>3
    <3>3. QED
      BY <3>1, <3>2
  <2>13. RingOK(p)
    BY <2>4, <2>7, <2>8, <2>11, <2>12 DEF RingOK
  <2>14. \A f \in Events : kept(q, f) => kept(p, f)
    BY <2>4, <2>7 DEF kept, NoPos
  <2>15. kept(p, e) /\ p.pos[e] = r.first + r.n
    BY <2>3, <2>4, <2>7 DEF kept, NoPos
  <2>16. p.first + p.n = r.first + r.n + 1
    BY <2>3, <2>4, <2>7 DEF RingOK, IsRing
  <2>17. QED
    BY <1>1, <2>3, <2>12, <2>13, <2>14, <2>15, <2>16 DEF p
<1>4. QED
  BY <1>2, <1>3

\* The order of the events does not change when another one comes, and that one
\* comes after them all.
LEMMA AddAfter ==
  ASSUME NEW r, RingOK(r), NEW e \in Events, ~ kept(r, e), NEW f \in Events, f # e
  PROVE  /\ After(add(r, e), f, e)
         /\ \A g \in Events : g # e /\ After(r, f, g) => After(add(r, e), f, g)
<1>1. /\ \A g \in Events : kept(add(r, e), g) => g = e \/ (kept(r, g) /\ add(r, e).pos[g] = r.pos[g])
      /\ \A g, i \in Events : kept(r, g) /\ ~ kept(add(r, e), g) /\ kept(r, i) => r.pos[g] <= r.pos[i]
      /\ ReplaySize > 0 => kept(add(r, e), e) /\ add(r, e).pos[e] = r.first + r.n
      /\ \A g \in Events : kept(r, g) => r.pos[g] < r.first + r.n
  BY AddOK
<1>2. \A g \in Events : r.pos[g] \in Int
  BY DEF RingOK, IsRing, NoPos
<1>3. ASSUME kept(add(r, e), f) PROVE ReplaySize > 0
  <2>1. kept(r, f)
    BY <1>1, <1>3
  <2>2. r.n \in 0 .. ReplaySize /\ r.pos[f] - r.first \in 0 .. r.n - 1
    BY <2>1 DEF RingOK, IsRing
  <2>3. QED
    BY <2>2, RingAssumption
<1>4. QED
  BY <1>1, <1>2, <1>3 DEF After

\* After is an order.
LEMMA AfterTransitive ==
  ASSUME NEW r, RingOK(r), NEW e \in Events, NEW f \in Events, NEW g \in Events, After(r, e, f), After(r, f, g)
  PROVE  After(r, e, g)
<1>1. \A x \in Events : r.pos[x] \in Int
  BY DEF RingOK, IsRing, NoPos
<1>2. QED
  BY <1>1 DEF After

\* follow lists what the ring keeps after an event, in order.
LEMMA FollowOK ==
  ASSUME NEW r, RingOK(r), NEW e \in Events, kept(r, e)
  PROVE  /\ follow(r, e) \in Seq(Events) /\ Len(follow(r, e)) <= ReplaySize
         /\ \A i \in DOMAIN follow(r, e) : kept(r, follow(r, e)[i]) /\ r.pos[follow(r, e)[i]] = r.pos[e] + i
         /\ \A f \in Events : kept(r, f) /\ r.pos[e] < r.pos[f] => \E i \in DOMAIN follow(r, e) : follow(r, e)[i] = f
         /\ Len(follow(r, e)) = r.first + r.n - 1 - r.pos[e]
<1> DEFINE R == ReplaySize
           m == r.first + r.n - 1 - r.pos[e]
           s == follow(r, e)
<1>0. R \in Nat
  BY RingAssumption
<1>1. /\ r.n \in 0 .. R /\ r.first \in Nat /\ r.pos \in [Events -> Nat \cup {NoPos}]
      /\ r.pos[e] - r.first \in 0 .. r.n - 1 /\ r.pos[e] \in Nat
  BY DEF RingOK, IsRing, kept, NoPos
<1>2. m \in 0 .. R - 1 /\ m \in Nat
  BY <1>0, <1>1
<1>3. s = [i \in 1 .. m |-> r.buf[(r.head + (r.pos[e] + i - r.first)) % R]]
  BY DEF follow
<1> HIDE DEF s
<1>4. ASSUME NEW i \in 1 .. m
      PROVE  s[i] \in Events /\ r.pos[s[i]] = r.pos[e] + i /\ kept(r, s[i])
  <2>1. r.pos[e] + i - r.first \in 0 .. r.n - 1
    BY <1>0, <1>1
  <2>2. PICK j : j = r.pos[e] + i - r.first
    OBVIOUS
  <2>3. s[i] = r.buf[(r.head + j) % R]
    BY <1>3, <2>2
  <2>4. s[i] \in Events /\ r.pos[s[i]] = r.first + j
    BY <2>1, <2>2, <2>3 DEF RingOK
  <2>5. QED
    BY <1>1, <2>2, <2>4 DEF kept, NoPos
<1>5. s \in Seq(Events) /\ Len(s) = m /\ DOMAIN s = 1 .. m
  <2> HIDE DEF m
  <2>1. s = [i \in 1 .. m |-> s[i]]
    BY <1>3
  <2>2. QED
    BY <1>2, <1>4, <2>1
<1>6. ASSUME NEW f \in Events, kept(r, f), r.pos[e] < r.pos[f] PROVE \E i \in 1 .. m : s[i] = f
  <2>1. r.pos[f] - r.first \in 0 .. r.n - 1 /\ r.pos[f] \in Nat /\ r.buf[(r.head + (r.pos[f] - r.first)) % R] = f
    BY <1>1, <1>6 DEF RingOK, kept
  <2>2. PICK i : i = r.pos[f] - r.pos[e]
    OBVIOUS
  <2>3. i \in 1 .. m /\ r.pos[e] + i - r.first = r.pos[f] - r.first
    BY <1>1, <1>6, <2>1, <2>2
  <2>4. s[i] = r.buf[(r.head + (r.pos[f] - r.first)) % R]
    BY <1>3, <2>3
  <2>5. QED
    BY <2>1, <2>3, <2>4
<1>7. Len(s) <= R
  BY <1>0, <1>2, <1>5
<1> HIDE DEF m
<1>8. QED
  BY <1>4, <1>5, <1>6, <1>7 DEF s, m

-----------------------------------------------------------------------------
(* Sequences.                                                              *)

\* An element of a sequence is of the sequence's type.
LEMMA SeqElement == ASSUME NEW S, NEW q \in Seq(S) PROVE \A i \in DOMAIN q : q[i] \in S
  OBVIOUS

\* There are n numbers up to n.
LEMMA UpTo == ASSUME NEW n \in Nat PROVE IsFiniteSet(1 .. n) /\ Cardinality(1 .. n) = n
<1>1. 1 \in Int /\ n \in Int
  OBVIOUS
<1>2. IsFiniteSet(1 .. n) /\ Cardinality(1 .. n) = IF 1 > n THEN 0 ELSE n - 1 + 1
  BY <1>1, FS_Interval
<1>3. QED
  BY <1>2

\* How many positions of I there are up to i, and which of them is the j-th.
Rank(I, i) == Cardinality({x \in I : x <= i})
Nth(I, j) == CHOOSE i \in I : Rank(I, i) = j

\* Each number up to the size of I is the rank of one position, and the ranks
\* are ordered as the positions are.
LEMMA NthOK ==
  ASSUME NEW I \in SUBSET Nat, IsFiniteSet(I)
  PROVE  /\ Cardinality(I) \in Nat
         /\ \A j \in 1 .. Cardinality(I) : Nth(I, j) \in I
         /\ \A j, m \in 1 .. Cardinality(I) : j < m => Nth(I, j) < Nth(I, m)
         /\ \A i \in I : \E j \in 1 .. Cardinality(I) : Nth(I, j) = i
<1> DEFINE n == Cardinality(I)
           Up(i) == {x \in I : x <= i}
           rank == [i \in I |-> Rank(I, i)]
<1>0. \A i \in I : i \in Nat
  OBVIOUS
<1>1. n \in Nat
  BY FS_CardinalityType
<1>2. ASSUME NEW i \in I PROVE Rank(I, i) \in 1 .. n /\ IsFiniteSet(Up(i)) /\ Rank(I, i) = Cardinality(Up(i))
  <2>1. Up(i) \in SUBSET I /\ i \in Up(i) /\ Rank(I, i) = Cardinality(Up(i))
    BY DEF Rank
  <2> HIDE DEF Up
  <2>2. IsFiniteSet(Up(i)) /\ Cardinality(Up(i)) <= n
    BY <2>1, FS_Subset
  <2>3. Cardinality(Up(i)) \in Nat /\ Cardinality(Up(i)) # 0
    BY <2>1, <2>2, FS_CardinalityType, FS_EmptySet
  <2>4. QED
    BY <1>1, <2>1, <2>2, <2>3
<1>3. ASSUME NEW i \in I, NEW j \in I, i < j PROVE Rank(I, i) < Rank(I, j)
  <2>1. Up(i) \in SUBSET Up(j) /\ j \in Up(j) /\ j \notin Up(i)
    <3>1. i \in Nat /\ j \in Nat /\ \A x \in I : x \in Nat
      BY <1>0
    <3>2. (\A x \in I : x <= i => x <= j) /\ ~ (j <= i) /\ j <= j
      BY <1>3, <3>1
    <3>3. QED
      BY <3>2
  <2>2. IsFiniteSet(Up(j)) /\ Rank(I, i) = Cardinality(Up(i)) /\ Rank(I, j) = Cardinality(Up(j)) /\ Rank(I, i) \in Nat /\ Rank(I, j) \in Nat
    BY <1>1, <1>2
  <2> HIDE DEF Up
  <2>3. Cardinality(Up(i)) <= Cardinality(Up(j)) /\ Cardinality(Up(i)) # Cardinality(Up(j))
    BY <2>1, <2>2, FS_Subset
  <2>4. QED
    BY <2>2, <2>3
<1>4. rank \in [I -> 1 .. n] /\ \A i, j \in I : rank[i] = rank[j] => i = j
  <2>1. ASSUME NEW i \in I, NEW j \in I, rank[i] = rank[j] PROVE i = j
    <3>1. i \in Nat /\ j \in Nat /\ Rank(I, i) = Rank(I, j) /\ Rank(I, i) \in Nat
      <4>1. i \in Nat /\ j \in Nat /\ rank[i] = Rank(I, i) /\ rank[j] = Rank(I, j)
        BY <1>0
      <4>2. Rank(I, i) \in 1 .. n
        BY <1>2
      <4>3. Rank(I, i) \in Nat
        BY <1>1, <4>2
      <4>4. QED
        BY <2>1, <4>1, <4>3
    <3>2. ~ (i < j) /\ ~ (j < i)
      BY <1>3, <3>1
    <3>3. QED
      BY <3>1, <3>2
  <2>2. QED
    BY <1>2, <2>1
<1>5. rank \in Surjection(I, 1 .. n)
  <2>1. rank \in Injection(I, 1 .. n)
    BY <1>4 DEF Injection, IsInjective
  <2>2. IsFiniteSet(1 .. n) /\ Cardinality(1 .. n) = n
    BY <1>1, UpTo
  <2> HIDE DEF rank
  <2>3. QED
    BY <2>1, <2>2, FS_Injection
<1>6. ASSUME NEW j \in 1 .. n PROVE Nth(I, j) \in I /\ Rank(I, Nth(I, j)) = j
  <2>1. \E i \in I : Rank(I, i) = j
    BY <1>5 DEF Surjection
  <2>2. QED
    BY <2>1 DEF Nth
<1>7. ASSUME NEW j \in 1 .. n, NEW m \in 1 .. n, j < m PROVE Nth(I, j) < Nth(I, m)
  <2>1. Nth(I, j) \in I /\ Nth(I, m) \in I /\ Rank(I, Nth(I, j)) = j /\ Rank(I, Nth(I, m)) = m
    BY <1>6
  <2>2. Nth(I, j) # Nth(I, m)
    BY <1>7, <2>1
  <2>3. ~ (Nth(I, m) < Nth(I, j))
    <3>1. j \in Nat /\ m \in Nat /\ ~ (m < j)
      BY <1>1, <1>7
    <3>2. QED
      BY <1>3, <2>1, <3>1
  <2>4. Nth(I, j) \in Nat /\ Nth(I, m) \in Nat
    BY <1>0, <2>1
  <2>5. QED
    BY <2>2, <2>3, <2>4
<1>8. ASSUME NEW i \in I PROVE \E j \in 1 .. n : Nth(I, j) = i
  <2>1. PICK j : j = Rank(I, i)
    OBVIOUS
  <2>2. j \in 1 .. n /\ Nth(I, j) \in I /\ rank[Nth(I, j)] = rank[i]
    BY <1>2, <1>6, <2>1
  <2>3. QED
    BY <1>4, <2>2
<1>9. QED
  BY <1>1, <1>6, <1>7, <1>8

\* What Picked picks.
LEMMA PickedOK ==
  ASSUME NEW S, NEW s \in Seq(S), NEW I \in SUBSET DOMAIN s
  PROVE  /\ IsFiniteSet(I) /\ Cardinality(I) \in Nat /\ Cardinality(I) <= Len(s)
         /\ Picked(s, I) \in Seq(S) /\ Len(Picked(s, I)) = Cardinality(I)
         /\ \A j \in 1 .. Cardinality(I) : Nth(I, j) \in I /\ Picked(s, I)[j] = s[Nth(I, j)]
         /\ \A j, m \in 1 .. Cardinality(I) : j < m => Nth(I, j) < Nth(I, m)
         /\ \A i \in I : \E j \in 1 .. Cardinality(I) : Nth(I, j) = i
<1>1. DOMAIN s = 1 .. Len(s) /\ Len(s) \in Nat
  OBVIOUS
<1>2. IsFiniteSet(1 .. Len(s)) /\ Cardinality(1 .. Len(s)) = Len(s)
  BY <1>1, UpTo
<1>3. IsFiniteSet(I) /\ Cardinality(I) <= Len(s) /\ I \in SUBSET Nat
  BY <1>1, <1>2, FS_Subset
<1>4. /\ Cardinality(I) \in Nat
      /\ \A j \in 1 .. Cardinality(I) : Nth(I, j) \in I
      /\ \A j, m \in 1 .. Cardinality(I) : j < m => Nth(I, j) < Nth(I, m)
      /\ \A i \in I : \E j \in 1 .. Cardinality(I) : Nth(I, j) = i
  BY <1>3, NthOK
<1>5. Picked(s, I) = [j \in 1 .. Cardinality(I) |-> s[Nth(I, j)]]
  BY DEF Picked, Nth, Rank
<1>6. Picked(s, I) \in Seq(S) /\ Len(Picked(s, I)) = Cardinality(I)
  <2>1. PICK p, n : p = Picked(s, I) /\ n = Cardinality(I)
    OBVIOUS
  <2>2. n \in Nat /\ p \in [1 .. n -> S]
    BY <1>4, <1>5, <2>1
  <2>3. QED
    BY <2>1, <2>2
<1>7. QED
  BY <1>3, <1>4, <1>5, <1>6

\* SetToSeq lists the set.
LEMMA SetToSeqOK ==
  ASSUME NEW S, IsFiniteSet(S)
  PROVE  /\ Cardinality(S) \in Nat
         /\ \A i \in 1 .. Cardinality(S) : SetToSeq(S)[i] \in S
         /\ \A x \in S : \E i \in 1 .. Cardinality(S) : SetToSeq(S)[i] = x
<1> DEFINE n == Cardinality(S)
           f == SetToSeq(S)
<1>1. n \in Nat /\ ExistsBijection(1 .. n, S)
  BY FS_CardinalityType
<1>2. \E g \in [1 .. n -> S] : IsInjective(g)
  BY <1>1 DEF ExistsBijection, Bijection, Injection
<1>3. f \in [1 .. n -> S] /\ IsInjective(f)
  BY <1>2 DEF SetToSeq
<1> HIDE DEF f
<1>4. f \in Surjection(1 .. n, S)
  <2>1. f \in Injection(1 .. n, S)
    BY <1>3 DEF Injection
  <2>2. Cardinality(1 .. n) = n
    BY <1>1, UpTo
  <2>3. QED
    BY <2>1, <2>2, FS_Injection
<1>5. QED
  BY <1>1, <1>3, <1>4 DEF Surjection, f

-----------------------------------------------------------------------------
(* What a client knows, and what waits for it.                             *)

IsEvent(q) == q.kind \in {"live", "replay"}

\* A is what has come to the hub, r its ring; l is the last event a client saw, S
\* all of them and o what it is owed.  What it saw came before the last one, and
\* what it is owed comes after it.
Knows(r, A, l, S, o) ==
  /\ S \subseteq A
  /\ l = 0 => S = {}
  /\ l # 0 => l \in S
  /\ \A e \in S : e = l \/ After(r, e, l)
  /\ \A e \in o \cap A : l # 0 => After(r, l, e)

\* The events of a queue have come to the hub, the client has seen none of them,
\* and they are in the order they came in, behind the last one it saw.  No reset
\* waits behind an event.
QueueOK(r, Q, l, S, A) ==
  /\ \A i \in DOMAIN Q : IsEvent(Q[i]) => Q[i].id \in A \ S /\ (l # 0 => After(r, l, Q[i].id))
  /\ \A i, j \in DOMAIN Q : i < j /\ IsEvent(Q[i]) =>
       /\ Q[j].kind # "reset"
       /\ IsEvent(Q[j]) => Q[i].id # Q[j].id /\ After(r, Q[i].id, Q[j].id)

\* Event e waits in the queue, or a reset that covers it does.
Covers(Q, lg, e) ==
  \E i \in DOMAIN Q : \/ IsEvent(Q[i]) /\ Q[i].id = e
                      \/ Q[i].kind = "reset" /\ Q[i].topic = lg[e].topic /\ e <= Q[i].id

\* An event comes: what the client knows.
LEMMA KnowsAdd ==
  ASSUME NEW r, RingOK(r), NEW e \in Events, ~ kept(r, e), NEW A \in SUBSET Events, e \notin A,
         NEW l, NEW S, NEW o, Knows(r, A, l, S, o), NEW p, p \subseteq o \cup {e}
  PROVE  Knows(add(r, e), A \cup {e}, l, S, p)
<1>1. S \subseteq A /\ (l = 0 => S = {}) /\ (l # 0 => l \in S) /\ S \subseteq Events /\ (l # 0 => l \in Events /\ l # e)
  BY DEF Knows
<1>2. ASSUME NEW f \in S, f # l PROVE After(add(r, e), f, l)
  <2>1. f \in Events /\ l \in Events /\ f # e /\ l # e /\ After(r, f, l)
    BY <1>1, <1>2 DEF Knows
  <2>2. QED
    BY <2>1, AddAfter
<1>3. ASSUME NEW f \in p \cap (A \cup {e}), l # 0 PROVE After(add(r, e), l, f)
  <2>1. l \in Events /\ l # e
    BY <1>1, <1>3
  <2>2. CASE f = e
    BY <2>1, <2>2, AddAfter
  <2>3. CASE f # e
    <3>1. f \in Events /\ After(r, l, f)
      BY <1>3, <2>3 DEF Knows
    <3>2. QED
      BY <2>1, <2>3, <3>1, AddAfter
  <2>4. QED
    BY <2>2, <2>3
<1>4. QED
  BY <1>1, <1>2, <1>3 DEF Knows

\* An event comes: the queue of a connection that does not follow its topic.
LEMMA QueueAdd ==
  ASSUME NEW r, RingOK(r), NEW e \in Events, ~ kept(r, e), NEW A \in SUBSET Events, e \notin A,
         NEW l, l # 0 => l \in A, NEW S, NEW Q, QueueOK(r, Q, l, S, A)
  PROVE  QueueOK(add(r, e), Q, l, S, A \cup {e})
<1>1. ASSUME NEW i \in DOMAIN Q, IsEvent(Q[i])
      PROVE  Q[i].id \in (A \cup {e}) \ S /\ (l # 0 => After(add(r, e), l, Q[i].id))
  <2>1. Q[i].id \in A \ S /\ (l # 0 => After(r, l, Q[i].id))
    BY <1>1 DEF QueueOK
  <2>2. PICK f : f = Q[i].id
    OBVIOUS
  <2>3. f \in Events /\ f # e /\ (l # 0 => l \in Events /\ l # e)
    BY <2>1, <2>2
  <2>4. l # 0 => After(add(r, e), l, f)
    BY <2>1, <2>2, <2>3, AddAfter
  <2>5. QED
    BY <2>1, <2>2, <2>4
<1>2. ASSUME NEW i \in DOMAIN Q, NEW j \in DOMAIN Q, i < j, IsEvent(Q[i])
      PROVE  Q[j].kind # "reset" /\ (IsEvent(Q[j]) => Q[i].id # Q[j].id /\ After(add(r, e), Q[i].id, Q[j].id))
  <2>1. Q[j].kind # "reset" /\ (IsEvent(Q[j]) => Q[i].id # Q[j].id /\ After(r, Q[i].id, Q[j].id)) /\ Q[i].id \in A
        /\ (IsEvent(Q[j]) => Q[j].id \in A)
    BY <1>2 DEF QueueOK
  <2>2. PICK f, g : f = Q[i].id /\ g = Q[j].id
    OBVIOUS
  <2>3. IsEvent(Q[j]) => f \in Events /\ f # e /\ g \in Events /\ g # e /\ After(r, f, g)
    BY <2>1, <2>2
  <2>4. IsEvent(Q[j]) => After(add(r, e), f, g)
    BY <2>3, AddAfter
  <2>5. QED
    BY <2>1, <2>2, <2>4
<1>3. QED
  BY <1>1, <1>2 DEF QueueOK

\* An event comes: the queue of a connection that follows its topic.
LEMMA QueuePush ==
  ASSUME NEW r, RingOK(r), NEW e \in Events, ~ kept(r, e), NEW A \in SUBSET Events, e \notin A,
         NEW l, l # 0 => l \in A, NEW S, S \subseteq A, NEW Q \in Seq(Item), QueueOK(r, Q, l, S, A),
         NEW q \in Item, q.kind = "live", q.id = e
  PROVE  QueueOK(add(r, e), Append(Q, q), l, S, A \cup {e})
<1> DEFINE n == Len(Q)
           P == Append(Q, q)
<1>1. n \in Nat /\ DOMAIN Q = 1 .. n /\ DOMAIN P = 1 .. (n + 1) /\ P[n + 1] = q /\ \A i \in 1 .. n : P[i] = Q[i]
  OBVIOUS
<1>2. QueueOK(add(r, e), Q, l, S, A \cup {e})
  BY QueueAdd
<1>3. IsEvent(q) /\ q.kind # "reset"
  BY DEF IsEvent
<1>4. l # 0 => After(add(r, e), l, e)
  BY AddAfter
<1>5. ASSUME NEW i \in 1 .. n, IsEvent(Q[i]) PROVE Q[i].id # e /\ After(add(r, e), Q[i].id, e)
  <2>1. Q[i].id \in A
    BY <1>1, <1>5 DEF QueueOK
  <2>2. PICK f : f = Q[i].id
    OBVIOUS
  <2>3. f \in Events /\ f # e
    BY <2>1, <2>2
  <2>4. After(add(r, e), f, e)
    BY <2>3, AddAfter
  <2>5. QED
    BY <2>2, <2>3, <2>4
<1> HIDE DEF P, n
<1>6. ASSUME NEW i \in 1 .. (n + 1), IsEvent(P[i])
      PROVE  P[i].id \in (A \cup {e}) \ S /\ (l # 0 => After(add(r, e), l, P[i].id))
  <2>1. CASE i = n + 1
    BY <1>1, <1>4, <2>1
  <2>2. CASE i # n + 1
    <3>1. i \in 1 .. n
      BY <1>1, <2>2
    <3>2. QED
      BY <1>1, <1>2, <1>6, <3>1 DEF QueueOK
  <2>3. QED
    BY <2>1, <2>2
<1>7. ASSUME NEW i \in 1 .. (n + 1), NEW j \in 1 .. (n + 1), i < j, IsEvent(P[i])
      PROVE  P[j].kind # "reset" /\ (IsEvent(P[j]) => P[i].id # P[j].id /\ After(add(r, e), P[i].id, P[j].id))
  <2>1. i \in 1 .. n
    BY <1>1, <1>7
  <2>2. CASE j = n + 1
    BY <1>1, <1>3, <1>5, <1>7, <2>1, <2>2
  <2>3. CASE j # n + 1
    <3>1. j \in 1 .. n
      BY <1>1, <2>3
    <3>2. QED
      BY <1>1, <1>2, <1>7, <2>1, <3>1 DEF QueueOK
  <2>4. QED
    BY <2>2, <2>3
<1>8. QED
  BY <1>1, <1>6, <1>7 DEF QueueOK, P

\* What is left of a queue when its head is taken.
LEMMA TailItems ==
  ASSUME NEW Q \in Seq(Item), Q # <<>>
  PROVE  /\ Tail(Q) \in Seq(Item) /\ Head(Q) = Q[1] /\ 1 \in DOMAIN Q /\ Q[1] \in Item
         /\ \A i \in DOMAIN Tail(Q) : i + 1 \in DOMAIN Q /\ Tail(Q)[i] = Q[i + 1] /\ i \in Nat /\ i > 0
         /\ \A i \in DOMAIN Q : i # 1 => i - 1 \in DOMAIN Tail(Q) /\ Tail(Q)[i - 1] = Q[i]
<1>1. Len(Q) \in Nat /\ Len(Q) > 0 /\ DOMAIN Q = 1 .. Len(Q)
  OBVIOUS
<1>2. Tail(Q) \in Seq(Item) /\ Len(Tail(Q)) = Len(Q) - 1 /\ DOMAIN Tail(Q) = 1 .. (Len(Q) - 1)
  BY <1>1
<1>3. \A i \in 1 .. (Len(Q) - 1) : Tail(Q)[i] = Q[i + 1]
  BY <1>1
<1>4. QED
  BY <1>1, <1>2, <1>3

\* pop takes something that is no event: the client knows what it knew.
LEMMA QueueTailOwn ==
  ASSUME NEW r, NEW A, NEW l, NEW S, NEW Q \in Seq(Item), Q # <<>>, QueueOK(r, Q, l, S, A)
  PROVE  QueueOK(r, Tail(Q), l, S, A)
<1>1. \A i \in DOMAIN Tail(Q) : i + 1 \in DOMAIN Q /\ Tail(Q)[i] = Q[i + 1] /\ i \in Nat /\ i > 0
  BY TailItems
<1>2. ASSUME NEW i \in DOMAIN Tail(Q), NEW j \in DOMAIN Tail(Q), i < j PROVE i + 1 < j + 1
  BY <1>1, <1>2
<1>3. QED
  BY <1>1, <1>2 DEF QueueOK

\* pop takes an event: it is the last the client saw.
LEMMA QueueTailEvent ==
  ASSUME NEW r, NEW A, NEW l, NEW S, NEW Q \in Seq(Item), Q # <<>>, QueueOK(r, Q, l, S, A), IsEvent(Q[1])
  PROVE  QueueOK(r, Tail(Q), Q[1].id, S \cup {Q[1].id}, A)
<1>1. (\A i \in DOMAIN Tail(Q) : i + 1 \in DOMAIN Q /\ Tail(Q)[i] = Q[i + 1] /\ i \in Nat /\ i > 0) /\ 1 \in DOMAIN Q
  BY TailItems
<1>2. QueueOK(r, Tail(Q), l, S, A)
  BY QueueTailOwn
<1>3. ASSUME NEW i \in DOMAIN Tail(Q), IsEvent(Tail(Q)[i])
      PROVE  Tail(Q)[i].id # Q[1].id /\ After(r, Q[1].id, Tail(Q)[i].id)
  <2>1. i + 1 \in DOMAIN Q /\ Tail(Q)[i] = Q[i + 1] /\ 1 < i + 1
    BY <1>1
  <2>2. QED
    BY <1>1, <1>3, <2>1 DEF QueueOK
<1>4. QED
  BY <1>2, <1>3 DEF QueueOK

\* ... and what the client knows.
LEMMA KnowsPop ==
  ASSUME NEW r, RingOK(r), NEW A \in SUBSET Events, NEW l, NEW S, NEW o, Knows(r, A, l, S, o), NEW lg,
         NEW Q \in Seq(Item), Q # <<>>, QueueOK(r, Q, l, S, A), IsEvent(Q[1]), \A e \in o \cap A : Covers(Q, lg, e)
  PROVE  /\ Q[1].id \in A /\ Q[1].id # 0
         /\ Knows(r, A, Q[1].id, S \cup {Q[1].id}, o \ {Q[1].id})
         /\ \A e \in (o \ {Q[1].id}) \cap A : Covers(Tail(Q), lg, e)
<1>0. PICK f : f = Q[1].id
  OBVIOUS
<1>1. /\ 1 \in DOMAIN Q
      /\ \A i \in DOMAIN Q : i # 1 => i - 1 \in DOMAIN Tail(Q) /\ Tail(Q)[i - 1] = Q[i]
      /\ \A i \in DOMAIN Q : i # 1 => 1 < i
  <2>1. \A i \in DOMAIN Q : i # 1 => 1 < i
    OBVIOUS
  <2>2. QED
    BY <2>1, TailItems
<1>2. f \in A \ S /\ (l # 0 => After(r, l, f)) /\ f \in Events /\ f # 0
  BY <1>0, <1>1 DEF QueueOK, Events
<1>3. ASSUME NEW e \in S \cup {f} PROVE e = f \/ After(r, e, f)
  <2>1. CASE e = l /\ l # 0
    BY <1>2, <2>1
  <2>2. CASE e # f /\ e # l
    <3>1. e \in S /\ l # 0 /\ l \in S /\ After(r, e, l)
      BY <1>3, <2>2 DEF Knows
    <3>2. e \in Events /\ l \in Events /\ After(r, l, f)
      BY <1>2, <3>1 DEF Knows
    <3>3. QED
      BY <1>2, <3>1, <3>2, AfterTransitive
  <2>3. CASE l = 0 /\ e # f
    BY <1>3, <2>3 DEF Knows
  <2>4. QED
    BY <2>1, <2>2, <2>3
<1>4. ASSUME NEW e \in (o \ {f}) \cap A PROVE After(r, f, e) /\ Covers(Tail(Q), lg, e)
  <2>1. PICK i \in DOMAIN Q : \/ IsEvent(Q[i]) /\ Q[i].id = e
                              \/ Q[i].kind = "reset" /\ Q[i].topic = lg[e].topic /\ e <= Q[i].id
    BY <1>4 DEF Covers
  <2>2. i # 1
    <3>1. Q[1].kind # "reset" /\ Q[1].id # e
      BY <1>0, <1>4 DEF IsEvent
    <3>2. QED
      BY <2>1, <3>1
  <2>3. 1 < i /\ i - 1 \in DOMAIN Tail(Q) /\ Tail(Q)[i - 1] = Q[i]
    BY <1>1, <2>2
  <2>4. Q[i].kind # "reset" /\ (IsEvent(Q[i]) => After(r, f, Q[i].id))
    BY <1>0, <1>1, <2>3 DEF QueueOK
  <2>5. QED
    BY <2>1, <2>3, <2>4 DEF Covers
<1>5. Knows(r, A, f, S \cup {f}, o \ {f})
  BY <1>2, <1>3, <1>4 DEF Knows
<1>6. QED
  BY <1>0, <1>2, <1>4, <1>5

\* What is queued behind others.
LEMMA ConcatItems ==
  ASSUME NEW Q \in Seq(Item), NEW fs \in Seq(Item)
  PROVE  /\ Q \o fs \in Seq(Item) /\ Len(Q \o fs) = Len(Q) + Len(fs) /\ Len(Q) \in Nat /\ Len(fs) \in Nat
         /\ \A i \in DOMAIN (Q \o fs) :
              \/ i \in DOMAIN Q /\ (Q \o fs)[i] = Q[i]
              \/ i > Len(Q) /\ i - Len(Q) \in DOMAIN fs /\ (Q \o fs)[i] = fs[i - Len(Q)]
         /\ \A i \in DOMAIN Q : i \in DOMAIN (Q \o fs) /\ (Q \o fs)[i] = Q[i] /\ i <= Len(Q) /\ i \in Nat
         /\ \A i \in DOMAIN fs : Len(Q) + i \in DOMAIN (Q \o fs) /\ (Q \o fs)[Len(Q) + i] = fs[i]
<1> DEFINE m == Len(Q)
           n == Len(fs)
           P == Q \o fs
<1>1. m \in Nat /\ n \in Nat /\ DOMAIN Q = 1 .. m /\ DOMAIN fs = 1 .. n
  OBVIOUS
<1>2. P \in Seq(Item) /\ Len(P) = m + n /\ DOMAIN P = 1 .. (m + n)
  OBVIOUS
<1>3. \A i \in 1 .. (m + n) : P[i] = IF i <= m THEN Q[i] ELSE fs[i - m]
  OBVIOUS
<1> HIDE DEF m, n, P
<1>4. \A i \in 1 .. (m + n) : (i <= m => i \in 1 .. m) /\ (~ (i <= m) => i > m /\ i - m \in 1 .. n)
  BY <1>1
<1>5. \A i \in 1 .. n : m + i \in 1 .. (m + n) /\ ~ (m + i <= m) /\ (m + i) - m = i
  BY <1>1
<1>6. \A i \in 1 .. m : i \in 1 .. (m + n) /\ i <= m /\ i \in Nat
  BY <1>1
<1>7. QED
  BY <1>1, <1>2, <1>3, <1>4, <1>5, <1>6 DEF m, n, P

\* A later subscribe frame queues refusals, behind what waits.
LEMMA QueueRefusals ==
  ASSUME NEW r, NEW A, NEW l, NEW S, NEW Q \in Seq(Item), QueueOK(r, Q, l, S, A),
         NEW fs \in Seq(Item), \A i \in DOMAIN fs : fs[i].kind = "refused"
  PROVE  QueueOK(r, Q \o fs, l, S, A) /\ \A lg, e : Covers(Q, lg, e) => Covers(Q \o fs, lg, e)
<1>1. /\ \A i \in DOMAIN (Q \o fs) :
           \/ i \in DOMAIN Q /\ (Q \o fs)[i] = Q[i]
           \/ i > Len(Q) /\ i - Len(Q) \in DOMAIN fs /\ (Q \o fs)[i] = fs[i - Len(Q)]
      /\ \A i \in DOMAIN Q : i \in DOMAIN (Q \o fs) /\ (Q \o fs)[i] = Q[i]
  BY ConcatItems
<1>2. PICK P : P = Q \o fs
  OBVIOUS
<1>3. \A i \in DOMAIN P : (i \in DOMAIN Q /\ P[i] = Q[i]) \/ P[i].kind = "refused"
  BY <1>1, <1>2
<1>4. \A i \in DOMAIN P : P[i].kind = "refused" => ~ IsEvent(P[i]) /\ P[i].kind # "reset"
  BY DEF IsEvent
<1>5. QueueOK(r, P, l, S, A)
  BY <1>3, <1>4 DEF QueueOK
<1>6. \A lg, e : Covers(Q, lg, e) => Covers(P, lg, e)
  BY <1>1, <1>2 DEF Covers
<1>7. QED
  BY <1>2, <1>5, <1>6

\* The first frame's events come behind its refusals.
LEMMA QueueBehindRefusals ==
  ASSUME NEW r, NEW A, NEW l, NEW S, NEW Q \in Seq(Item), QueueOK(r, Q, l, S, A),
         NEW fs \in Seq(Item), \A i \in DOMAIN fs : fs[i].kind = "refused"
  PROVE  QueueOK(r, fs \o Q, l, S, A) /\ \A lg, e : Covers(Q, lg, e) => Covers(fs \o Q, lg, e)
<1>1. /\ \A i \in DOMAIN (fs \o Q) :
           \/ i \in DOMAIN fs /\ (fs \o Q)[i] = fs[i]
           \/ i > Len(fs) /\ i - Len(fs) \in DOMAIN Q /\ (fs \o Q)[i] = Q[i - Len(fs)]
      /\ \A i \in DOMAIN Q : Len(fs) + i \in DOMAIN (fs \o Q) /\ (fs \o Q)[Len(fs) + i] = Q[i]
      /\ fs \o Q \in Seq(Item) /\ Len(fs) \in Nat
  BY ConcatItems
<1>2. PICK P, n : P = fs \o Q /\ n = Len(fs)
  OBVIOUS
<1>3. n \in Nat /\ \A i \in DOMAIN P : i \in Nat /\ (P[i].kind = "refused" \/ (i - n \in DOMAIN Q /\ P[i] = Q[i - n]))
  <2>1. \A i \in DOMAIN P : i \in Nat
    <3>1. P \in Seq(Item)
      BY <1>1, <1>2
    <3>2. QED
      BY <3>1
  <2>2. QED
    BY <1>1, <1>2, <2>1
<1>4. \A i \in DOMAIN P : P[i].kind = "refused" => ~ IsEvent(P[i]) /\ P[i].kind # "reset"
  BY DEF IsEvent
<1>5. \A i, j \in DOMAIN P : i < j => i - n < j - n
  BY <1>3
<1>6. QueueOK(r, P, l, S, A)
  BY <1>3, <1>4, <1>5 DEF QueueOK
<1>7. \A lg, e : Covers(Q, lg, e) => Covers(P, lg, e)
  <2>1. ASSUME NEW lg, NEW e, Covers(Q, lg, e) PROVE Covers(P, lg, e)
    <3>1. PICK i \in DOMAIN Q : \/ IsEvent(Q[i]) /\ Q[i].id = e
                                \/ Q[i].kind = "reset" /\ Q[i].topic = lg[e].topic /\ e <= Q[i].id
      BY <2>1 DEF Covers
    <3>2. PICK j : j = n + i
      OBVIOUS
    <3>3. j \in DOMAIN P /\ P[j] = Q[i]
      BY <1>1, <1>2, <3>2
    <3>4. QED
      BY <3>1, <3>3 DEF Covers
  <2>2. QED
    BY <2>1
<1>8. QED
  BY <1>2, <1>6, <1>7

\* The hub's own events: one per topic.
LEMMA OwnOK ==
  ASSUME NEW kind \in {"reset", "refused"}, NEW ts \in SUBSET HubTopics, NEW e \in 0 .. MaxEvents
  PROVE  /\ OwnEvents(kind, ts, e) \in Seq(Item) /\ Len(OwnEvents(kind, ts, e)) = Cardinality(ts) /\ Cardinality(ts) \in Nat
         /\ \A i \in DOMAIN OwnEvents(kind, ts, e) : OwnEvents(kind, ts, e)[i].kind = kind /\ OwnEvents(kind, ts, e)[i].id = e
         /\ \A t \in ts : \E i \in DOMAIN OwnEvents(kind, ts, e) : OwnEvents(kind, ts, e)[i].topic = t
<1>1. IsFiniteSet(ts)
  BY RealtimeAssumption, FS_Subset
<1>2. PICK n, s : n = Cardinality(ts) /\ s = SetToSeq(ts)
  OBVIOUS
<1>3. n \in Nat /\ (\A i \in 1 .. n : s[i] \in ts) /\ (\A t \in ts : \E i \in 1 .. n : s[i] = t)
  BY <1>1, <1>2, SetToSeqOK
<1>4. PICK f : f = OwnEvents(kind, ts, e)
  OBVIOUS
<1>5. f = [i \in 1 .. n |-> [kind |-> kind, id |-> e, topic |-> s[i]]]
  BY <1>2, <1>4 DEF OwnEvents
<1>6. \A i \in 1 .. n : f[i] \in Item /\ f[i].kind = kind /\ f[i].id = e /\ f[i].topic = s[i]
  BY <1>3, <1>5 DEF Item
<1>7. f \in Seq(Item) /\ Len(f) = n /\ DOMAIN f = 1 .. n
  <2>1. f \in [1 .. n -> Item]
    BY <1>5, <1>6
  <2>2. QED
    BY <1>3, <2>1
<1>8. QED
  BY <1>2, <1>3, <1>4, <1>6, <1>7

\* The log, and the events in it.
LogOK == log \in Seq([topic : HubTopics, hub : Hubs]) /\ Len(log) <= MaxEvents
LEMMA LogEvents ==
  ASSUME LogOK
  PROVE  DOMAIN log = 1 .. Len(log) /\ Len(log) \in 0 .. MaxEvents /\ DOMAIN log \subseteq Events
         /\ \A e \in DOMAIN log : log[e].topic \in HubTopics /\ log[e].hub \in Hubs /\ e \in 0 .. MaxEvents
<1>1. DOMAIN log = 1 .. Len(log) /\ Len(log) \in Nat /\ MaxEvents \in Nat
  BY RingAssumption DEF LogOK
<1>2. \A e \in DOMAIN log : log[e] \in [topic : HubTopics, hub : Hubs]
  <2>1. PICK T : T = [topic : HubTopics, hub : Hubs]
    OBVIOUS
  <2>2. log \in Seq(T)
    BY <2>1 DEF LogOK
  <2>3. QED
    BY <2>1, <2>2, SeqElement
<1>3. QED
  BY <1>1, <1>2 DEF LogOK, Events

\* Replayed events.
LEMMA ReplayedOK ==
  ASSUME LogOK, NEW es \in Seq(DOMAIN log)
  PROVE  /\ Replayed(es) \in Seq(Item) /\ Len(Replayed(es)) = Len(es) /\ DOMAIN Replayed(es) = DOMAIN es
         /\ \A i \in DOMAIN es : Replayed(es)[i].kind = "replay" /\ Replayed(es)[i].id = es[i]
<1>1. PICK n, f : n = Len(es) /\ f = Replayed(es)
  OBVIOUS
<1>2. n \in Nat /\ DOMAIN es = 1 .. n /\ \A i \in 1 .. n : es[i] \in DOMAIN log
  BY <1>1
<1>3. f = [i \in 1 .. n |-> [kind |-> "replay", id |-> es[i], topic |-> log[es[i]].topic]]
  BY <1>1, <1>2 DEF Replayed
<1>4. \A i \in 1 .. n : log[es[i]].topic \in HubTopics /\ es[i] \in 0 .. MaxEvents
  BY <1>2, LogEvents
<1>5. \A i \in 1 .. n : f[i] \in Item /\ f[i].kind = "replay" /\ f[i].id = es[i]
  BY <1>3, <1>4 DEF Item
<1>6. f \in Seq(Item) /\ Len(f) = n /\ DOMAIN f = 1 .. n
  <2>1. f \in [1 .. n -> Item]
    BY <1>3, <1>5
  <2>2. QED
    BY <1>2, <2>1
<1>7. QED
  BY <1>1, <1>2, <1>5, <1>6

\* since returns what the ring keeps of the topics after the event, in order.
LEMMA SinceOK ==
  ASSUME NEW h \in Hubs, RingOK(replay[h]), NEW e \in Events, kept(replay[h], e), NEW ts,
         \A f \in Events : kept(replay[h], f) => f \in DOMAIN log
  PROVE  /\ since(h, e, ts) \in Seq(DOMAIN log) /\ Len(since(h, e, ts)) <= ReplaySize
         /\ \A i \in DOMAIN since(h, e, ts) :
              /\ since(h, e, ts)[i] \in Events /\ kept(replay[h], since(h, e, ts)[i])
              /\ replay[h].pos[e] < replay[h].pos[since(h, e, ts)[i]]
         /\ \A i, j \in DOMAIN since(h, e, ts) : i < j => replay[h].pos[since(h, e, ts)[i]] < replay[h].pos[since(h, e, ts)[j]]
         /\ \A f \in Events : kept(replay[h], f) /\ replay[h].pos[e] < replay[h].pos[f] /\ log[f].topic \in ts =>
              \E i \in DOMAIN since(h, e, ts) : since(h, e, ts)[i] = f
<1>1. PICK r, es, I, s : /\ r = replay[h] /\ es = follow(replay[h], e)
                         /\ I = {i \in DOMAIN follow(replay[h], e) : log[follow(replay[h], e)[i]].topic \in ts}
                         /\ s = since(h, e, ts)
  OBVIOUS
<1>2. /\ es \in Seq(Events) /\ Len(es) <= ReplaySize
      /\ \A i \in DOMAIN es : kept(r, es[i]) /\ r.pos[es[i]] = r.pos[e] + i
      /\ \A f \in Events : kept(r, f) /\ r.pos[e] < r.pos[f] => \E i \in DOMAIN es : es[i] = f
  BY <1>1, FollowOK
<1>3. I = {i \in DOMAIN es : log[es[i]].topic \in ts} /\ I \in SUBSET DOMAIN es
  BY <1>1
<1>4. s = Picked(es, I)
  BY <1>1 DEF since
<1>5. PICK n : n = Cardinality(I)
  OBVIOUS
<1>6. DOMAIN es = 1 .. Len(es) /\ Len(es) \in Nat /\ r.pos[e] \in Nat /\ \A i \in DOMAIN es : es[i] \in Events /\ i \in Nat /\ i > 0
  <2>1. r.pos[e] \in Nat
    BY <1>1 DEF RingOK, IsRing, kept
  <2>2. DOMAIN es = 1 .. Len(es) /\ Len(es) \in Nat
    BY <1>2
  <2>3. QED
    BY <1>2, <2>1, <2>2
<1>7. \A i \in DOMAIN es : es[i] \in DOMAIN log
  BY <1>1, <1>2, <1>6
<1>8. /\ n \in Nat /\ n <= Len(es) /\ s \in Seq(Events) /\ Len(s) = n
      /\ \A j \in 1 .. n : Nth(I, j) \in I /\ s[j] = es[Nth(I, j)]
      /\ \A j, m \in 1 .. n : j < m => Nth(I, j) < Nth(I, m)
      /\ \A i \in I : \E j \in 1 .. n : Nth(I, j) = i
  <2>1. es \in Seq(Events) /\ I \in SUBSET DOMAIN es
    BY <1>2, <1>3
  <2>2. /\ Cardinality(I) \in Nat /\ Cardinality(I) <= Len(es)
        /\ Picked(es, I) \in Seq(Events) /\ Len(Picked(es, I)) = Cardinality(I)
        /\ \A j \in 1 .. Cardinality(I) : Nth(I, j) \in I /\ Picked(es, I)[j] = es[Nth(I, j)]
        /\ \A j, m \in 1 .. Cardinality(I) : j < m => Nth(I, j) < Nth(I, m)
        /\ \A i \in I : \E j \in 1 .. Cardinality(I) : Nth(I, j) = i
    BY <2>1, PickedOK
  <2>3. QED
    BY <1>4, <1>5, <2>2
<1>9. DOMAIN s = 1 .. n
  BY <1>8
<1>10. \A j \in 1 .. n : s[j] \in Events /\ s[j] \in DOMAIN log /\ kept(r, s[j]) /\ r.pos[s[j]] = r.pos[e] + Nth(I, j) /\ Nth(I, j) \in Nat /\ Nth(I, j) > 0
  BY <1>2, <1>3, <1>6, <1>7, <1>8
<1>11. s \in Seq(DOMAIN log) /\ Len(s) <= ReplaySize
  <2>1. s \in [1 .. n -> DOMAIN log]
    <3>1. s = [j \in 1 .. n |-> s[j]]
      BY <1>8, <1>9
    <3>2. QED
      BY <1>10, <3>1
  <2>2. s \in Seq(DOMAIN log)
    <3>1. PICK D : D = DOMAIN log
      OBVIOUS
    <3>2. s \in [1 .. n -> D] /\ n \in Nat
      BY <1>8, <2>1, <3>1
    <3>3. s \in Seq(D)
      BY <3>2
    <3>4. QED
      BY <3>1, <3>3
  <2>3. Len(s) <= ReplaySize
    BY <1>2, <1>6, <1>8, RingAssumption
  <2>4. QED
    BY <2>2, <2>3
<1>12. \A j \in 1 .. n : r.pos[e] < r.pos[s[j]]
  BY <1>6, <1>10
<1>13. \A j, m \in 1 .. n : j < m => r.pos[s[j]] < r.pos[s[m]]
  <2>1. ASSUME NEW j \in 1 .. n, NEW m \in 1 .. n, j < m PROVE r.pos[s[j]] < r.pos[s[m]]
    <3>1. Nth(I, j) < Nth(I, m)
      BY <1>8, <2>1
    <3>2. PICK a, b : a = Nth(I, j) /\ b = Nth(I, m)
      OBVIOUS
    <3>3. r.pos[s[j]] = r.pos[e] + a /\ r.pos[s[m]] = r.pos[e] + b /\ a \in Nat /\ b \in Nat /\ a < b
      BY <1>10, <3>1, <3>2
    <3>4. QED
      BY <1>6, <3>3
  <2>2. QED
    BY <2>1
<1>14. ASSUME NEW f \in Events, kept(r, f), r.pos[e] < r.pos[f], log[f].topic \in ts PROVE \E j \in 1 .. n : s[j] = f
  <2>1. PICK i \in DOMAIN es : es[i] = f
    BY <1>2, <1>14
  <2>2. i \in I
    BY <1>3, <1>14, <2>1
  <2>3. QED
    BY <1>8, <2>1, <2>2
<1>15. QED
  BY <1>1, <1>9, <1>10, <1>11, <1>12, <1>13, <1>14

\* Refusals are no events.
LEMMA RefusalsOK ==
  ASSUME NEW ts \in SUBSET HubTopics
  PROVE  /\ OwnEvents("refused", ts, 0) \in Seq(Item) /\ Len(OwnEvents("refused", ts, 0)) = Cardinality(ts) /\ Cardinality(ts) \in Nat
         /\ \A i \in DOMAIN OwnEvents("refused", ts, 0) : OwnEvents("refused", ts, 0)[i].kind = "refused"
<1>1. PICK kd, z : z = 0 /\ kd = "refused"
  OBVIOUS
<1>2. z \in 0 .. MaxEvents /\ kd \in {"reset", "refused"}
  BY <1>1, RingAssumption
<1>3. /\ OwnEvents(kd, ts, z) \in Seq(Item) /\ Len(OwnEvents(kd, ts, z)) = Cardinality(ts) /\ Cardinality(ts) \in Nat
      /\ \A i \in DOMAIN OwnEvents(kd, ts, z) : OwnEvents(kd, ts, z)[i].kind = kd /\ OwnEvents(kd, ts, z)[i].id = z
      /\ \A t \in ts : \E i \in DOMAIN OwnEvents(kd, ts, z) : OwnEvents(kd, ts, z)[i].topic = t
  BY <1>2, OwnOK
<1>4. QED
  BY <1>1, <1>3

\* What attach queues: items, refusals alone unless the client resumes, and not
\* more than a refusal or a reset per topic and the whole ring.
LEMMA FramesType ==
  ASSUME LogOK, NEW c, c.hub \in Hubs, c.asked \subseteq HubTopics, c.refused \subseteq HubTopics, c.after \in 0 .. MaxEvents,
         RingOK(replay[c.hub]), \A f \in Events : kept(replay[c.hub], f) => f \in DOMAIN log
  PROVE  /\ frames(c) \in Seq(Item)
         /\ c.after = 0 => \A i \in DOMAIN frames(c) : frames(c)[i].kind = "refused"
         /\ c.after = 0 \/ ~ kept(replay[c.hub], c.after) => \A i \in DOMAIN frames(c) : ~ IsEvent(frames(c)[i])
         /\ Len(frames(c)) <= Cardinality(c.refused) + Cardinality(c.asked) + ReplaySize
         /\ \A i \in DOMAIN frames(c) : frames(c)[i].kind # "live"
<1>1. PICK r, l, h, ts, R : r = replay[c.hub] /\ l = c.after /\ h = c.hub /\ ts = c.asked /\ R = OwnEvents("refused", c.refused, 0)
  OBVIOUS
<1> DEFINE Z == OwnEvents("reset", ts, Len(log))
           Y == Replayed(since(h, l, ts))
<1>2. frames(c) = R \o (IF l = 0 THEN <<>> ELSE IF kept(r, l) THEN Y ELSE Z)
  BY <1>1 DEF frames
<1>3. Len(log) \in 0 .. MaxEvents /\ MaxEvents \in Nat /\ 0 \in 0 .. MaxEvents /\ ReplaySize \in Nat
  BY LogEvents, RingAssumption
<1>4. R \in Seq(Item) /\ Len(R) = Cardinality(c.refused) /\ Cardinality(c.refused) \in Nat /\ \A i \in DOMAIN R : R[i].kind = "refused"
  <2>1. PICK x : x = c.refused
    OBVIOUS
  <2>2. x \in SUBSET HubTopics /\ R = OwnEvents("refused", x, 0)
    BY <1>1, <2>1
  <2>3. QED
    BY <2>1, <2>2, RefusalsOK
<1>5. Cardinality(ts) \in Nat
  <2>1. ts \in SUBSET HubTopics /\ "reset" \in {"reset", "refused"}
    BY <1>1
  <2>2. QED
    BY <1>3, <2>1, OwnOK
<1>6. ASSUME NEW X \in Seq(Item), \A i \in DOMAIN X : X[i].kind # "live"
      PROVE  /\ R \o X \in Seq(Item) /\ Len(R \o X) = Len(R) + Len(X) /\ Len(X) \in Nat
             /\ \A i \in DOMAIN (R \o X) : (R \o X)[i].kind # "live"
  <2>1. /\ R \o X \in Seq(Item) /\ Len(R \o X) = Len(R) + Len(X) /\ Len(X) \in Nat
        /\ \A i \in DOMAIN (R \o X) :
              \/ i \in DOMAIN R /\ (R \o X)[i] = R[i]
              \/ i > Len(R) /\ i - Len(R) \in DOMAIN X /\ (R \o X)[i] = X[i - Len(R)]
    BY <1>4, ConcatItems
  <2>2. QED
    BY <1>4, <1>6, <2>1
<1>7. CASE l = 0
  <2>1. frames(c) = R
    <3>1. frames(c) = R \o <<>>
      BY <1>2, <1>7
    <3>2. R \o <<>> = R
      BY <1>4
    <3>3. QED
      BY <3>1, <3>2
  <2>2. Len(R) <= Cardinality(c.refused) + Cardinality(ts) + ReplaySize
    BY <1>3, <1>4, <1>5
  <2>3. QED
    BY <1>1, <1>4, <1>7, <2>1, <2>2 DEF IsEvent
<1>8. CASE l # 0 /\ kept(r, l)
  <2>1. frames(c) = R \o Y
    BY <1>2, <1>8
  <2>2. l \in Events
    BY <1>1, <1>3, <1>8 DEF Events
  <2>3. PICK s : s = since(h, l, ts)
    OBVIOUS
  <2>4. s \in Seq(DOMAIN log) /\ Len(s) <= ReplaySize
    BY <1>1, <1>8, <2>2, <2>3, SinceOK
  <2>5. Y \in Seq(Item) /\ Len(Y) = Len(s) /\ DOMAIN Y = DOMAIN s /\ \A i \in DOMAIN s : Y[i].kind = "replay"
    BY <2>3, <2>4, ReplayedOK
  <2> HIDE DEF Y
  <2>6. R \o Y \in Seq(Item) /\ Len(R \o Y) = Len(R) + Len(Y) /\ Len(Y) \in Nat /\ \A i \in DOMAIN (R \o Y) : (R \o Y)[i].kind # "live"
    BY <1>6, <2>5
  <2>7. Len(R \o Y) <= Cardinality(c.refused) + Cardinality(ts) + ReplaySize
    BY <1>3, <1>4, <1>5, <2>4, <2>5, <2>6
  <2>8. QED
    BY <1>1, <1>8, <2>1, <2>6, <2>7
<1>9. CASE l # 0 /\ ~ kept(r, l)
  <2>1. frames(c) = R \o Z
    BY <1>2, <1>9
  <2>2. Z \in Seq(Item) /\ Len(Z) = Cardinality(ts) /\ \A i \in DOMAIN Z : Z[i].kind = "reset"
    <3>1. PICK m : m = Len(log)
      OBVIOUS
    <3>2. m \in 0 .. MaxEvents /\ ts \in SUBSET HubTopics /\ "reset" \in {"reset", "refused"}
      BY <1>1, <1>3, <3>1
    <3>3. Z = OwnEvents("reset", ts, m)
      BY <3>1
    <3> HIDE DEF Z
    <3>4. /\ OwnEvents("reset", ts, m) \in Seq(Item) /\ Len(OwnEvents("reset", ts, m)) = Cardinality(ts)
          /\ \A i \in DOMAIN OwnEvents("reset", ts, m) : OwnEvents("reset", ts, m)[i].kind = "reset"
      BY <3>2, OwnOK
    <3>5. QED
      BY <3>3, <3>4
  <2> HIDE DEF Z
  <2>3. R \o Z \in Seq(Item) /\ Len(R \o Z) = Len(R) + Len(Z) /\ \A i \in DOMAIN (R \o Z) : (R \o Z)[i].kind # "live"
    BY <1>6, <2>2
  <2>3a. \A i \in DOMAIN (R \o Z) : ~ IsEvent((R \o Z)[i])
    <3>1. \A i \in DOMAIN (R \o Z) :
             \/ i \in DOMAIN R /\ (R \o Z)[i] = R[i]
             \/ i > Len(R) /\ i - Len(R) \in DOMAIN Z /\ (R \o Z)[i] = Z[i - Len(R)]
      BY <1>4, <2>2, ConcatItems
    <3>2. QED
      BY <1>4, <2>2, <3>1 DEF IsEvent
  <2>4. Len(R \o Z) <= Cardinality(c.refused) + Cardinality(ts) + ReplaySize
    BY <1>3, <1>4, <1>5, <2>2, <2>3
  <2>5. QED
    BY <1>1, <1>9, <2>1, <2>3, <2>3a, <2>4
<1>10. QED
  BY <1>7, <1>8, <1>9

\* What the first frame of a connection queues tells the client all it missed.
LEMMA FramesOK ==
  ASSUME LogOK, NEW c, c.hub \in Hubs, c.asked \subseteq HubTopics, c.refused \subseteq HubTopics,
         RingOK(replay[c.hub]), NEW A \in SUBSET DOMAIN log, \A f \in Events : kept(replay[c.hub], f) => f \in A,
         NEW S, NEW o, Knows(replay[c.hub], A, c.after, S, o)
  PROVE  /\ QueueOK(replay[c.hub], frames(c), c.after, S, A)
         /\ c.after # 0 => \A e \in o \cap A : log[e].topic \in c.asked => Covers(frames(c), log, e)
<1>1. PICK r, l, h, ts, R : r = replay[c.hub] /\ l = c.after /\ h = c.hub /\ ts = c.asked /\ R = OwnEvents("refused", c.refused, 0)
  OBVIOUS
<1> DEFINE Z == OwnEvents("reset", ts, Len(log))
           Y == Replayed(since(h, l, ts))
<1>2. frames(c) = R \o (IF l = 0 THEN <<>> ELSE IF kept(r, l) THEN Y ELSE Z)
  BY <1>1 DEF frames
<1>3. /\ DOMAIN log = 1 .. Len(log) /\ Len(log) \in 0 .. MaxEvents /\ DOMAIN log \subseteq Events /\ MaxEvents \in Nat
      /\ 0 \in 0 .. MaxEvents
  BY LogEvents, RingAssumption
<1>4. R \in Seq(Item) /\ \A i \in DOMAIN R : R[i].kind = "refused"
  <2>1. PICK x : x = c.refused
    OBVIOUS
  <2>2. x \in SUBSET HubTopics /\ R = OwnEvents("refused", x, 0)
    BY <1>1, <2>1
  <2>3. QED
    BY <2>2, RefusalsOK
<1>6. \A X \in Seq(Item) : QueueOK(r, X, l, S, A) => QueueOK(r, R \o X, l, S, A) /\ \A e : Covers(X, log, e) => Covers(R \o X, log, e)
  BY <1>4, QueueBehindRefusals
<1>8. CASE l = 0
  <2>1. frames(c) = R
    <3>1. frames(c) = R \o <<>>
      BY <1>2, <1>8
    <3>2. R \o <<>> = R
      BY <1>4
    <3>3. QED
      BY <3>1, <3>2
  <2>2. QueueOK(r, R, l, S, A)
    BY <1>4 DEF QueueOK, IsEvent
  <2>3. QED
    BY <1>1, <1>8, <2>1, <2>2
<1>9. CASE l # 0 /\ kept(r, l)
  <2>1. frames(c) = R \o Y
    BY <1>2, <1>9
  <2>2. l \in S /\ S \subseteq A /\ l \in Events
    BY <1>1, <1>3, <1>9 DEF Knows
  <2>3. PICK s : s = since(h, l, ts)
    OBVIOUS
  <2>4. /\ s \in Seq(DOMAIN log)
        /\ \A i \in DOMAIN s : s[i] \in Events /\ kept(r, s[i]) /\ r.pos[l] < r.pos[s[i]]
        /\ \A i, j \in DOMAIN s : i < j => r.pos[s[i]] < r.pos[s[j]]
        /\ \A f \in Events : kept(r, f) /\ r.pos[l] < r.pos[f] /\ log[f].topic \in ts => \E i \in DOMAIN s : s[i] = f
    BY <1>1, <1>9, <2>2, <2>3, SinceOK
  <2>5. /\ Y \in Seq(Item) /\ DOMAIN Y = DOMAIN s
        /\ \A i \in DOMAIN s : Y[i].kind = "replay" /\ Y[i].id = s[i]
    BY <2>3, <2>4, ReplayedOK
  <2> HIDE DEF Y
  <2>6. \A x \in Events : r.pos[x] \in Int
    BY <1>1 DEF RingOK, IsRing, NoPos
  <2>7. ASSUME NEW i \in DOMAIN s PROVE s[i] \in A \ S /\ After(r, l, s[i])
    <3>1. s[i] \in A /\ After(r, l, s[i]) /\ s[i] # l
      BY <1>1, <2>2, <2>4, <2>6 DEF After
    <3>2. s[i] \notin S
      <4>1. SUFFICES ASSUME s[i] \in S PROVE FALSE
        OBVIOUS
      <4>2. After(r, s[i], l)
        BY <1>1, <3>1, <4>1 DEF Knows
      <4>3. PICK f : f = s[i]
        OBVIOUS
      <4>4. r.pos[f] < r.pos[l] /\ r.pos[l] < r.pos[f] /\ f \in Events
        BY <2>4, <4>2, <4>3 DEF After
      <4>5. QED
        BY <2>2, <2>6, <4>4
    <3>3. QED
      BY <3>1, <3>2
  <2>8. ASSUME NEW i \in DOMAIN s, NEW j \in DOMAIN s, i < j PROVE s[i] # s[j] /\ After(r, s[i], s[j])
    <3>1. PICK f, g : f = s[i] /\ g = s[j]
      OBVIOUS
    <3>2. f \in Events /\ g \in Events /\ kept(r, g) /\ r.pos[f] < r.pos[g]
      BY <2>4, <2>8, <3>1
    <3>3. f # g /\ After(r, f, g)
      BY <2>6, <3>2 DEF After
    <3>4. QED
      BY <3>1, <3>3
  <2>9. QueueOK(r, Y, l, S, A)
    BY <2>5, <2>7, <2>8 DEF QueueOK
  <2>10. ASSUME NEW e \in o \cap A, log[e].topic \in ts PROVE Covers(Y, log, e)
    <3>1. After(r, l, e) /\ e \in Events
      BY <1>1, <1>3, <1>9 DEF Knows
    <3>2. PICK i \in DOMAIN s : s[i] = e
      BY <1>9, <2>4, <2>10, <3>1 DEF After
    <3>3. QED
      BY <2>5, <3>2 DEF Covers, IsEvent
  <2>11. QED
    BY <1>1, <1>6, <1>9, <2>1, <2>5, <2>9, <2>10
<1>10. CASE l # 0 /\ ~ kept(r, l)
  <2>1. frames(c) = R \o Z
    BY <1>2, <1>10
  <2>2. /\ Z \in Seq(Item)
        /\ \A i \in DOMAIN Z : Z[i].kind = "reset" /\ Z[i].id = Len(log)
        /\ \A t \in ts : \E i \in DOMAIN Z : Z[i].topic = t
    <3>1. PICK m : m = Len(log)
      OBVIOUS
    <3>2. m \in 0 .. MaxEvents /\ ts \in SUBSET HubTopics /\ "reset" \in {"reset", "refused"}
      BY <1>1, <1>3, <3>1
    <3>3. Z = OwnEvents("reset", ts, m)
      BY <3>1
    <3> HIDE DEF Z
    <3>4. PICK kd : kd = "reset"
      OBVIOUS
    <3>5. /\ OwnEvents(kd, ts, m) \in Seq(Item) /\ Len(OwnEvents(kd, ts, m)) = Cardinality(ts) /\ Cardinality(ts) \in Nat
          /\ \A i \in DOMAIN OwnEvents(kd, ts, m) : OwnEvents(kd, ts, m)[i].kind = kd /\ OwnEvents(kd, ts, m)[i].id = m
          /\ \A t \in ts : \E i \in DOMAIN OwnEvents(kd, ts, m) : OwnEvents(kd, ts, m)[i].topic = t
      BY <3>2, <3>4, OwnOK
    <3>6. QED
      BY <3>1, <3>3, <3>4, <3>5
  <2> HIDE DEF Z
  <2>3. QueueOK(r, Z, l, S, A)
    BY <2>2 DEF QueueOK, IsEvent
  <2>4. ASSUME NEW e \in o \cap A, log[e].topic \in ts PROVE Covers(Z, log, e)
    <3>1. PICK i \in DOMAIN Z : Z[i].topic = log[e].topic
      BY <2>2, <2>4
    <3>2. Z[i].kind = "reset" /\ Z[i].id = Len(log) /\ e <= Len(log)
      BY <1>3, <2>2
    <3>3. QED
      BY <3>1, <3>2 DEF Covers
  <2>5. QED
    BY <1>1, <1>6, <1>10, <2>1, <2>2, <2>3, <2>4
<1>11. QED
  BY <1>8, <1>9, <1>10

-----------------------------------------------------------------------------
(* Nothing is lost and nothing is doubled.                                 *)

\* The events that have come to the hub: those published there, and those of the
\* other replicas that the backplane has brought.
Arrived(h) == {e \in DOMAIN log : log[e].hub = h \/ e \notin OnTheWay(h)}

\* There is one replica, or the replicas hear of each other's events and a client
\* stays on its own.
OneReplica == \A g, h \in Hubs : g = h
StaysWhereHeard == OneReplica \/ (Redis /\ ~ Roams)

\* The types of the state.
StateOK ==
  /\ LogOK
  /\ replay = [h \in Hubs |-> replay[h]] /\ inbox = [h \in Hubs |-> inbox[h]] /\ lost = [h \in Hubs |-> lost[h]]
  /\ conn = [k \in Slots |-> conn[k]]
  /\ cur \in [Clients -> 0 .. MaxConns] /\ wants \in [Clients -> SUBSET HubTopics]
  /\ last = [u \in Clients |-> last[u]] /\ seen = [u \in Clients |-> seen[u]] /\ owed = [u \in Clients |-> owed[u]]

\* A hub keeps events that have come to it.
RingsInv == \A h \in Hubs : RingOK(replay[h]) /\ \A e \in Events : kept(replay[h], e) => e \in Arrived(h)

\* An event is on its way to a hub in one place.
PlaneInv ==
  /\ unsent \subseteq DOMAIN log
  /\ \A h \in Hubs :
       /\ inbox[h] \in Seq(DOMAIN log) /\ lost[h] \subseteq DOMAIN log
       /\ \A i, j \in DOMAIN inbox[h] : inbox[h][i] = inbox[h][j] => i = j
       /\ \A i \in DOMAIN inbox[h] : inbox[h][i] \notin unsent \cup lost[h]
       /\ unsent \cap lost[h] = {}

\* A connection that is not open has no topics, and one that is over none waiting.
ConnShape(c) ==
  /\ IsConn(c)
  /\ c.hub \in Hubs /\ c.queue \in Seq(Item) /\ c.after \in 0 .. MaxEvents
  /\ c.asked \subseteq HubTopics /\ c.refused \subseteq HubTopics /\ c.topics \subseteq HubTopics
  /\ c.phase \in {"none", "gone"} => c.topics = {} /\ c.queue = <<>>
  /\ c.ended => c.queue = <<>>

Over(c) == c.cut \/ c.ended \/ c.phase = "gone"

\* The latest connection of a client is the only one that may be served.
SlotsInv ==
  \A k \in Slots :
    /\ ConnShape(conn[k])
    /\ k[2] > cur[k[1]] => conn[k] = noConn
    /\ k[2] < cur[k[1]] => Over(conn[k])

\* What each client knows of its replica's events.
ClientsInv ==
  \A u \in Clients :
    /\ owed[u] \subseteq EventsOf(wants[u])
    /\ cur[u] = 0 => last[u] = 0 /\ seen[u] = {} /\ wants[u] = {}
    /\ cur[u] # 0 => LET h == conn[<<u, cur[u]>>].hub IN Knows(replay[h], Arrived(h), last[u], seen[u], owed[u])

\* The connection's first subscription is not attached yet: it resumes after the
\* last event the client saw, and asks for all the client follows.
Resuming(c, l, w) ==
  /\ c.topics = {} /\ c.queue = <<>>
  /\ \/ c.phase = "idle" /\ c.fresh
     \/ ~ c.fresh /\ c.after = l /\ c.phase = "asking" /\ w \subseteq c.asked
     \/ ~ c.fresh /\ c.after = l /\ c.phase = "ready" /\ w \subseteq c.asked \cup c.refused

\* It is attached to all the client follows, and all the client is owed waits in
\* its queue, if it has come to the hub.
Following(c, w, o, A, lg) ==
  /\ ~ c.fresh /\ c.after = 0 /\ w \subseteq c.topics
  /\ \A e \in o \cap A : Covers(c.queue, lg, e)

Serves(c, r, A, lg, l, S, w, o) ==
  QueueOK(r, c.queue, l, S, A) /\ (Resuming(c, l, w) \/ Following(c, w, o, A, lg))

UpInv ==
  \A k \in Slots : k[2] = cur[k[1]] /\ ~ Over(conn[k]) =>
    Serves(conn[k], replay[conn[k].hub], Arrived(conn[k].hub), log, last[k[1]], seen[k[1]], wants[k[1]], owed[k[1]])

\* The inductive invariant.
DeliveryInv == StateOK /\ RingsInv /\ PlaneInv /\ SlotsInv /\ ClientsInv /\ UpInv

-----------------------------------------------------------------------------
\* A slot is a client and a number.
LEMMA SlotParts ==
  /\ \A k \in Slots : k[1] \in Clients /\ k[2] \in 1 .. MaxConns /\ k = <<k[1], k[2]>> /\ k[2] \in Nat /\ k[2] > 0
  /\ \A u \in Clients, n \in 1 .. MaxConns : <<u, n>> \in Slots /\ <<u, n>>[1] = u /\ <<u, n>>[2] = n
  BY RealtimeAssumption DEF Slots

\* What has come to a hub is in the log.
LEMMA ArrivedLogged == ASSUME LogOK, NEW h PROVE Arrived(h) \in SUBSET DOMAIN log /\ Arrived(h) \in SUBSET Events
  BY LogEvents DEF Arrived

\* The invariant is what DeliveredWhole says, and more.
LEMMA DeliveryInvWhole == ASSUME DeliveryInv PROVE DeliveredWhole
<1>1. ASSUME NEW k \in Slots, Attended(k)
      PROVE  /\ (owed[k[1]] \cap EventsOf(conn[k].topics)) \subseteq (Queued(k) \cup Reset(k) \cup OnTheWay(conn[k].hub))
             /\ Queued(k) \cap seen[k[1]] = {}
             /\ \A i, j \in Waiting(k) : conn[k].queue[i].id = conn[k].queue[j].id => i = j
  <2>1. PICK c, u, h : c = conn[k] /\ u = k[1] /\ h = conn[k].hub
    OBVIOUS
  <2>2. ConnShape(c) /\ u \in Clients /\ h \in Hubs /\ c.queue \in Seq(Item)
    BY <2>1, SlotParts DEF DeliveryInv, SlotsInv, ConnShape
  <2>3. CASE c.phase = "gone"
    <3>1. c.queue = <<>> /\ c.topics = {}
      BY <2>2, <2>3 DEF ConnShape
    <3>2. EventsOf(c.topics) = {} /\ Waiting(k) = {}
      BY <2>1, <3>1 DEF EventsOf, Waiting
    <3>3. QED
      BY <2>1, <3>2 DEF Queued
  <2>4. CASE c.phase # "gone"
    <3>1. Serves(c, replay[h], Arrived(h), log, last[u], seen[u], wants[u], owed[u])
      BY <1>1, <2>1, <2>4 DEF DeliveryInv, UpInv, Attended, Over
    <3>2. QueueOK(replay[h], c.queue, last[u], seen[u], Arrived(h))
      BY <3>1 DEF Serves
    <3>3. \A i \in Waiting(k) : i \in DOMAIN c.queue /\ IsEvent(c.queue[i]) /\ i \in Nat
      <4>1. \A i \in DOMAIN c.queue : i \in Nat
        BY <2>2
      <4>2. QED
        BY <2>1, <4>1 DEF Waiting, IsEvent
    <3>4. Queued(k) \cap seen[u] = {}
      BY <2>1, <3>2, <3>3 DEF Queued, QueueOK
    <3>5. ASSUME NEW i \in Waiting(k), NEW j \in Waiting(k), c.queue[i].id = c.queue[j].id PROVE i = j
      <4>1. ~ (i < j) /\ ~ (j < i) /\ i \in Nat /\ j \in Nat
        BY <3>2, <3>3, <3>5 DEF QueueOK
      <4>2. QED
        BY <4>1
    <3>6. ASSUME NEW e \in owed[u], e \in EventsOf(c.topics) PROVE e \in Queued(k) \cup Reset(k) \cup OnTheWay(h)
      <4>1. e \in DOMAIN log /\ c.topics # {}
        BY <3>6 DEF EventsOf
      <4>2. CASE e \notin Arrived(h)
        BY <4>1, <4>2 DEF Arrived
      <4>3. CASE e \in Arrived(h)
        <5>1. Following(c, wants[u], owed[u], Arrived(h), log)
          BY <3>1, <4>1 DEF Serves, Resuming
        <5>2. Covers(c.queue, log, e)
          BY <3>6, <4>3, <5>1 DEF Following
        <5>3. PICK i \in DOMAIN c.queue : \/ IsEvent(c.queue[i]) /\ c.queue[i].id = e
                                          \/ c.queue[i].kind = "reset" /\ c.queue[i].topic = log[e].topic /\ e <= c.queue[i].id
          BY <5>2 DEF Covers
        <5>4. QED
          BY <2>1, <4>1, <5>3 DEF Queued, Waiting, IsEvent, Reset
      <4>4. QED
        BY <4>2, <4>3
    <3>7. QED
      BY <2>1, <3>4, <3>5, <3>6
  <2>5. QED
    BY <2>3, <2>4
<1>2. QED
  BY <1>1 DEF DeliveredWhole, NothingMissed, NothingDoubled

\* No connection.
LEMMA NoConnShape ==
  /\ ConnShape(noConn) /\ ~ Over(noConn) /\ noConn.fresh = TRUE /\ noConn.after = 0
  /\ noConn.asked = {} /\ noConn.refused = {} /\ noConn.cut = FALSE /\ noConn.wake = FALSE /\ noConn.writer = "waiting"
<1>1. IsConn(noConn)
  BY NoConnOK DEF ConnOK
<1>2. noConn.hub = CHOOSE h \in Hubs : TRUE
  BY DEF noConn
<1>3. noConn.hub \in Hubs
  BY <1>2, RealtimeAssumption
<1>4. noConn.queue = <<>> /\ noConn.asked = {} /\ noConn.refused = {} /\ noConn.topics = {} /\ noConn.fresh = TRUE /\ noConn.after = 0
      /\ noConn.cut = FALSE /\ noConn.ended = FALSE /\ noConn.phase = "none" /\ noConn.wake = FALSE /\ noConn.writer = "waiting"
  BY DEF noConn
<1>5. QED
  BY <1>1, <1>3, <1>4, RingAssumption DEF ConnShape, Over

\* At the start nothing is published and nobody is connected.
LEMMA DeliveryInitInv == ASSUME HubInit PROVE DeliveryInv
<1>1. LogOK /\ DOMAIN log = {} /\ Len(log) = 0
  BY RingAssumption DEF HubInit, LogOK
<1>2. StateOK
  <2>1. /\ replay = [h \in Hubs |-> replay[h]] /\ inbox = [h \in Hubs |-> inbox[h]] /\ lost = [h \in Hubs |-> lost[h]]
        /\ conn = [k \in Slots |-> conn[k]]
        /\ last = [u \in Clients |-> last[u]] /\ seen = [u \in Clients |-> seen[u]] /\ owed = [u \in Clients |-> owed[u]]
    BY DEF HubInit
  <2>2. cur \in [Clients -> 0 .. MaxConns] /\ wants \in [Clients -> SUBSET HubTopics]
    BY RealtimeAssumption DEF HubInit
  <2>3. QED
    BY <1>1, <2>1, <2>2 DEF StateOK
<1>3. RingsInv
  BY NewRingOK DEF HubInit, RingsInv
<1>4. PlaneInv
  BY <1>1 DEF HubInit, PlaneInv
<1>5. ASSUME NEW k \in Slots PROVE conn[k] = noConn /\ cur[k[1]] = 0 /\ k[2] > 0 /\ k[2] \in Nat
  BY SlotParts DEF HubInit
<1>6. SlotsInv
  BY <1>5, NoConnShape DEF SlotsInv
<1>7. ClientsInv
  BY DEF HubInit, ClientsInv
<1>8. UpInv
  BY <1>5 DEF UpInv
<1>9. QED
  BY <1>2, <1>3, <1>4, <1>6, <1>7, <1>8 DEF DeliveryInv

-----------------------------------------------------------------------------
(* Each step keeps the invariant.                                          *)

\* The latest connection of a client.
LEMMA Latest ==
  ASSUME DeliveryInv, NEW u \in Clients, cur[u] # 0
  PROVE  <<u, cur[u]>> \in Slots /\ ConnShape(conn[<<u, cur[u]>>]) /\ conn[<<u, cur[u]>>].hub \in Hubs
<1>1. cur[u] \in 1 .. MaxConns
  BY RealtimeAssumption DEF DeliveryInv, StateOK
<1>2. <<u, cur[u]>> \in Slots
  BY <1>1, SlotParts
<1>3. QED
  BY <1>2 DEF DeliveryInv, SlotsInv, ConnShape

\* The events on their way move on.
LEMMA PlaneMoves ==
  ASSUME DeliveryInv, UNCHANGED <<log, replay, conn, clientVars>>, PlaneInv',
         inbox' = [h \in Hubs |-> inbox'[h]], lost' = [h \in Hubs |-> lost'[h]],
         \A h \in Hubs : Arrived(h)' = Arrived(h)
  PROVE  DeliveryInv'
<1>1. cur' = cur /\ last' = last /\ seen' = seen /\ wants' = wants /\ owed' = owed
  BY DEF clientVars
<1>2. StateOK' /\ SlotsInv'
  BY <1>1 DEF DeliveryInv, StateOK, SlotsInv, LogOK
<1>3. RingsInv'
  BY DEF DeliveryInv, RingsInv
<1>4. ClientsInv'
  <2>1. ASSUME NEW u \in Clients, cur[u] # 0
        PROVE  LET h == conn[<<u, cur[u]>>].hub IN Knows(replay[h], Arrived(h)', last[u], seen[u], owed[u])
    <3>1. PICK h : h = conn[<<u, cur[u]>>].hub
      OBVIOUS
    <3>2. h \in Hubs
      BY <2>1, <3>1, Latest
    <3>3. Knows(replay[h], Arrived(h), last[u], seen[u], owed[u])
      BY <2>1, <3>1 DEF DeliveryInv, ClientsInv
    <3>4. Knows(replay[h], Arrived(h)', last[u], seen[u], owed[u])
      BY <3>2, <3>3
    <3>5. QED
      BY <1>1, <3>1, <3>4
  <2>2. \A ts : EventsOf(ts)' = EventsOf(ts)
    BY DEF EventsOf
  <2>3. QED
    BY <1>1, <2>1, <2>2 DEF DeliveryInv, ClientsInv
<1>5. UpInv'
  <2>1. \A k \in Slots : conn[k].hub \in Hubs
    BY DEF DeliveryInv, SlotsInv, ConnShape
  <2>2. QED
    BY <1>1, <2>1 DEF DeliveryInv, UpInv
<1>6. QED
  BY <1>2, <1>3, <1>4, <1>5 DEF DeliveryInv

\* Nothing moves but the state of a subscription, or of Close.
LEMMA PlaneStays ==
  ASSUME DeliveryInv, UNCHANGED <<log, replay, conn, clientVars, inbox, unsent, lost>>
  PROVE  DeliveryInv'
<1>1. PlaneInv' /\ \A h \in Hubs : Arrived(h)' = Arrived(h)
  BY DEF DeliveryInv, PlaneInv, Arrived, OnTheWay
<1>2. inbox' = [h \in Hubs |-> inbox'[h]] /\ lost' = [h \in Hubs |-> lost'[h]]
  BY DEF DeliveryInv, StateOK
<1>3. QED
  BY <1>1, <1>2, PlaneMoves

\* A subscription breaks, or its loop returns: what was in it is lost.
LEMMA InboxLost ==
  ASSUME StateOK, PlaneInv, NEW h \in Hubs, UNCHANGED <<log, unsent>>,
         inbox' = [inbox EXCEPT ![h] = <<>>],
         lost' = [lost EXCEPT ![h] = @ \cup {e \in Range(inbox[h]) : log[e].hub # h}]
  PROVE  /\ PlaneInv' /\ inbox' = [g \in Hubs |-> inbox'[g]] /\ lost' = [g \in Hubs |-> lost'[g]]
         /\ \A g \in Hubs : Arrived(g)' = Arrived(g)
<1>1. /\ inbox' = [g \in Hubs |-> inbox'[g]] /\ lost' = [g \in Hubs |-> lost'[g]]
      /\ inbox'[h] = <<>> /\ lost'[h] = lost[h] \cup {e \in Range(inbox[h]) : log[e].hub # h}
      /\ \A g \in Hubs : g # h => inbox'[g] = inbox[g] /\ lost'[g] = lost[g]
  BY DEF StateOK
<1>2. \A e \in Range(inbox[h]) : e \in DOMAIN log /\ e \notin unsent
  <2>1. inbox[h] \in Seq(DOMAIN log) /\ \A i \in DOMAIN inbox[h] : inbox[h][i] \notin unsent
    BY DEF PlaneInv
  <2>2. \A i \in DOMAIN inbox[h] : inbox[h][i] \in DOMAIN log
    BY <2>1, SeqElement
  <2>3. QED
    BY <2>1, <2>2 DEF Range
<1>3. PlaneInv'
  <2>1. lost'[h] \subseteq DOMAIN log /\ unsent \cap lost'[h] = {}
    BY <1>1, <1>2 DEF PlaneInv
  <2>2. inbox'[h] \in Seq(DOMAIN log) /\ DOMAIN inbox'[h] = {}
    <3>1. PICK D : D = DOMAIN log
      OBVIOUS
    <3>2. <<>> \in Seq(D) /\ DOMAIN <<>> = {}
      OBVIOUS
    <3>3. QED
      BY <1>1, <3>1, <3>2
  <2>3. QED
    BY <1>1, <2>1, <2>2 DEF PlaneInv
<1>4. ASSUME NEW g \in Hubs PROVE Arrived(g)' = Arrived(g)
  <2>1. CASE g = h
    <3>1. Range(inbox'[h]) = {}
      BY <1>1 DEF Range
    <3>2. \A e \in DOMAIN log : log[e].hub # h => (e \in OnTheWay(h)' <=> e \in OnTheWay(h))
      BY <1>1, <3>1 DEF OnTheWay
    <3>3. QED
      BY <2>1, <3>2 DEF Arrived
  <2>2. CASE g # h
    BY <1>1, <2>2 DEF Arrived, OnTheWay
  <2>3. QED
    BY <2>1, <2>2
<1>5. QED
  BY <1>1, <1>3, <1>4

\* What is appended to an inbox.
LEMMA InboxAppend ==
  ASSUME NEW D, NEW s \in Seq(D), NEW e \in D
  PROVE  /\ Append(s, e) \in Seq(D) /\ Range(Append(s, e)) = Range(s) \cup {e}
         /\ \A i \in DOMAIN Append(s, e) : (i = Len(s) + 1 /\ Append(s, e)[i] = e) \/ (i \in DOMAIN s /\ Append(s, e)[i] = s[i])
<1>1. Len(s) \in Nat /\ DOMAIN s = 1 .. Len(s) /\ DOMAIN Append(s, e) = 1 .. (Len(s) + 1)
  OBVIOUS
<1>2. Append(s, e) \in Seq(D) /\ Append(s, e)[Len(s) + 1] = e /\ \A i \in 1 .. Len(s) : Append(s, e)[i] = s[i]
  OBVIOUS
<1>3. \A i \in 1 .. (Len(s) + 1) : i = Len(s) + 1 \/ i \in 1 .. Len(s)
  BY <1>1
<1>4. Len(s) + 1 \in 1 .. (Len(s) + 1) /\ \A i \in 1 .. Len(s) : i \in 1 .. (Len(s) + 1)
  BY <1>1
<1>5. PICK a, n : a = Append(s, e) /\ n = Len(s)
  OBVIOUS
<1>6. Range(a) = Range(s) \cup {e}
  BY <1>1, <1>2, <1>3, <1>4, <1>5 DEF Range
<1>7. QED
  BY <1>1, <1>2, <1>3, <1>5, <1>6

\* PUBLISH.
LEMMA BroadcastMoves ==
  ASSUME StateOK, PlaneInv, NEW e \in unsent, broadcast(e)
  PROVE  /\ PlaneInv' /\ inbox' = [g \in Hubs |-> inbox'[g]] /\ lost' = [g \in Hubs |-> lost'[g]]
         /\ \A g \in Hubs : Arrived(g)' = Arrived(g)
<1>1. /\ UNCHANGED <<log, replay, conn, clientVars>> /\ unsent' = unsent \ {e} /\ e \in DOMAIN log
      /\ \E hs : /\ lost' = [h \in Hubs |-> lost[h] \cup (IF h \notin hs \cup {log[e].hub} THEN {e} ELSE {})]
                 /\ inbox' = [h \in Hubs |-> IF h \in hs THEN Append(inbox[h], e) ELSE inbox[h]]
  <2>1. UNCHANGED <<log, replay, conn, clientVars>> /\ unsent' = unsent \ {e} /\ e \in DOMAIN log
    BY DEF broadcast, PlaneInv
  <2> DEFINE up == {h \in Hubs : backplane[h] = "up"}
  <2>2. CASE /\ inbox' = [h \in Hubs |-> IF h \in up THEN Append(inbox[h], e) ELSE inbox[h]]
             /\ lost' = [h \in Hubs |-> lost[h] \cup (IF h \notin up \cup {log[e].hub} THEN {e} ELSE {})]
    BY <2>1, <2>2
  <2>3. CASE /\ inbox' = inbox
             /\ lost' = [h \in Hubs |-> lost[h] \cup (IF h \notin {} \cup {log[e].hub} THEN {e} ELSE {})]
    <3>1. PICK hs : hs = {}
      OBVIOUS
    <3>2. inbox' = [h \in Hubs |-> IF h \in hs THEN Append(inbox[h], e) ELSE inbox[h]]
      BY <2>3, <3>1 DEF StateOK
    <3>3. lost' = [h \in Hubs |-> lost[h] \cup (IF h \notin hs \cup {log[e].hub} THEN {e} ELSE {})]
      BY <2>3, <3>1
    <3>4. QED
      BY <2>1, <3>2, <3>3
  <2>4. QED
    BY <2>2, <2>3 DEF broadcast
<1>2. PICK hs : /\ lost' = [h \in Hubs |-> lost[h] \cup (IF h \notin hs \cup {log[e].hub} THEN {e} ELSE {})]
                /\ inbox' = [h \in Hubs |-> IF h \in hs THEN Append(inbox[h], e) ELSE inbox[h]]
  BY <1>1
<1>3. \A h \in Hubs : inbox[h] \in Seq(DOMAIN log)
  BY DEF PlaneInv
<1>4. ASSUME NEW h \in Hubs
      PROVE  /\ inbox'[h] \in Seq(DOMAIN log) /\ lost'[h] \subseteq DOMAIN log
             /\ \A i, j \in DOMAIN inbox'[h] : inbox'[h][i] = inbox'[h][j] => i = j
             /\ \A i \in DOMAIN inbox'[h] : inbox'[h][i] \notin unsent' \cup lost'[h]
             /\ unsent' \cap lost'[h] = {}
             /\ Arrived(h)' = Arrived(h)
  <2>1. /\ lost[h] \subseteq DOMAIN log
        /\ \A i, j \in DOMAIN inbox[h] : inbox[h][i] = inbox[h][j] => i = j
        /\ \A i \in DOMAIN inbox[h] : inbox[h][i] \notin unsent \cup lost[h]
        /\ unsent \cap lost[h] = {}
    BY DEF PlaneInv
  <2>2. \A i \in DOMAIN inbox[h] : inbox[h][i] # e
    BY <2>1
  <2>3. lost'[h] = lost[h] \cup (IF h \notin hs \cup {log[e].hub} THEN {e} ELSE {}) /\ lost'[h] \subseteq DOMAIN log /\ unsent' \cap lost'[h] = {}
    BY <1>1, <1>2, <2>1
  <2>4. CASE h \in hs
    <3>1. inbox'[h] = Append(inbox[h], e) /\ lost'[h] = lost[h]
      BY <1>2, <2>3, <2>4
    <3>2. PICK D, s : D = DOMAIN log /\ s = inbox[h]
      OBVIOUS
    <3>3. /\ Append(s, e) \in Seq(D) /\ Range(Append(s, e)) = Range(s) \cup {e}
          /\ \A i \in DOMAIN Append(s, e) : (i = Len(s) + 1 /\ Append(s, e)[i] = e) \/ (i \in DOMAIN s /\ Append(s, e)[i] = s[i])
      BY <1>1, <1>3, <3>2, InboxAppend
    <3>4. \A i, j \in DOMAIN inbox'[h] : inbox'[h][i] = inbox'[h][j] => i = j
      BY <2>1, <2>2, <3>1, <3>2, <3>3
    <3>5. \A i \in DOMAIN inbox'[h] : inbox'[h][i] \notin unsent' \cup lost'[h]
      BY <1>1, <2>1, <3>1, <3>2, <3>3
    <3>6. OnTheWay(h)' = OnTheWay(h)
      BY <1>1, <3>1, <3>2, <3>3 DEF OnTheWay
    <3>7. inbox'[h] \in Seq(DOMAIN log)
      BY <3>1, <3>2, <3>3
    <3>8. Arrived(h)' = Arrived(h)
      BY <1>1, <3>6 DEF Arrived
    <3>9. QED
      BY <2>3, <3>4, <3>5, <3>7, <3>8
  <2>5. CASE h \notin hs
    <3>1. inbox'[h] = inbox[h]
      BY <1>2, <2>5
    <3>2. \A f \in DOMAIN log : log[f].hub # h => (f \in OnTheWay(h)' <=> f \in OnTheWay(h))
      BY <1>1, <2>3, <2>5, <3>1 DEF OnTheWay
    <3>3. Arrived(h)' = Arrived(h)
      BY <1>1, <3>2 DEF Arrived
    <3>4. QED
      BY <1>1, <1>3, <2>1, <2>2, <2>3, <3>1, <3>3
  <2>6. QED
    BY <2>4, <2>5
<1>5. PlaneInv'
  <2>1. unsent' \subseteq DOMAIN log'
    BY <1>1 DEF PlaneInv
  <2>2. QED
    BY <1>1, <1>4, <2>1 DEF PlaneInv
<1>6. inbox' = [h \in Hubs |-> inbox'[h]] /\ lost' = [h \in Hubs |-> lost'[h]]
  BY <1>2
<1>7. QED
  BY <1>4, <1>5, <1>6

\* A hub hears its own echo and leaves it.
LEMMA InboxTail ==
  ASSUME NEW D, NEW s \in Seq(D), s # <<>>
  PROVE  /\ Tail(s) \in Seq(D) /\ Head(s) \in D /\ Range(s) = {Head(s)} \cup Range(Tail(s))
         /\ \A i \in DOMAIN Tail(s) : i + 1 \in DOMAIN s /\ Tail(s)[i] = s[i + 1] /\ i \in Nat /\ i > 0
         /\ 1 \in DOMAIN s /\ Head(s) = s[1]
<1>1. Len(s) \in Nat /\ Len(s) > 0 /\ DOMAIN s = 1 .. Len(s)
  OBVIOUS
<1>2. Tail(s) \in Seq(D) /\ Len(Tail(s)) = Len(s) - 1 /\ DOMAIN Tail(s) = 1 .. (Len(s) - 1) /\ Head(s) = s[1] /\ Head(s) \in D
  BY <1>1
<1>3. \A i \in 1 .. (Len(s) - 1) : Tail(s)[i] = s[i + 1] /\ i + 1 \in 1 .. Len(s) /\ i \in Nat /\ i > 0
  BY <1>1
<1>4. ASSUME NEW x \in Range(s) PROVE x = Head(s) \/ x \in Range(Tail(s))
  <2>1. PICK i \in 1 .. Len(s) : x = s[i]
    BY <1>1 DEF Range
  <2>2. CASE i = 1
    BY <1>2, <2>1, <2>2
  <2>3. CASE i # 1
    <3>1. PICK j : j = i - 1
      OBVIOUS
    <3>2. j \in 1 .. (Len(s) - 1) /\ j + 1 = i
      BY <1>1, <2>3, <3>1
    <3>3. x = Tail(s)[j] /\ j \in DOMAIN Tail(s)
      BY <1>2, <1>3, <2>1, <3>2
    <3>4. QED
      BY <3>3 DEF Range
  <2>4. QED
    BY <2>2, <2>3
<1>5. \A x \in {Head(s)} \cup Range(Tail(s)) : x \in Range(s)
  <2>1. 1 \in 1 .. Len(s)
    BY <1>1
  <2>2. QED
    BY <1>1, <1>2, <1>3, <2>1 DEF Range
<1>6. QED
  BY <1>1, <1>2, <1>3, <1>4, <1>5

\* Connections change, and nothing else does.
LEMMA ConnsMove ==
  ASSUME DeliveryInv, UNCHANGED <<log, replay, inbox, unsent, lost, clientVars>>, conn' = [k \in Slots |-> conn'[k]],
         \A k \in Slots :
           \/ conn'[k] = conn[k]
           \/ /\ ConnShape(conn'[k]) /\ conn'[k].hub = conn[k].hub /\ conn[k] # noConn
              /\ Over(conn[k]) => Over(conn'[k])
              /\ k[2] = cur[k[1]] /\ ~ Over(conn'[k]) =>
                   Serves(conn'[k], replay[conn[k].hub], Arrived(conn[k].hub), log, last[k[1]], seen[k[1]], wants[k[1]], owed[k[1]])
  PROVE  DeliveryInv'
<1>1. cur' = cur /\ last' = last /\ seen' = seen /\ wants' = wants /\ owed' = owed
  BY DEF clientVars
<1>2. (\A h : Arrived(h)' = Arrived(h)) /\ \A ts : EventsOf(ts)' = EventsOf(ts)
  BY DEF Arrived, OnTheWay, EventsOf
<1>3. StateOK' /\ RingsInv' /\ PlaneInv'
  BY <1>1, <1>2 DEF DeliveryInv, StateOK, LogOK, RingsInv, PlaneInv
<1>4. \A k \in Slots : conn'[k].hub = conn[k].hub
  OBVIOUS
<1>5. SlotsInv'
  BY <1>1 DEF DeliveryInv, SlotsInv
<1>6. ClientsInv'
  <2>1. ASSUME NEW u \in Clients, cur[u] # 0 PROVE conn'[<<u, cur[u]>>].hub = conn[<<u, cur[u]>>].hub
    BY <1>4, <2>1, Latest
  <2>2. QED
    BY <1>1, <1>2, <2>1 DEF DeliveryInv, ClientsInv
<1>7. UpInv'
  <2>1. ASSUME NEW k \in Slots, k[2] = cur[k[1]], ~ Over(conn'[k])
        PROVE  Serves(conn'[k], replay[conn[k].hub], Arrived(conn[k].hub), log, last[k[1]], seen[k[1]], wants[k[1]], owed[k[1]])
    BY <2>1 DEF DeliveryInv, UpInv
  <2>2. QED
    BY <1>1, <1>2, <1>4, <2>1 DEF UpInv
<1>8. QED
  BY <1>3, <1>5, <1>6, <1>7 DEF DeliveryInv

\* One connection changes.
LEMMA ConnMoves ==
  ASSUME DeliveryInv, UNCHANGED <<log, replay, inbox, unsent, lost, clientVars>>,
         NEW k \in Slots, NEW c, conn' = [conn EXCEPT ![k] = c], conn[k] # noConn,
         ConnShape(c), c.hub = conn[k].hub, Over(conn[k]) => Over(c),
         k[2] = cur[k[1]] /\ ~ Over(c) =>
           Serves(c, replay[conn[k].hub], Arrived(conn[k].hub), log, last[k[1]], seen[k[1]], wants[k[1]], owed[k[1]])
  PROVE  DeliveryInv'
<1>1. conn' = [j \in Slots |-> conn'[j]] /\ conn'[k] = c /\ \A j \in Slots : j # k => conn'[j] = conn[j]
  BY DEF DeliveryInv, StateOK
<1>2. QED
  BY <1>1, ConnsMove

\* end and dropLocked.
LEMMA EndShape ==
  ASSUME NEW c, ConnShape(c)
  PROVE  /\ ConnShape(end(c)) /\ end(c).hub = c.hub /\ Over(end(c))
         /\ ConnShape(dropLocked(c)) /\ dropLocked(c).hub = c.hub /\ Over(dropLocked(c))
<1>1. IsConn(c)
  BY DEF ConnShape
<1>2. /\ IsConn(end(c)) /\ end(c).hub = c.hub /\ end(c).queue = <<>> /\ end(c).topics = c.topics /\ end(c).ended = TRUE
      /\ end(c).after = c.after /\ end(c).asked = c.asked /\ end(c).refused = c.refused /\ end(c).phase = c.phase
  BY <1>1 DEF IsConn, Fields, end
<1> DEFINE d == detachLocked(c, HubTopics)
<1>3. /\ IsConn(d) /\ d.hub = c.hub /\ d.queue = c.queue /\ d.topics = c.topics \ HubTopics
      /\ d.after = c.after /\ d.asked = c.asked /\ d.refused = c.refused /\ d.phase = c.phase
  BY <1>1 DEF IsConn, Fields, detachLocked
<1>4. dropLocked(c) = end(d)
  BY DEF dropLocked
<1> HIDE DEF d
<1>5. /\ IsConn(end(d)) /\ end(d).hub = d.hub /\ end(d).queue = <<>> /\ end(d).topics = d.topics /\ end(d).ended = TRUE
      /\ end(d).after = d.after /\ end(d).asked = d.asked /\ end(d).refused = d.refused /\ end(d).phase = d.phase
  BY <1>3 DEF IsConn, Fields, end
<1>6. <<>> \in Seq(Item)
  OBVIOUS
<1>7. ConnShape(end(c)) /\ Over(end(c))
  BY <1>2, <1>6 DEF ConnShape, Over
<1>8. ConnShape(end(d)) /\ Over(end(d))
  BY <1>3, <1>5, <1>6 DEF ConnShape, Over
<1>9. QED
  BY <1>2, <1>3, <1>4, <1>5, <1>7, <1>8

\* The handler has returned.
LEMMA GoneShape ==
  ASSUME NEW h \in Hubs, NEW kind
  PROVE  LET c == [noConn EXCEPT !.hub = h, !.kind = kind, !.phase = "gone"] IN ConnShape(c) /\ c.hub = h /\ Over(c)
<1> DEFINE c == [noConn EXCEPT !.hub = h, !.kind = kind, !.phase = "gone"]
<1>1. IsConn(noConn) /\ noConn.topics = {} /\ noConn.queue = <<>> /\ noConn.asked = {} /\ noConn.refused = {} /\ noConn.after = 0
  BY NoConnOK, NoConnShape DEF ConnOK
<1>2. IsConn(c) /\ c.hub = h /\ c.phase = "gone" /\ c.topics = noConn.topics /\ c.queue = noConn.queue /\ c.asked = noConn.asked /\ c.refused = noConn.refused /\ c.after = noConn.after
  BY <1>1 DEF IsConn, Fields
<1> HIDE DEF c
<1>3. <<>> \in Seq(Item)
  OBVIOUS
<1>4. ConnShape(c) /\ c.hub = h /\ Over(c)
  BY <1>1, <1>2, <1>3, RingAssumption DEF ConnShape, Over
<1>5. QED
  BY <1>4 DEF c

\* A connection in use is one that was opened.
LEMMA Opened ==
  ASSUME DeliveryInv, NEW k \in Slots, conn[k] # noConn
  PROVE  ConnShape(conn[k]) /\ IsConn(conn[k]) /\ conn[k].hub \in Hubs /\ k[1] \in Clients /\ k[2] <= cur[k[1]] /\ k[2] \in Nat
         /\ cur[k[1]] \in Nat /\ (k[2] # cur[k[1]] => Over(conn[k]))
<1>1. k[1] \in Clients /\ k[2] \in Nat /\ cur[k[1]] \in Nat
  BY SlotParts, RealtimeAssumption DEF DeliveryInv, StateOK
<1>2. ~ (k[2] > cur[k[1]]) /\ (k[2] < cur[k[1]] => Over(conn[k])) /\ ConnShape(conn[k])
  BY DEF DeliveryInv, SlotsInv
<1>3. QED
  BY <1>1, <1>2 DEF ConnShape

\* The connection of a client that is served.
LEMMA Served ==
  ASSUME DeliveryInv, NEW k \in Slots, k[2] = cur[k[1]], ~ Over(conn[k])
  PROVE  Serves(conn[k], replay[conn[k].hub], Arrived(conn[k].hub), log, last[k[1]], seen[k[1]], wants[k[1]], owed[k[1]])
  BY DEF DeliveryInv, UpInv

\* A connection whose subscriptions and queue are as they were is served as it was.
LEMMA ServedAlike ==
  ASSUME NEW c, NEW d, d.topics = c.topics, d.queue = c.queue, d.phase = c.phase, d.fresh = c.fresh, d.after = c.after,
         d.asked = c.asked, d.refused = c.refused,
         NEW r, NEW A, NEW lg, NEW l, NEW S, NEW w, NEW o, Serves(c, r, A, lg, l, S, w, o)
  PROVE  Serves(d, r, A, lg, l, S, w, o)
  BY DEF Serves, Resuming, Following

\* The writer wakes and sleeps; a connection is cut.
LEMMA WriterMoves == ASSUME DeliveryInv, NEW k \in Slots, Wake(k) \/ Drained(k) \/ Cut(k) PROVE DeliveryInv'
<1>1. conn[k] # noConn
  BY NoConnOK, NoConnShape DEF Wake, Drained, Cut
<1>2. UNCHANGED <<log, replay, inbox, unsent, lost, clientVars>>
  BY DEF Wake, Drained, Cut, planeVars
<1>3. ConnShape(conn[k]) /\ IsConn(conn[k])
  BY <1>1, Opened
<1> DEFINE a == [conn[k] EXCEPT !.writer = "draining", !.wake = FALSE]
           b == [conn[k] EXCEPT !.writer = "waiting"]
           d == [conn[k] EXCEPT !.cut = TRUE]
           Like(x) == /\ x.hub = conn[k].hub /\ x.ended = conn[k].ended /\ x.topics = conn[k].topics /\ x.queue = conn[k].queue
                      /\ x.phase = conn[k].phase /\ x.fresh = conn[k].fresh /\ x.after = conn[k].after
                      /\ x.asked = conn[k].asked /\ x.refused = conn[k].refused /\ IsConn(x)
<1>4. Like(a) /\ Like(b) /\ Like(d) /\ a.cut = conn[k].cut /\ b.cut = conn[k].cut /\ d.cut = TRUE
  BY <1>3 DEF IsConn, Fields
<1>5. PICK x \in {a, b, d} : conn' = [conn EXCEPT ![k] = x]
  BY DEF Wake, Drained, Cut
<1> HIDE DEF a, b, d
<1>6. Like(x) /\ (x.cut = conn[k].cut \/ x.cut = TRUE) /\ conn' = [conn EXCEPT ![k] = x]
  <2>1. CASE x = a
    BY <1>4, <1>5, <2>1
  <2>2. CASE x = b
    BY <1>4, <1>5, <2>2
  <2>3. CASE x = d
    BY <1>4, <1>5, <2>3
  <2>4. QED
    BY <1>5, <2>1, <2>2, <2>3
<1>7. ConnShape(x) /\ (Over(conn[k]) => Over(x))
  BY <1>3, <1>6 DEF ConnShape, Over
<1>8. ASSUME k[2] = cur[k[1]], ~ Over(x)
      PROVE  Serves(x, replay[conn[k].hub], Arrived(conn[k].hub), log, last[k[1]], seen[k[1]], wants[k[1]], owed[k[1]])
  BY <1>6, <1>7, <1>8, Served, ServedAlike
<1>9. QED
  BY <1>1, <1>2, <1>6, <1>7, <1>8, ConnMoves

\* A connection ends, and its handler returns.
LEMMA EndsMoves == ASSUME DeliveryInv, NEW k \in Slots, Ends(k) \/ unregister(k) PROVE DeliveryInv'
<1>1. conn[k] # noConn
  BY NoConnOK DEF Ends, unregister
<1>2. UNCHANGED <<log, replay, inbox, unsent, lost, clientVars>>
  BY DEF Ends, unregister, planeVars
<1>3. ConnShape(conn[k]) /\ conn[k].hub \in Hubs
  BY <1>1, Opened
<1>4. CASE Ends(k)
  <2>1. conn' = [conn EXCEPT ![k] = end(conn[k])]
    BY <1>4 DEF Ends
  <2>2. QED
    BY <1>1, <1>2, <1>3, <2>1, EndShape, ConnMoves
<1>5. CASE unregister(k)
  <2>1. PICK c : c = [noConn EXCEPT !.hub = conn[k].hub, !.kind = conn[k].kind, !.phase = "gone"]
    OBVIOUS
  <2>2. conn' = [conn EXCEPT ![k] = c] /\ ConnShape(c) /\ c.hub = conn[k].hub /\ Over(c)
    BY <1>3, <1>5, <2>1, GoneShape DEF unregister
  <2>3. QED
    BY <1>1, <1>2, <2>2, ConnMoves
<1>6. QED
  BY <1>4, <1>5

\* Disconnect, endStreams and Close.
LEMMA EndManyMoves == ASSUME DeliveryInv, NEW h, (\E u : Disconnect(h, u)) \/ endStreams(h) \/ Close(h) PROVE DeliveryInv'
<1>1. UNCHANGED <<log, replay, inbox, unsent, lost, clientVars>>
  BY DEF Disconnect, endStreams, Close, planeVars
<1>2. /\ conn' = [k \in Slots |-> conn'[k]]
      /\ \A k \in Slots : conn'[k] = conn[k] \/ (conn[k].registered /\ conn'[k] \in {end(conn[k]), dropLocked(conn[k])})
  BY DEF Disconnect, endStreams, Close, On
<1>3. ASSUME NEW k \in Slots, conn'[k] # conn[k]
      PROVE  ConnShape(conn'[k]) /\ conn'[k].hub = conn[k].hub /\ conn[k] # noConn /\ Over(conn'[k])
  <2>1. conn[k] # noConn /\ conn'[k] \in {end(conn[k]), dropLocked(conn[k])}
    BY <1>2, <1>3, NoConnOK
  <2>2. ConnShape(conn[k])
    BY <2>1, Opened
  <2>3. QED
    BY <2>1, <2>2, EndShape
<1>4. QED
  BY <1>1, <1>2, <1>3, ConnsMove

\* A stream registers, or is refused.
LEMMA RegisterMoves == ASSUME DeliveryInv, NEW k \in Slots, register(k) PROVE DeliveryInv'
<1>1. conn[k] # noConn /\ conn[k].phase = "asking"
  BY NoConnOK DEF register
<1>2. UNCHANGED <<log, replay, inbox, unsent, lost, clientVars>>
  BY DEF register, planeVars
<1>3. ConnShape(conn[k]) /\ IsConn(conn[k]) /\ conn[k].hub \in Hubs
  BY <1>1, Opened
<1>4. PICK ok \in SUBSET conn[k].asked : conn' = [conn EXCEPT ![k] =
                  IF ok = {} \/ closing[conn[k].hub] # "open"
                  THEN [noConn EXCEPT !.hub = conn[k].hub, !.kind = "sse", !.phase = "gone"]
                  ELSE [conn[k] EXCEPT !.phase = "ready", !.asked = ok, !.refused = conn[k].asked \ ok, !.registered = TRUE]]
  BY DEF register
<1>5. CASE ok = {} \/ closing[conn[k].hub] # "open"
  <2>1. PICK c : c = [noConn EXCEPT !.hub = conn[k].hub, !.kind = "sse", !.phase = "gone"]
    OBVIOUS
  <2>2. conn' = [conn EXCEPT ![k] = c] /\ ConnShape(c) /\ c.hub = conn[k].hub /\ Over(c)
    BY <1>3, <1>4, <1>5, <2>1, GoneShape
  <2>3. QED
    BY <1>1, <1>2, <2>2, ConnMoves
<1>6. CASE ~ (ok = {} \/ closing[conn[k].hub] # "open")
  <2> DEFINE c == [conn[k] EXCEPT !.phase = "ready", !.asked = ok, !.refused = conn[k].asked \ ok, !.registered = TRUE]
  <2>1. conn' = [conn EXCEPT ![k] = c]
    BY <1>4, <1>6
  <2>2. /\ IsConn(c) /\ c.hub = conn[k].hub /\ c.ended = conn[k].ended /\ c.queue = conn[k].queue /\ c.cut = conn[k].cut
        /\ c.topics = conn[k].topics /\ c.phase = "ready" /\ c.asked = ok /\ c.refused = conn[k].asked \ ok
        /\ c.after = conn[k].after /\ c.fresh = conn[k].fresh
    BY <1>3 DEF IsConn, Fields
  <2> HIDE DEF c
  <2>3. ConnShape(c) /\ (Over(conn[k]) => Over(c)) /\ (~ Over(c) => ~ Over(conn[k]))
    BY <1>1, <1>3, <2>2 DEF ConnShape, Over
  <2>4. ASSUME k[2] = cur[k[1]], ~ Over(c)
        PROVE  Serves(c, replay[conn[k].hub], Arrived(conn[k].hub), log, last[k[1]], seen[k[1]], wants[k[1]], owed[k[1]])
    <3>1. Serves(conn[k], replay[conn[k].hub], Arrived(conn[k].hub), log, last[k[1]], seen[k[1]], wants[k[1]], owed[k[1]])
      BY <2>3, <2>4, Served
    <3>2. QED
      BY <1>1, <2>2, <3>1 DEF Serves, Resuming, Following
  <2>5. QED
    BY <1>1, <1>2, <2>1, <2>2, <2>3, <2>4, ConnMoves
<1>7. QED
  BY <1>5, <1>6

\* What a first frame asks for is all the client follows.
LEMMA FirstAsks ==
  ASSUME DeliveryInv, NEW u \in Clients, NEW ts \in FirstTopics(u) PROVE wants[u] \subseteq ts /\ ts \subseteq HubTopics
<1>1. wants[u] \in SUBSET HubTopics
  BY DEF DeliveryInv, StateOK
<1>2. QED
  BY <1>1 DEF FirstTopics

\* The last event a client saw is one.
LEMMA LastIsEvent == ASSUME DeliveryInv, NEW u \in Clients PROVE last[u] \in 0 .. MaxEvents
<1>1. CASE cur[u] = 0
  <2>1. last[u] = 0
    BY <1>1 DEF DeliveryInv, ClientsInv
  <2>2. 0 \in 0 .. MaxEvents
    BY RingAssumption
  <2>3. QED
    BY <2>1, <2>2
<1>2. CASE cur[u] # 0
  <2>1. PICK h : h = conn[<<u, cur[u]>>].hub
    OBVIOUS
  <2>2. Knows(replay[h], Arrived(h), last[u], seen[u], owed[u]) /\ Arrived(h) \in SUBSET Events
    BY <1>2, <2>1, ArrivedLogged DEF DeliveryInv, ClientsInv, StateOK
  <2>3. last[u] = 0 \/ last[u] \in Events
    BY <2>2 DEF Knows
  <2>4. QED
    BY <2>3, RingAssumption DEF Events
<1>3. QED
  BY <1>1, <1>2

\* A WebSocket asks for topics.
LEMMA SubscribeMoves == ASSUME DeliveryInv, NEW k \in Slots, wsSubscribe(k) PROVE DeliveryInv'
<1>1. conn[k] # noConn /\ conn[k].phase = "idle"
  BY NoConnOK DEF wsSubscribe
<1>2. UNCHANGED <<log, replay, inbox, unsent, lost, clientVars>>
  BY DEF wsSubscribe, planeVars
<1>3. ConnShape(conn[k]) /\ IsConn(conn[k]) /\ k[1] \in Clients
  BY <1>1, Opened
<1>4. PICK ts \in IF conn[k].fresh THEN FirstTopics(k[1]) ELSE (SUBSET (HubTopics \ conn[k].topics)) \ {{}} :
           conn' = [conn EXCEPT ![k] =
             IF Cardinality(ts) > MaxSubscriptions - Cardinality(conn[k].topics)
             THEN end(conn[k])
             ELSE [conn[k] EXCEPT !.phase = "asking", !.asked = ts, !.fresh = FALSE,
                            !.after = IF conn[k].fresh THEN last[k[1]] ELSE 0]]
  BY DEF wsSubscribe
<1>5. ts \subseteq HubTopics /\ (conn[k].fresh => wants[k[1]] \subseteq ts)
  BY <1>3, <1>4, FirstAsks
<1>6. PICK a : a = IF conn[k].fresh THEN last[k[1]] ELSE 0
  OBVIOUS
<1>6a. a \in 0 .. MaxEvents
  BY <1>3, <1>6, LastIsEvent, RingAssumption
<1> DEFINE c == [conn[k] EXCEPT !.phase = "asking", !.asked = ts, !.fresh = FALSE, !.after = a]
<1>7. conn' = [conn EXCEPT ![k] = end(conn[k])] \/ conn' = [conn EXCEPT ![k] = c]
  BY <1>4, <1>6
<1>8. /\ IsConn(c) /\ c.hub = conn[k].hub /\ c.ended = conn[k].ended /\ c.queue = conn[k].queue /\ c.cut = conn[k].cut
      /\ c.topics = conn[k].topics /\ c.phase = "asking" /\ c.asked = ts /\ c.refused = conn[k].refused
      /\ c.after = a /\ c.fresh = FALSE
  BY <1>3 DEF IsConn, Fields
<1> HIDE DEF c
<1>9. ConnShape(c) /\ (Over(conn[k]) => Over(c)) /\ (~ Over(c) => ~ Over(conn[k]))
  BY <1>1, <1>3, <1>5, <1>6a, <1>8 DEF ConnShape, Over
<1>10. ASSUME k[2] = cur[k[1]], ~ Over(c)
       PROVE  Serves(c, replay[conn[k].hub], Arrived(conn[k].hub), log, last[k[1]], seen[k[1]], wants[k[1]], owed[k[1]])
  <2>1. Serves(conn[k], replay[conn[k].hub], Arrived(conn[k].hub), log, last[k[1]], seen[k[1]], wants[k[1]], owed[k[1]])
    BY <1>9, <1>10, Served
  <2>2. CASE conn[k].fresh
    BY <1>5, <1>6, <1>8, <2>1, <2>2 DEF Serves, Resuming, Following
  <2>3. CASE ~ conn[k].fresh
    BY <1>1, <1>6, <1>8, <2>1, <2>3 DEF Serves, Resuming, Following
  <2>4. QED
    BY <2>2, <2>3
<1>11. CASE conn' = [conn EXCEPT ![k] = end(conn[k])]
  BY <1>1, <1>2, <1>3, <1>11, EndShape, ConnMoves
<1>12. CASE conn' = [conn EXCEPT ![k] = c]
  BY <1>1, <1>2, <1>8, <1>9, <1>10, <1>12, ConnMoves
<1>13. QED
  BY <1>7, <1>11, <1>12

\* A client connects, anew or again.
LEMMA OpenMoves ==
  ASSUME StaysWhereHeard, DeliveryInv, NEW u \in Clients, NEW h \in Hubs, OpenWS(u, h) \/ OpenSSE(u, h)
  PROVE  DeliveryInv'
<1>1. PICK n, k, m : n = cur[u] + 1 /\ k = <<u, n>> /\ m = cur[u]
  OBVIOUS
<1>2. m \in 0 .. MaxConns /\ MaxConns \in Nat /\ m < MaxConns
  BY <1>1, RealtimeAssumption DEF DeliveryInv, StateOK, OpenWS, OpenSSE
<1>3. n \in 1 .. MaxConns /\ n = m + 1 /\ n # 0 /\ n \in 0 .. MaxConns
  BY <1>1, <1>2
<1>4. k \in Slots /\ k[1] = u /\ k[2] = n
  BY <1>1, <1>3, SlotParts
<1>5. /\ UNCHANGED <<log, replay, inbox, unsent, lost, last, seen, wants, owed>> /\ cur' = [cur EXCEPT ![u] = n]
      /\ Adrift(u) /\ Home(u, h)
  BY <1>1 DEF OpenWS, OpenSSE, planeVars
<1>6. PICK c : /\ conn' = [conn EXCEPT ![k] = c] /\ ConnShape(c) /\ c.hub = h /\ c.topics = {} /\ c.queue = <<>>
               /\ Resuming(c, last[u], wants[u])
  <2>1. last[u] \in 0 .. MaxEvents
    BY LastIsEvent
  <2>2. IsConn(noConn) /\ noConn.topics = {} /\ noConn.queue = <<>> /\ noConn.ended = FALSE
    BY NoConnOK DEF ConnOK, noConn
  <2>3. <<>> \in Seq(Item) /\ 0 \in 0 .. MaxEvents
    BY RingAssumption
  <2>4. CASE OpenWS(u, h)
    <3> DEFINE d == [noConn EXCEPT !.hub = h, !.phase = "idle", !.registered = TRUE]
    <3>1. conn' = [conn EXCEPT ![k] = d]
      BY <1>1, <2>4 DEF OpenWS
    <3>2. /\ IsConn(d) /\ d.hub = h /\ d.topics = noConn.topics /\ d.queue = noConn.queue /\ d.phase = "idle" /\ d.ended = noConn.ended
          /\ d.fresh = noConn.fresh /\ d.asked = noConn.asked /\ d.refused = noConn.refused /\ d.after = noConn.after
      BY <2>2 DEF IsConn, Fields
    <3> HIDE DEF d
    <3>3. ConnShape(d) /\ Resuming(d, last[u], wants[u])
      BY <2>2, <2>3, <3>2, NoConnShape DEF ConnShape, Resuming
    <3>4. QED
      BY <2>2, <3>1, <3>2, <3>3
  <2>5. CASE OpenSSE(u, h)
    <3>1. PICK ts \in FirstTopics(u) : conn' = [conn EXCEPT ![k] =
                     [noConn EXCEPT !.hub = h, !.kind = "sse", !.phase = "asking",
                                    !.asked = ts, !.after = last[u], !.fresh = FALSE]]
      BY <1>1, <2>5 DEF OpenSSE
    <3>2. wants[u] \subseteq ts /\ ts \subseteq HubTopics
      BY FirstAsks
    <3> DEFINE d == [noConn EXCEPT !.hub = h, !.kind = "sse", !.phase = "asking", !.asked = ts, !.after = last[u], !.fresh = FALSE]
    <3>3. conn' = [conn EXCEPT ![k] = d]
      BY <3>1
    <3>4. /\ IsConn(d) /\ d.hub = h /\ d.topics = noConn.topics /\ d.queue = noConn.queue /\ d.phase = "asking" /\ d.ended = noConn.ended
          /\ d.fresh = FALSE /\ d.asked = ts /\ d.refused = noConn.refused /\ d.after = last[u]
      BY <2>2 DEF IsConn, Fields
    <3> HIDE DEF d
    <3>5. ConnShape(d) /\ Resuming(d, last[u], wants[u])
      BY <2>1, <2>2, <2>3, <3>2, <3>4, NoConnShape DEF ConnShape, Resuming
    <3>6. QED
      BY <2>2, <3>3, <3>4, <3>5
  <2>6. QED
    BY <2>4, <2>5
<1>7. conn' = [j \in Slots |-> conn'[j]] /\ conn'[k] = c /\ \A j \in Slots : j # k => conn'[j] = conn[j]
  BY <1>4, <1>6 DEF DeliveryInv, StateOK
<1>8. cur' \in [Clients -> 0 .. MaxConns] /\ cur'[u] = n /\ \A v \in Clients : v # u => cur'[v] = cur[v]
  BY <1>3, <1>5 DEF DeliveryInv, StateOK
<1>9. (\A g : Arrived(g)' = Arrived(g)) /\ \A ts : EventsOf(ts)' = EventsOf(ts)
  BY <1>5 DEF Arrived, OnTheWay, EventsOf
<1>10. StateOK' /\ RingsInv' /\ PlaneInv'
  BY <1>5, <1>7, <1>8, <1>9 DEF DeliveryInv, StateOK, LogOK, RingsInv, PlaneInv
<1>11. SlotsInv'
  <2>1. ASSUME NEW j \in Slots
        PROVE  ConnShape(conn'[j]) /\ (j[2] > cur'[j[1]] => conn'[j] = noConn) /\ (j[2] < cur'[j[1]] => Over(conn'[j]))
    <3>1. j[1] \in Clients /\ j[2] \in Nat /\ j = <<j[1], j[2]>> /\ j[2] > 0
      BY SlotParts
    <3>2. ConnShape(conn[j]) /\ (j[2] > cur[j[1]] => conn[j] = noConn) /\ (j[2] < cur[j[1]] => Over(conn[j]))
      BY DEF DeliveryInv, SlotsInv
    <3>3. CASE j = k
      BY <1>2, <1>3, <1>4, <1>6, <1>7, <1>8, <3>3
    <3>4. CASE j # k /\ j[1] # u
      BY <1>7, <1>8, <3>1, <3>2, <3>4
    <3>5. CASE j # k /\ j[1] = u
      <4>1. j[2] # n
        BY <1>1, <3>1, <3>5
      <4>2. conn'[j] = conn[j] /\ cur'[j[1]] = n
        BY <1>7, <1>8, <3>5
      <4>3. j[2] > n => conn[j] = noConn
        BY <1>1, <1>2, <1>3, <3>1, <3>2, <3>5
      <4>4. ASSUME j[2] < n PROVE Over(conn[j])
        <5>1. CASE j[2] = m
          <6>1. j = <<u, cur[u]>> /\ cur[u] # 0
            BY <1>1, <3>1, <3>5, <5>1
          <6>2. QED
            BY <1>5, <6>1 DEF Adrift, Over
        <5>2. CASE j[2] # m
          BY <1>1, <1>2, <1>3, <3>1, <3>2, <3>5, <4>4, <5>2
        <5>3. QED
          BY <5>1, <5>2
      <4>5. QED
        BY <3>2, <4>2, <4>3, <4>4
    <3>6. QED
      BY <3>3, <3>4, <3>5
  <2>2. QED
    BY <2>1 DEF SlotsInv
<1>12. ClientsInv'
  <2>1. ASSUME NEW v \in Clients, v # u PROVE cur[v] # 0 => conn'[<<v, cur[v]>>] = conn[<<v, cur[v]>>]
    <3>1. SUFFICES ASSUME cur[v] # 0 PROVE conn'[<<v, cur[v]>>] = conn[<<v, cur[v]>>]
      OBVIOUS
    <3>2. <<v, cur[v]>> \in Slots /\ <<v, cur[v]>> # k
      BY <1>1, <2>1, <3>1, Latest
    <3>3. QED
      BY <1>7, <3>2
  <2>2. Knows(replay[h], Arrived(h), last[u], seen[u], owed[u])
    <3>1. CASE cur[u] = 0
      BY <3>1 DEF DeliveryInv, ClientsInv, Knows
    <3>2. CASE cur[u] # 0
      <4>1. conn[<<u, cur[u]>>].hub = h
        BY <1>5, <3>2, Latest DEF Home, StaysWhereHeard, OneReplica
      <4>2. QED
        BY <3>2, <4>1 DEF DeliveryInv, ClientsInv
    <3>3. QED
      BY <3>1, <3>2
  <2>3. conn'[<<u, cur'[u]>>].hub = h /\ cur'[u] # 0
    BY <1>1, <1>3, <1>6, <1>7, <1>8
  <2>4. ASSUME NEW v \in Clients
        PROVE  /\ owed[v] \subseteq EventsOf(wants[v])
               /\ cur'[v] = 0 => last[v] = 0 /\ seen[v] = {} /\ wants[v] = {}
               /\ cur'[v] # 0 => LET g == conn'[<<v, cur'[v]>>].hub IN Knows(replay[g], Arrived(g), last[v], seen[v], owed[v])
    <3>1. CASE v = u
      BY <2>2, <2>3, <3>1 DEF DeliveryInv, ClientsInv
    <3>2. CASE v # u
      BY <1>8, <2>1, <3>2 DEF DeliveryInv, ClientsInv
    <3>3. QED
      BY <3>1, <3>2
  <2>5. QED
    BY <1>5, <1>9, <2>4 DEF ClientsInv
<1>13. UpInv'
  <2>1. ASSUME NEW j \in Slots, j[2] = cur'[j[1]], ~ Over(conn'[j])
        PROVE  Serves(conn'[j], replay[conn'[j].hub], Arrived(conn'[j].hub), log, last[j[1]], seen[j[1]], wants[j[1]], owed[j[1]])
    <3>1. j[1] \in Clients /\ j = <<j[1], j[2]>>
      BY SlotParts
    <3>2. CASE j = k
      <4>1. QueueOK(replay[h], c.queue, last[u], seen[u], Arrived(h))
        BY <1>6 DEF QueueOK
      <4>2. QED
        BY <1>4, <1>6, <1>7, <3>2, <4>1 DEF Serves
    <3>3. CASE j # k
      <4>1. j[1] # u
        BY <1>1, <1>8, <2>1, <3>1, <3>3
      <4>2. conn'[j] = conn[j] /\ j[2] = cur[j[1]]
        BY <1>7, <1>8, <2>1, <3>1, <3>3, <4>1
      <4>3. QED
        BY <2>1, <4>2, Served
    <3>4. QED
      BY <3>2, <3>3
  <2>2. QED
    BY <1>5, <1>9, <2>1 DEF UpInv
<1>14. QED
  BY <1>10, <1>11, <1>12, <1>13 DEF DeliveryInv

\* One connection changes, and what its client knows and follows.
LEMMA ClientMoves ==
  ASSUME DeliveryInv, UNCHANGED <<log, replay, inbox, unsent, lost, cur>>,
         NEW k \in Slots, NEW c, conn' = [conn EXCEPT ![k] = c], conn[k] # noConn,
         ConnShape(c), c.hub = conn[k].hub, Over(conn[k]) => Over(c),
         NEW u, u = k[1], NEW l, NEW S, NEW w \in SUBSET HubTopics, NEW o,
         last' = [last EXCEPT ![u] = l], seen' = [seen EXCEPT ![u] = S],
         wants' = [wants EXCEPT ![u] = w], owed' = [owed EXCEPT ![u] = o], o \subseteq EventsOf(w),
         NEW d, d = (IF k[2] = cur[u] THEN c ELSE conn[<<u, cur[u]>>]),
         Knows(replay[d.hub], Arrived(d.hub), l, S, o),
         ~ Over(d) => Serves(d, replay[d.hub], Arrived(d.hub), log, l, S, w, o)
  PROVE  DeliveryInv'
<1>1. u \in Clients /\ k[2] <= cur[u] /\ k[2] \in Nat /\ k[2] > 0 /\ cur[u] \in Nat /\ cur[u] # 0 /\ k = <<u, k[2]>>
  BY Opened, SlotParts
<1>2. <<u, cur[u]>> \in Slots
  BY <1>1, Latest
<1>3. conn' = [j \in Slots |-> conn'[j]] /\ conn'[k] = c /\ \A j \in Slots : j # k => conn'[j] = conn[j]
  BY DEF DeliveryInv, StateOK
<1>4. conn'[<<u, cur[u]>>] = d
  BY <1>1, <1>2, <1>3
<1>5. /\ last' = [v \in Clients |-> last'[v]] /\ seen' = [v \in Clients |-> seen'[v]] /\ owed' = [v \in Clients |-> owed'[v]]
      /\ last'[u] = l /\ seen'[u] = S /\ owed'[u] = o /\ wants'[u] = w /\ wants' \in [Clients -> SUBSET HubTopics]
      /\ \A v \in Clients : v # u => last'[v] = last[v] /\ seen'[v] = seen[v] /\ owed'[v] = owed[v] /\ wants'[v] = wants[v]
  BY <1>1 DEF DeliveryInv, StateOK
<1>6. (\A g : Arrived(g)' = Arrived(g)) /\ \A ts : EventsOf(ts)' = EventsOf(ts)
  BY DEF Arrived, OnTheWay, EventsOf
<1>7. StateOK' /\ RingsInv' /\ PlaneInv'
  <2>1. StateOK'
    BY <1>3, <1>5 DEF DeliveryInv, StateOK, LogOK
  <2>2. RingsInv'
    BY <1>6 DEF DeliveryInv, RingsInv
  <2>3. PlaneInv'
    BY DEF DeliveryInv, PlaneInv
  <2>4. QED
    BY <2>1, <2>2, <2>3
<1>8. SlotsInv'
  <2>1. ~ (k[2] > cur[u])
    BY <1>1
  <2>2. k[2] < cur[u] => Over(conn[k])
    BY DEF DeliveryInv, SlotsInv
  <2>3. ASSUME NEW j \in Slots
        PROVE  ConnShape(conn'[j]) /\ (j[2] > cur[j[1]] => conn'[j] = noConn) /\ (j[2] < cur[j[1]] => Over(conn'[j]))
    <3>1. CASE j = k
      BY <1>3, <2>1, <2>2, <3>1
    <3>2. CASE j # k
      BY <1>3, <3>2 DEF DeliveryInv, SlotsInv
    <3>3. QED
      BY <3>1, <3>2
  <2>4. QED
    BY <2>3 DEF SlotsInv
<1>9. ClientsInv'
  <2>1. ASSUME NEW v \in Clients
        PROVE  /\ owed'[v] \subseteq EventsOf(wants'[v])
               /\ cur[v] = 0 => last'[v] = 0 /\ seen'[v] = {} /\ wants'[v] = {}
               /\ cur[v] # 0 => LET g == conn'[<<v, cur[v]>>].hub IN Knows(replay[g], Arrived(g), last'[v], seen'[v], owed'[v])
    <3>1. CASE v = u
      BY <1>1, <1>4, <1>5, <3>1
    <3>2. CASE v # u
      <4>1. cur[v] # 0 => <<v, cur[v]>> \in Slots
        BY Latest
      <4>2. cur[v] # 0 => conn'[<<v, cur[v]>>] = conn[<<v, cur[v]>>]
        BY <1>1, <1>3, <3>2, <4>1
      <4>3. QED
        BY <1>5, <3>2, <4>2 DEF DeliveryInv, ClientsInv
    <3>3. QED
      BY <3>1, <3>2
  <2>2. QED
    BY <1>6, <2>1 DEF ClientsInv
<1>10. UpInv'
  <2>1. ASSUME NEW j \in Slots, j[2] = cur[j[1]], ~ Over(conn'[j])
        PROVE  Serves(conn'[j], replay[conn'[j].hub], Arrived(conn'[j].hub), log, last'[j[1]], seen'[j[1]], wants'[j[1]], owed'[j[1]])
    <3>1. j[1] \in Clients /\ j = <<j[1], j[2]>>
      BY SlotParts
    <3>2. CASE j[1] = u
      <4>1. conn'[j] = d
        BY <1>4, <2>1, <3>1, <3>2
      <4>2. QED
        BY <1>5, <2>1, <3>2, <4>1
    <3>3. CASE j[1] # u
      <4>1. conn'[j] = conn[j]
        BY <1>3, <3>3
      <4>2. QED
        BY <1>5, <2>1, <3>1, <3>3, <4>1, Served
    <3>4. QED
      BY <3>2, <3>3
  <2>2. QED
    BY <1>6, <2>1 DEF UpInv
<1>11. QED
  BY <1>7, <1>8, <1>9, <1>10 DEF DeliveryInv

\* What the latest connection of a client is, and what the client knows.
LEMMA LatestKnows ==
  ASSUME DeliveryInv, NEW k \in Slots, conn[k] # noConn, NEW u, u = k[1], NEW d, d = conn[<<u, cur[u]>>]
  PROVE  /\ Knows(replay[d.hub], Arrived(d.hub), last[u], seen[u], owed[u])
         /\ ~ Over(d) => Serves(d, replay[d.hub], Arrived(d.hub), log, last[u], seen[u], wants[u], owed[u])
         /\ u \in Clients /\ owed[u] \subseteq EventsOf(wants[u]) /\ wants[u] \in SUBSET HubTopics /\ d.hub \in Hubs
         /\ k[2] = cur[u] => d = conn[k]
         /\ last = [last EXCEPT ![u] = last[u]] /\ seen = [seen EXCEPT ![u] = seen[u]]
         /\ wants = [wants EXCEPT ![u] = wants[u]] /\ owed = [owed EXCEPT ![u] = owed[u]]
<1>1. u \in Clients /\ k[2] <= cur[u] /\ k[2] \in Nat /\ k[2] > 0 /\ cur[u] \in Nat /\ k = <<u, k[2]>>
  BY Opened, SlotParts
<1>2. cur[u] # 0 /\ (k[2] = cur[u] => d = conn[k])
  BY <1>1
<1>3. <<u, cur[u]>> \in Slots /\ d.hub \in Hubs
  BY <1>1, <1>2, Latest
<1>4. PICK j : j = <<u, cur[u]>>
  OBVIOUS
<1>5. j[1] = u /\ j[2] = cur[u] /\ j \in Slots /\ d = conn[j]
  BY <1>3, <1>4
<1>6. Knows(replay[d.hub], Arrived(d.hub), last[u], seen[u], owed[u]) /\ owed[u] \subseteq EventsOf(wants[u]) /\ wants[u] \in SUBSET HubTopics
  BY <1>1, <1>2 DEF DeliveryInv, StateOK, ClientsInv
<1>7. ~ Over(d) => Serves(d, replay[d.hub], Arrived(d.hub), log, last[u], seen[u], wants[u], owed[u])
  BY <1>5, Served
<1>8. /\ last = [last EXCEPT ![u] = last[u]] /\ seen = [seen EXCEPT ![u] = seen[u]]
      /\ wants = [wants EXCEPT ![u] = wants[u]] /\ owed = [owed EXCEPT ![u] = owed[u]]
  BY DEF DeliveryInv, StateOK
<1>9. QED
  BY <1>1, <1>2, <1>3, <1>6, <1>7, <1>8

\* A client follows less.
LEMMA ServesLess ==
  ASSUME NEW c, NEW r, NEW A, NEW lg, NEW l, NEW S, NEW w, NEW o, NEW v, NEW p, v \subseteq w, p \subseteq o,
         Serves(c, r, A, lg, l, S, w, o)
  PROVE  Serves(c, r, A, lg, l, S, v, p)
  BY DEF Serves, Resuming, Following

\* ... and is owed less.
LEMMA KnowsLess == ASSUME NEW r, NEW A, NEW l, NEW S, NEW o, NEW p, p \subseteq o, Knows(r, A, l, S, o) PROVE Knows(r, A, l, S, p)
  BY DEF Knows

\* A WebSocket unsubscribes.
LEMMA UnsubscribeMoves == ASSUME DeliveryInv, NEW k \in Slots, Unsubscribe(k) PROVE DeliveryInv'
<1>1. PICK u, a : u = k[1] /\ a = conn[<<k[1], cur[k[1]]>>]
  OBVIOUS
<1>2. conn[k].phase = "idle" /\ UNCHANGED <<log, replay, inbox, unsent, lost, cur, last, seen>>
  BY DEF Unsubscribe, planeVars
<1>3. conn[k] # noConn
  BY <1>2, NoConnOK
<1>4. PICK ts \in (SUBSET conn[k].topics) \ {{}} :
        /\ conn' = [conn EXCEPT ![k] = detachLocked(conn[k], ts)]
        /\ wants' = [wants EXCEPT ![u] = wants[u] \ ts]
        /\ owed' = [owed EXCEPT ![u] = owed[u] \ EventsOf(ts)]
  BY <1>1 DEF Unsubscribe
<1>5. ConnShape(conn[k]) /\ IsConn(conn[k])
  BY <1>3, Opened
<1> DEFINE c == detachLocked(conn[k], ts)
           w == wants[u] \ ts
           o == owed[u] \ EventsOf(ts)
<1>6. /\ IsConn(c) /\ c.hub = conn[k].hub /\ c.ended = conn[k].ended /\ c.queue = conn[k].queue /\ c.cut = conn[k].cut
      /\ c.topics = conn[k].topics \ ts /\ c.phase = conn[k].phase /\ c.asked = conn[k].asked /\ c.refused = conn[k].refused
      /\ c.after = conn[k].after /\ c.fresh = conn[k].fresh
  BY <1>5 DEF IsConn, Fields, detachLocked
<1>7. conn' = [conn EXCEPT ![k] = c] /\ wants' = [wants EXCEPT ![u] = w] /\ owed' = [owed EXCEPT ![u] = o]
  BY <1>4
<1> HIDE DEF c
<1>8. ConnShape(c) /\ (Over(conn[k]) => Over(c)) /\ (~ Over(c) => ~ Over(conn[k]))
  BY <1>5, <1>6 DEF ConnShape, Over
<1>9. /\ Knows(replay[a.hub], Arrived(a.hub), last[u], seen[u], owed[u])
      /\ ~ Over(a) => Serves(a, replay[a.hub], Arrived(a.hub), log, last[u], seen[u], wants[u], owed[u])
      /\ u \in Clients /\ owed[u] \subseteq EventsOf(wants[u]) /\ wants[u] \in SUBSET HubTopics
      /\ k[2] = cur[u] => a = conn[k]
      /\ last = [last EXCEPT ![u] = last[u]] /\ seen = [seen EXCEPT ![u] = seen[u]]
  BY <1>1, <1>3, LatestKnows
<1>10. w \in SUBSET HubTopics /\ o \subseteq EventsOf(w)
  BY <1>9 DEF EventsOf
<1>11. w \subseteq wants[u] /\ o \subseteq owed[u]
  OBVIOUS
<1>12. PICK d : d = IF k[2] = cur[u] THEN c ELSE conn[<<u, cur[u]>>]
  OBVIOUS
<1>13. d.hub = a.hub
  BY <1>1, <1>6, <1>9, <1>12
<1>14. Knows(replay[a.hub], Arrived(a.hub), last[u], seen[u], o)
  BY <1>9, <1>11, KnowsLess
<1>15. ASSUME ~ Over(d) PROVE Serves(d, replay[a.hub], Arrived(a.hub), log, last[u], seen[u], w, o)
  <2>1. CASE k[2] = cur[u]
    <3>1. d = c /\ ~ Over(conn[k]) /\ a = conn[k]
      BY <1>8, <1>9, <1>12, <1>15, <2>1
    <3>2. Serves(conn[k], replay[a.hub], Arrived(a.hub), log, last[u], seen[u], wants[u], owed[u])
      BY <1>9, <3>1
    <3>3. conn[k].topics # {}
      <4>1. ts # {} /\ ts \subseteq conn[k].topics
        BY <1>4
      <4>2. QED
        BY <4>1
    <3>4. QED
      BY <1>6, <3>1, <3>2, <3>3 DEF Serves, Resuming, Following
  <2>2. CASE k[2] # cur[u]
    <3>1. d = a
      BY <1>1, <1>12, <2>2
    <3>2. Serves(a, replay[a.hub], Arrived(a.hub), log, last[u], seen[u], wants[u], owed[u])
      BY <1>9, <1>15, <3>1
    <3>3. QED
      BY <1>11, <3>1, <3>2, ServesLess
  <2>3. QED
    BY <2>1, <2>2
<1> HIDE DEF w, o
<1>16. last' = [last EXCEPT ![u] = last[u]] /\ seen' = [seen EXCEPT ![u] = seen[u]]
  BY <1>2, <1>9
<1>17. PICK l, S, r, A : l = last[u] /\ S = seen[u] /\ r = replay[d.hub] /\ A = Arrived(d.hub)
  OBVIOUS
<1>18. Knows(r, A, l, S, o) /\ (~ Over(d) => Serves(d, r, A, log, l, S, w, o)) /\ last' = [last EXCEPT ![u] = l] /\ seen' = [seen EXCEPT ![u] = S]
  BY <1>13, <1>14, <1>15, <1>16, <1>17
<1>19. c.hub = conn[k].hub
  BY <1>6
<1>20. QED
  <2>1. UNCHANGED <<log, replay, inbox, unsent, lost, cur>>
    BY <1>2
  <2>2. Knows(replay[d.hub], Arrived(d.hub), l, S, o) /\ (~ Over(d) => Serves(d, replay[d.hub], Arrived(d.hub), log, l, S, w, o))
    BY <1>17, <1>18
  <2>3. last' = [last EXCEPT ![u] = l] /\ seen' = [seen EXCEPT ![u] = S]
    BY <1>18
  <2>4. u = k[1]
    BY <1>1
  <2>5. QED
    BY <1>3, <1>7, <1>8, <1>10, <1>12, <1>19, <2>1, <2>2, <2>3, <2>4, ClientMoves

\* pop takes what is no event: what the client is owed still waits behind it.
LEMMA CoversTail ==
  ASSUME NEW Q \in Seq(Item), Q # <<>>, ~ IsEvent(Q[1]), NEW lg, NEW e, Covers(Q, lg, e),
         Q[1].kind = "reset" => ~ (Q[1].topic = lg[e].topic /\ e <= Q[1].id)
  PROVE  Covers(Tail(Q), lg, e)
<1>1. PICK i \in DOMAIN Q : \/ IsEvent(Q[i]) /\ Q[i].id = e
                            \/ Q[i].kind = "reset" /\ Q[i].topic = lg[e].topic /\ e <= Q[i].id
  BY DEF Covers
<1>2. i # 1
  BY <1>1
<1>3. i - 1 \in DOMAIN Tail(Q) /\ Tail(Q)[i - 1] = Q[i]
  BY <1>2, TailItems
<1>4. QED
  BY <1>1, <1>3 DEF Covers

\* A client's connection whose queue is not empty follows.
LEMMA PopServes ==
  ASSUME DeliveryInv, NEW k \in Slots, conn[k] # noConn, conn[k].queue # <<>>, ~ conn[k].cut, ~ conn[k].ended, NEW u, u = k[1]
  PROVE  /\ ~ Over(conn[k]) /\ k[2] = cur[u] /\ conn[k].queue \in Seq(Item) /\ conn[k].hub \in Hubs
         /\ QueueOK(replay[conn[k].hub], conn[k].queue, last[u], seen[u], Arrived(conn[k].hub))
         /\ Following(conn[k], wants[u], owed[u], Arrived(conn[k].hub), log)
         /\ Knows(replay[conn[k].hub], Arrived(conn[k].hub), last[u], seen[u], owed[u])
<1>1. ConnShape(conn[k]) /\ (k[2] # cur[u] => Over(conn[k])) /\ conn[k].hub \in Hubs
  BY Opened
<1>2. ~ Over(conn[k]) /\ conn[k].queue \in Seq(Item)
  BY <1>1 DEF ConnShape, Over
<1>3. k[2] = cur[u]
  BY <1>1, <1>2
<1>4. Serves(conn[k], replay[conn[k].hub], Arrived(conn[k].hub), log, last[u], seen[u], wants[u], owed[u])
  BY <1>2, <1>3, Served
<1>5. PICK d : d = conn[<<u, cur[u]>>]
  OBVIOUS
<1>6. Knows(replay[d.hub], Arrived(d.hub), last[u], seen[u], owed[u]) /\ (k[2] = cur[u] => d = conn[k])
  BY <1>5, LatestKnows
<1>7. QED
  BY <1>1, <1>2, <1>3, <1>4, <1>6 DEF Serves, Resuming

\* The writer takes the head of the queue and sends it.
LEMMA PopMoves == ASSUME DeliveryInv, NEW k \in Slots, pop(k) PROVE DeliveryInv'
<1>1. PICK u, Q, q : u = k[1] /\ Q = conn[k].queue /\ q = Head(conn[k].queue)
  OBVIOUS
<1>2. Q # <<>> /\ ~ conn[k].ended /\ UNCHANGED <<log, replay, inbox, unsent, lost, cur, wants>>
  BY <1>1 DEF pop, planeVars
<1>3. conn[k] # noConn
  BY <1>1, <1>2, NoConnOK DEF ConnOK, noConn
<1>4. ConnShape(conn[k]) /\ IsConn(conn[k]) /\ Q \in Seq(Item)
  BY <1>1, <1>3, Opened DEF ConnShape
<1>5. Tail(Q) \in Seq(Item) /\ q = Q[1] /\ Q[1] \in Item
  BY <1>1, <1>2, <1>4, TailItems
<1> DEFINE c == [conn[k] EXCEPT !.queue = Tail(Q)]
<1>6. conn' = [conn EXCEPT ![k] = c]
  BY <1>1 DEF pop
<1>7. /\ IsConn(c) /\ c.hub = conn[k].hub /\ c.ended = conn[k].ended /\ c.queue = Tail(Q) /\ c.cut = conn[k].cut
      /\ c.topics = conn[k].topics /\ c.phase = conn[k].phase /\ c.asked = conn[k].asked /\ c.refused = conn[k].refused
      /\ c.after = conn[k].after /\ c.fresh = conn[k].fresh
  BY <1>4 DEF IsConn, Fields
<1> HIDE DEF c
<1>8. ConnShape(c) /\ (Over(conn[k]) => Over(c)) /\ (~ Over(c) => ~ Over(conn[k]))
  BY <1>1, <1>2, <1>4, <1>5, <1>7 DEF ConnShape, Over
<1>9. CASE conn[k].cut
  <2>1. UNCHANGED <<log, replay, inbox, unsent, lost, clientVars>>
    BY <1>2, <1>9 DEF pop, clientVars
  <2>2. Over(c) /\ c.hub = conn[k].hub
    BY <1>7, <1>9 DEF Over
  <2>3. QED
    BY <1>3, <1>6, <1>8, <2>1, <2>2, ConnMoves
<1>10. CASE ~ conn[k].cut
  <2>1. PICK h, r, A, l, S, w, o : /\ h = conn[k].hub /\ r = replay[h] /\ A = Arrived(h) /\ l = last[u] /\ S = seen[u]
                                   /\ w = wants[u] /\ o = owed[u]
    OBVIOUS
  <2>2. /\ k[2] = cur[u] /\ h \in Hubs
        /\ QueueOK(r, Q, l, S, A) /\ Following(conn[k], w, o, A, log) /\ Knows(r, A, l, S, o)
    BY <1>1, <1>2, <1>3, <1>10, <2>1, PopServes
  <2>3. RingOK(r) /\ A \in SUBSET Events /\ w \in SUBSET HubTopics /\ u \in Clients /\ o \subseteq EventsOf(w)
        /\ wants' = [wants EXCEPT ![u] = w] /\ last = [last EXCEPT ![u] = l] /\ seen = [seen EXCEPT ![u] = S]
    <3>1. RingOK(r) /\ A \in SUBSET Events
      BY <2>1, <2>2, ArrivedLogged DEF DeliveryInv, RingsInv, StateOK
    <3>2. PICK a : a = conn[<<u, cur[u]>>]
      OBVIOUS
    <3>3. /\ u \in Clients /\ owed[u] \subseteq EventsOf(wants[u]) /\ wants[u] \in SUBSET HubTopics
          /\ last = [last EXCEPT ![u] = last[u]] /\ seen = [seen EXCEPT ![u] = seen[u]] /\ wants = [wants EXCEPT ![u] = wants[u]]
      BY <1>1, <1>3, <3>2, LatestKnows
    <3>4. QED
      BY <1>2, <2>1, <3>1, <3>3
  <2>4. PICK x, y, z : /\ last' = [last EXCEPT ![u] = x] /\ seen' = [seen EXCEPT ![u] = y] /\ owed' = [owed EXCEPT ![u] = z]
                       /\ z \subseteq o /\ Knows(r, A, x, y, z) /\ QueueOK(r, Tail(Q), x, y, A)
                       /\ \A e \in z \cap A : Covers(Tail(Q), log, e)
    <3>1. CASE IsEvent(q)
      <4>1. last' = [last EXCEPT ![u] = q.id] /\ seen' = [seen EXCEPT ![u] = S \cup {q.id}] /\ owed' = [owed EXCEPT ![u] = o \ {q.id}]
        BY <1>1, <1>10, <2>1, <3>1 DEF pop, IsEvent
      <4>2. \A e \in o \cap A : Covers(Q, log, e)
        BY <1>1, <2>2 DEF Following
      <4>3. PICK lg : lg = log
        OBVIOUS
      <4>4. /\ Knows(r, A, Q[1].id, S \cup {Q[1].id}, o \ {Q[1].id})
            /\ \A e \in (o \ {Q[1].id}) \cap A : Covers(Tail(Q), lg, e)
        BY <1>2, <1>4, <1>5, <2>2, <2>3, <3>1, <4>2, <4>3, KnowsPop
      <4>5. QueueOK(r, Tail(Q), Q[1].id, S \cup {Q[1].id}, A)
        BY <1>2, <1>4, <1>5, <2>2, <3>1, QueueTailEvent
      <4>6. o \ {q.id} \subseteq o
        OBVIOUS
      <4>7. PICK f, P, p : f = Q[1].id /\ P = S \cup {Q[1].id} /\ p = o \ {Q[1].id}
        OBVIOUS
      <4>8. last' = [last EXCEPT ![u] = f] /\ seen' = [seen EXCEPT ![u] = P] /\ owed' = [owed EXCEPT ![u] = p] /\ p \subseteq o
        BY <1>5, <4>1, <4>6, <4>7
      <4>9. Knows(r, A, f, P, p) /\ QueueOK(r, Tail(Q), f, P, A) /\ \A e \in p \cap A : Covers(Tail(Q), log, e)
        BY <4>3, <4>4, <4>5, <4>7
      <4>10. QED
        BY <4>8, <4>9
    <3>2. CASE ~ IsEvent(q)
      <4> DEFINE X == IF q.kind = "reset" THEN {e \in EventsOf({q.topic}) : e <= q.id} ELSE {}
      <4>1. last' = last /\ seen' = seen /\ owed' = [owed EXCEPT ![u] = o \ X]
        BY <1>1, <1>10, <2>1, <3>2 DEF pop, IsEvent
      <4>2. QueueOK(r, Tail(Q), l, S, A)
        BY <1>2, <1>4, <2>2, QueueTailOwn
      <4>3. ASSUME NEW e \in (o \ X) \cap A PROVE Covers(Tail(Q), log, e)
        <5>1. Covers(Q, log, e)
          BY <1>1, <2>2 DEF Following
        <5>2. e \in DOMAIN log
          BY <2>1, <4>3 DEF Arrived
        <5>3. Q[1].kind = "reset" => ~ (Q[1].topic = log[e].topic /\ e <= Q[1].id)
          BY <1>5, <4>3, <5>2 DEF EventsOf
        <5>4. PICK lg : lg = log
          OBVIOUS
        <5>5. Covers(Tail(Q), lg, e)
          BY <1>2, <1>4, <1>5, <3>2, <5>1, <5>3, <5>4, CoversTail
        <5>6. QED
          BY <5>4, <5>5
      <4> HIDE DEF X
      <4>4. o \ X \subseteq o
        OBVIOUS
      <4>5. Knows(r, A, l, S, o \ X)
        BY <2>2, <4>4, KnowsLess
      <4>6. QED
        BY <2>3, <4>1, <4>2, <4>3, <4>4, <4>5
    <3>3. QED
      BY <3>1, <3>2
  <2>5. Serves(c, r, A, log, x, y, w, z)
    BY <1>7, <2>2, <2>4 DEF Serves, Following
  <2>6. PICK d : d = IF k[2] = cur[u] THEN c ELSE conn[<<u, cur[u]>>]
    OBVIOUS
  <2>7. d = c /\ d.hub = h /\ c.hub = conn[k].hub
    BY <1>7, <2>1, <2>2, <2>6
  <2>8. Knows(replay[d.hub], Arrived(d.hub), x, y, z) /\ (~ Over(d) => Serves(d, replay[d.hub], Arrived(d.hub), log, x, y, w, z))
    BY <2>1, <2>4, <2>5, <2>7
  <2>9. last' = [last EXCEPT ![u] = x] /\ seen' = [seen EXCEPT ![u] = y] /\ owed' = [owed EXCEPT ![u] = z] /\ z \subseteq EventsOf(w)
        /\ wants' = [wants EXCEPT ![u] = w] /\ w \in SUBSET HubTopics
    BY <2>3, <2>4
  <2>10. u = k[1] /\ UNCHANGED <<log, replay, inbox, unsent, lost, cur>>
    BY <1>1, <1>2
  <2>11. QED
    BY <1>3, <1>6, <1>8, <2>6, <2>7, <2>8, <2>9, <2>10, ClientMoves
<1>11. QED
  BY <1>9, <1>10

\* attach: what becomes of the connection.
LEMMA AttachShape ==
  ASSUME StateOK, RingsInv, NEW c, ConnShape(c), c.phase \notin {"none", "gone"}
  PROVE  /\ ConnShape(attachLocked(c)) /\ attachLocked(c).hub = c.hub /\ attachLocked(c).cut = c.cut
         /\ c.ended => attachLocked(c).ended
         /\ ~ attachLocked(c).ended =>
              /\ attachLocked(c).queue = c.queue \o frames(c) /\ attachLocked(c).topics = c.topics \cup c.asked
              /\ attachLocked(c).after = 0 /\ attachLocked(c).fresh = c.fresh
         /\ attachLocked(c).asked = {} /\ attachLocked(c).refused = {}
         /\ c.ended \/ ~ (Len(c.queue) + Len(frames(c)) > cap) => attachLocked(c).ended = c.ended
<1> DEFINE s == [c EXCEPT !.topics = @ \cup c.asked, !.phase = "idle", !.asked = {}, !.refused = {},
                          !.after = 0, !.writer = IF c.kind = "sse" /\ ~ c.ended THEN "draining" ELSE @]
           g == [s EXCEPT !.queue = @ \o frames(c), !.wake = @ \/ frames(c) # <<>>]
<1>1. IsConn(c) /\ c.queue \in Seq(Item) /\ c.hub \in Hubs
  BY DEF ConnShape
<1>2. /\ IsConn(s) /\ s.hub = c.hub /\ s.cut = c.cut /\ s.ended = c.ended /\ s.queue = c.queue /\ s.topics = c.topics \cup c.asked
      /\ s.phase = "idle" /\ s.asked = {} /\ s.refused = {} /\ s.after = 0 /\ s.fresh = c.fresh
  BY <1>1 DEF IsConn, Fields
<1>3. attachLocked(c) = IF c.ended THEN s ELSE IF Len(c.queue) + Len(frames(c)) > cap THEN dropLocked(s) ELSE g
  BY DEF attachLocked
<1> HIDE DEF s
<1>4. 0 \in 0 .. MaxEvents
  BY RingAssumption
<1>5. ConnShape(s)
  BY <1>1, <1>2, <1>4 DEF ConnShape
<1>6. /\ ConnShape(dropLocked(s)) /\ dropLocked(s).hub = c.hub /\ dropLocked(s).cut = c.cut /\ dropLocked(s).ended
      /\ dropLocked(s).asked = {} /\ dropLocked(s).refused = {}
  <2>1. IsConn(s)
    BY <1>2
  <2>2. /\ dropLocked(s).cut = s.cut /\ dropLocked(s).ended = TRUE /\ dropLocked(s).asked = s.asked
        /\ dropLocked(s).refused = s.refused
    BY <2>1 DEF dropLocked, end, detachLocked, IsConn, Fields
  <2>3. QED
    BY <1>2, <1>5, <2>2, EndShape
<1>7. frames(c) \in Seq(Item)
  <2>1. LogOK /\ RingOK(replay[c.hub]) /\ \A f \in Events : kept(replay[c.hub], f) => f \in DOMAIN log
    BY <1>1, ArrivedLogged DEF StateOK, RingsInv
  <2>2. QED
    BY <2>1, FramesType DEF ConnShape
<1>8. /\ IsConn(g) /\ g.hub = s.hub /\ g.cut = s.cut /\ g.ended = s.ended /\ g.queue = s.queue \o frames(c) /\ g.topics = s.topics
      /\ g.phase = s.phase /\ g.asked = s.asked /\ g.refused = s.refused /\ g.after = s.after /\ g.fresh = s.fresh
  BY <1>2 DEF IsConn, Fields
<1> HIDE DEF g
<1>9. c.queue \o frames(c) \in Seq(Item)
  BY <1>1, <1>7, ConcatItems
<1>10. ~ c.ended => ConnShape(g)
  BY <1>1, <1>2, <1>4, <1>5, <1>8, <1>9 DEF ConnShape
<1>11. CASE c.ended
  BY <1>2, <1>3, <1>5, <1>11
<1>12. CASE ~ c.ended /\ attachLocked(c) = dropLocked(s) /\ Len(c.queue) + Len(frames(c)) > cap
  BY <1>6, <1>12
<1>13. CASE ~ c.ended /\ attachLocked(c) = g
  BY <1>2, <1>8, <1>10, <1>13
<1>14. QED
  BY <1>3, <1>11, <1>12, <1>13

\* check's verdict changes what is asked for and refused, and nothing else.
LEMMA VerdictShape ==
  ASSUME NEW a, ConnShape(a), NEW c \in Verdicts(a)
  PROVE  /\ ConnShape(c) /\ c.hub = a.hub /\ c.cut = a.cut /\ c.ended = a.ended /\ c.phase = a.phase /\ c.after = a.after
         /\ c.fresh = a.fresh /\ c.topics = a.topics /\ c.queue = a.queue
         /\ IF a.kind = "sse" THEN c = a ELSE c.asked \cup c.refused = a.asked
<1>1. IsConn(a) /\ a.asked \subseteq HubTopics
  BY DEF ConnShape
<1>2. CASE a.kind = "sse"
  BY <1>2 DEF Verdicts
<1>3. CASE a.kind # "sse"
  <2>1. PICK ok \in SUBSET a.asked : c = [a EXCEPT !.asked = ok, !.refused = a.asked \ ok]
    BY <1>3 DEF Verdicts
  <2>2. /\ IsConn(c) /\ c.hub = a.hub /\ c.cut = a.cut /\ c.ended = a.ended /\ c.phase = a.phase /\ c.after = a.after
        /\ c.fresh = a.fresh /\ c.topics = a.topics /\ c.queue = a.queue /\ c.asked = ok /\ c.refused = a.asked \ ok
    BY <1>1, <2>1 DEF IsConn, Fields
  <2>3. ConnShape(c)
    BY <1>1, <2>2 DEF ConnShape
  <2>4. c.asked \cup c.refused = a.asked
    BY <2>2
  <2>5. QED
    BY <1>3, <2>2, <2>3, <2>4
<1>4. QED
  BY <1>2, <1>3

\* What the client follows and is owed once a verdict's topics are attached.
NowWants(c, w) == (w \cup c.asked) \ c.refused
NowOwed(c, o)  == o \ (EventsOf(c.refused) \cup (IF c.after = 0 THEN EventsOf(c.asked) ELSE {}))

\* attach serves the client: the topics it was refused it follows no more, and a
\* connection that resumes after no event begins now.
LEMMA AttachServes ==
  ASSUME DeliveryInv, NEW a, ConnShape(a), a.kind = "sse" => a.phase = "ready", a.kind # "sse" => a.phase = "asking",
         NEW c \in Verdicts(a), ~ attachLocked(c).ended, NEW l, NEW S, NEW w, NEW o,
         Serves(a, replay[c.hub], Arrived(c.hub), log, l, S, w, o), Knows(replay[c.hub], Arrived(c.hub), l, S, o), o \subseteq EventsOf(w)
  PROVE  /\ Serves(attachLocked(c), replay[c.hub], Arrived(c.hub), log, l, S, NowWants(c, w), NowOwed(c, o))
         /\ NowOwed(c, o) \subseteq EventsOf(NowWants(c, w)) /\ NowOwed(c, o) \subseteq o
<1>0. PICK b, r, A, v, p : b = attachLocked(c) /\ r = replay[c.hub] /\ A = Arrived(c.hub) /\ v = NowWants(c, w) /\ p = NowOwed(c, o)
  OBVIOUS
<1>0a. /\ v = (w \cup c.asked) \ c.refused
       /\ p \subseteq o /\ p \cap EventsOf(c.refused) = {} /\ (c.after = 0 => p \cap EventsOf(c.asked) = {})
  BY <1>0 DEF NowWants, NowOwed
<1>1. /\ ConnShape(c) /\ c.hub = a.hub /\ c.ended = a.ended /\ c.phase = a.phase /\ c.after = a.after
      /\ c.fresh = a.fresh /\ c.topics = a.topics /\ c.queue = a.queue
      /\ IF a.kind = "sse" THEN c = a ELSE c.asked \cup c.refused = a.asked
  BY VerdictShape
<1>2. /\ b.queue = c.queue \o frames(c) /\ b.topics = c.topics \cup c.asked /\ b.after = 0 /\ b.fresh = c.fresh
  BY <1>0, <1>1, AttachShape DEF DeliveryInv
<1>3. p \subseteq EventsOf(v) /\ p \subseteq o
  BY <1>0a DEF EventsOf
<1>4. /\ LogOK /\ c.hub \in Hubs /\ c.asked \subseteq HubTopics /\ c.refused \subseteq HubTopics /\ c.after \in 0 .. MaxEvents
      /\ c.queue \in Seq(Item)
  BY <1>1 DEF ConnShape, DeliveryInv, StateOK
<1>5. RingOK(r) /\ A \in SUBSET DOMAIN log /\ \A f \in Events : kept(r, f) => f \in A
  BY <1>0, <1>4, ArrivedLogged DEF DeliveryInv, RingsInv
<1>6. /\ frames(c) \in Seq(Item)
      /\ c.after = 0 => \A i \in DOMAIN frames(c) : frames(c)[i].kind = "refused"
  <2>1. RingOK(replay[c.hub]) /\ \A f \in Events : kept(replay[c.hub], f) => f \in DOMAIN log
    BY <1>0, <1>5
  <2>2. QED
    BY <1>4, <2>1, FramesType
<1>7. QueueOK(r, a.queue, l, S, A) /\ Serves(a, r, A, log, l, S, w, o)
  BY <1>0 DEF Serves
<1>8. CASE Resuming(a, l, w)
  <2>1. c.queue = <<>> /\ c.topics = {} /\ ~ c.fresh /\ c.after = l /\ w \subseteq c.asked \cup c.refused
    BY <1>1, <1>8 DEF Resuming
  <2>2. b.queue = frames(c)
    BY <1>2, <1>6, <2>1
  <2>3. /\ QueueOK(r, frames(c), l, S, A)
        /\ l # 0 => \A e \in o \cap A : log[e].topic \in c.asked => Covers(frames(c), log, e)
    <3>1. RingOK(replay[c.hub]) /\ (\A f \in Events : kept(replay[c.hub], f) => f \in A) /\ Knows(replay[c.hub], A, c.after, S, o)
      BY <1>0, <1>5, <2>1
    <3>2. /\ QueueOK(replay[c.hub], frames(c), c.after, S, A)
          /\ c.after # 0 => \A e \in o \cap A : log[e].topic \in c.asked => Covers(frames(c), log, e)
      BY <1>4, <1>5, <3>1, FramesOK
    <3>3. QED
      BY <1>0, <2>1, <3>2
  <2>4. v \subseteq b.topics
    BY <1>0a, <1>2, <2>1
  <2>5. ASSUME NEW e \in p \cap A PROVE Covers(b.queue, log, e)
    <3>1. e \in DOMAIN log /\ log[e].topic \in c.asked /\ e \in o /\ l # 0
      <4>1. e \in EventsOf(v) /\ e \in o
        BY <1>3, <2>5
      <4>2. e \in DOMAIN log /\ log[e].topic \in c.asked
        BY <1>0a, <2>1, <4>1 DEF EventsOf
      <4>3. e \in EventsOf(c.asked)
        BY <4>2 DEF EventsOf
      <4>4. QED
        BY <1>0a, <2>1, <2>5, <4>1, <4>2, <4>3
    <3>2. QED
      BY <2>2, <2>3, <2>5, <3>1
  <2>6. Following(b, v, p, A, log)
    BY <1>2, <2>1, <2>4, <2>5 DEF Following
  <2>7. QED
    BY <1>0, <1>3, <2>2, <2>3, <2>6 DEF Serves
<1>9. CASE ~ Resuming(a, l, w)
  <2>1. Following(a, w, o, A, log)
    BY <1>7, <1>9 DEF Serves
  <2>2. c.after = 0 /\ ~ c.fresh /\ w \subseteq c.topics /\ \A e \in o \cap A : Covers(c.queue, log, e)
    BY <1>1, <2>1 DEF Following
  <2>3. PICK fs, Q, lg : fs = frames(c) /\ Q = c.queue /\ lg = log
    OBVIOUS
  <2>4. fs \in Seq(Item) /\ Q \in Seq(Item) /\ QueueOK(r, Q, l, S, A) /\ \A i \in DOMAIN fs : fs[i].kind = "refused"
    BY <1>1, <1>4, <1>6, <1>7, <2>2, <2>3
  <2>5. QueueOK(r, Q \o fs, l, S, A) /\ \A e : Covers(Q, lg, e) => Covers(Q \o fs, lg, e)
    BY <2>4, QueueRefusals
  <2>6. v \subseteq b.topics
    BY <1>0a, <1>2, <2>2
  <2>7. \A e \in p \cap A : Covers(b.queue, log, e)
    BY <1>2, <1>3, <2>2, <2>3, <2>5
  <2>8. Following(b, v, p, A, log) /\ QueueOK(r, b.queue, l, S, A)
    BY <1>2, <2>2, <2>3, <2>5, <2>6, <2>7 DEF Following
  <2>9. QED
    BY <1>0, <1>3, <2>8 DEF Serves
<1>10. QED
  BY <1>8, <1>9

\* attach.
LEMMA AttachMoves == ASSUME DeliveryInv, NEW k \in Slots, Attach(k) PROVE DeliveryInv'
<1>1. PICK u, a : u = k[1] /\ a = conn[k]
  OBVIOUS
<1>2. a.phase = (IF a.kind = "sse" THEN "ready" ELSE "asking") /\ UNCHANGED <<log, replay, inbox, unsent, lost, cur, last, seen>>
  BY <1>1 DEF Attach, planeVars
<1>3. a # noConn /\ a.phase \notin {"none", "gone"}
  BY <1>2, NoConnOK
<1>4. ConnShape(a) /\ a.hub \in Hubs /\ u \in Clients
  BY <1>1, <1>3, Opened
<1> DEFINE Forgiven(c) == EventsOf(c.refused) \cup (IF c.after = 0 THEN EventsOf(c.asked) ELSE {})
           Listening(c) == k[2] = cur[u] /\ ~ c.cut /\ ~ attachLocked(c).ended
<1>5. PICK c \in Verdicts(a) :
        /\ conn' = [conn EXCEPT ![k] = attachLocked(c)]
        /\ wants' = IF Listening(c) THEN [wants EXCEPT ![u] = (wants[u] \cup c.asked) \ c.refused] ELSE wants
        /\ owed' = IF Listening(c) THEN [owed EXCEPT ![u] = owed[u] \ Forgiven(c)] ELSE owed
  BY <1>1 DEF Attach
<1>6. /\ ConnShape(c) /\ c.hub = a.hub /\ c.cut = a.cut /\ c.ended = a.ended /\ c.phase = a.phase /\ c.after = a.after
      /\ c.asked \subseteq HubTopics
  BY <1>4, VerdictShape DEF ConnShape
<1>7. PICK b : b = attachLocked(c)
  OBVIOUS
<1>8. ConnShape(b) /\ b.hub = a.hub /\ b.cut = a.cut /\ (a.ended => b.ended)
  BY <1>3, <1>6, <1>7, AttachShape DEF DeliveryInv
<1>9. Over(a) => Over(b)
  BY <1>3, <1>8 DEF Over
<1>10. CASE Listening(c)
  <2>1. k[2] = cur[u] /\ ~ b.ended /\ ~ Over(a)
    BY <1>3, <1>6, <1>7, <1>8, <1>10 DEF Over
  <2>2. PICK r, A, l, S, w, o, v, p : /\ r = replay[c.hub] /\ A = Arrived(c.hub) /\ l = last[u] /\ S = seen[u] /\ w = wants[u] /\ o = owed[u]
                                      /\ v = NowWants(c, w) /\ p = NowOwed(c, o)
    OBVIOUS
  <2>3. PICK d : d = conn[<<u, cur[u]>>]
    OBVIOUS
  <2>4. /\ Knows(replay[d.hub], Arrived(d.hub), last[u], seen[u], owed[u])
        /\ ~ Over(d) => Serves(d, replay[d.hub], Arrived(d.hub), log, last[u], seen[u], wants[u], owed[u])
        /\ owed[u] \subseteq EventsOf(wants[u]) /\ wants[u] \in SUBSET HubTopics
        /\ k[2] = cur[u] => d = conn[k]
        /\ last = [last EXCEPT ![u] = last[u]] /\ seen = [seen EXCEPT ![u] = seen[u]]
    BY <1>1, <1>3, <2>3, LatestKnows
  <2>5. Serves(a, r, A, log, l, S, w, o) /\ Knows(r, A, l, S, o) /\ o \subseteq EventsOf(w) /\ w \in SUBSET HubTopics
    BY <1>1, <1>6, <2>1, <2>2, <2>4
  <2>6. Serves(b, r, A, log, l, S, v, p) /\ p \subseteq EventsOf(v) /\ p \subseteq o
    <3>1. ConnShape(a) /\ (a.kind = "sse" => a.phase = "ready") /\ (a.kind # "sse" => a.phase = "asking") /\ c \in Verdicts(a) /\ ~ attachLocked(c).ended
      BY <1>2, <1>4, <1>7, <2>1
    <3>2. /\ Serves(a, replay[c.hub], Arrived(c.hub), log, l, S, w, o) /\ Knows(replay[c.hub], Arrived(c.hub), l, S, o)
          /\ o \subseteq EventsOf(w)
      BY <2>2, <2>5
    <3>3. /\ Serves(attachLocked(c), replay[c.hub], Arrived(c.hub), log, l, S, NowWants(c, w), NowOwed(c, o))
          /\ NowOwed(c, o) \subseteq EventsOf(NowWants(c, w)) /\ NowOwed(c, o) \subseteq o
      BY <3>1, <3>2, AttachServes
    <3>4. QED
      BY <1>7, <2>2, <3>3
  <2>7. Knows(r, A, l, S, p)
    BY <2>5, <2>6, KnowsLess
  <2>8. PICK e : e = IF k[2] = cur[u] THEN b ELSE conn[<<u, cur[u]>>]
    OBVIOUS
  <2>9. e = b /\ e.hub = c.hub /\ b.hub = conn[k].hub
    BY <1>1, <1>6, <1>8, <2>1, <2>8
  <2>10. Knows(replay[e.hub], Arrived(e.hub), l, S, p) /\ (~ Over(e) => Serves(e, replay[e.hub], Arrived(e.hub), log, l, S, v, p))
    BY <2>2, <2>6, <2>7, <2>9
  <2>11. last' = [last EXCEPT ![u] = l] /\ seen' = [seen EXCEPT ![u] = S] /\ v \in SUBSET HubTopics
    BY <1>2, <1>6, <2>2, <2>4, <2>5 DEF NowWants
  <2>12. wants' = [wants EXCEPT ![u] = v] /\ owed' = [owed EXCEPT ![u] = p] /\ conn' = [conn EXCEPT ![k] = b]
    BY <1>5, <1>7, <1>10, <2>2 DEF NowWants, NowOwed
  <2>13. u = k[1] /\ UNCHANGED <<log, replay, inbox, unsent, lost, cur>> /\ conn[k] # noConn /\ (Over(conn[k]) => Over(b)) /\ p \subseteq EventsOf(v)
    BY <1>1, <1>2, <1>3, <1>9, <2>6
  <2>14. QED
    BY <1>8, <2>8, <2>9, <2>10, <2>11, <2>12, <2>13, ClientMoves
<1>11. CASE ~ Listening(c)
  <2>1. UNCHANGED <<log, replay, inbox, unsent, lost, clientVars>>
    BY <1>2, <1>5, <1>11 DEF clientVars
  <2>2. k[2] # cur[u] \/ Over(b)
    BY <1>6, <1>7, <1>8, <1>11 DEF Over
  <2>3. conn' = [conn EXCEPT ![k] = b] /\ b.hub = conn[k].hub /\ (Over(conn[k]) => Over(b)) /\ conn[k] # noConn
    BY <1>1, <1>3, <1>5, <1>7, <1>8, <1>9
  <2>4. QED
    BY <1>1, <1>8, <2>1, <2>2, <2>3, ConnMoves
<1>12. QED
  BY <1>10, <1>11

\* An event comes to a hub, published there or brought by the backplane.
LEMMA ArrivalMoves ==
  ASSUME DeliveryInv, NEW h \in Hubs, NEW e \in Events, NEW t \in HubTopics, e \notin Arrived(h),
         LogOK', PlaneInv', inbox' = [g \in Hubs |-> inbox'[g]], lost' = [g \in Hubs |-> lost'[g]],
         replay' = [replay EXCEPT ![h] = add(@, e)], conn' = deliverLocked(h, e, t),
         UNCHANGED <<cur, last, seen, wants>>, owed' = [u \in Clients |-> owed'[u]],
         e \in DOMAIN log', log'[e].topic = t, \A f \in DOMAIN log : f \in DOMAIN log' /\ log'[f] = log[f],
         Arrived(h)' = Arrived(h) \cup {e}, \A g \in Hubs : g # h => Arrived(g)' = Arrived(g),
         \A u \in Clients : /\ owed'[u] \subseteq owed[u] \cup {e} /\ owed'[u] \cap DOMAIN log \subseteq owed[u]
                            /\ e \in owed'[u] => t \in wants[u]
  PROVE  DeliveryInv'
<1> DEFINE q == [kind |-> "live", id |-> e, topic |-> t]
           P(k) == [conn[k] EXCEPT !.queue = Append(@, q), !.wake = TRUE]
<1>1. /\ conn' = [k \in Slots |-> conn'[k]]
      /\ \A k \in Slots :
           \/ /\ conn'[k] = conn[k]
              /\ conn[k].hub # h \/ t \notin conn[k].topics \/ conn[k].ended
           \/ /\ conn[k].hub = h /\ t \in conn[k].topics /\ ~ conn[k].ended
              /\ conn'[k] = dropLocked(conn[k]) \/ conn'[k] = P(k)
  BY DEF deliverLocked, push
<1>2. q \in Item /\ q.kind = "live" /\ q.id = e /\ e \in 0 .. MaxEvents /\ IsEvent(q)
  <2>1. e \in 0 .. MaxEvents
    BY RingAssumption DEF Events
  <2>2. QED
    BY <2>1 DEF Item, IsEvent
<1>3. replay' = [g \in Hubs |-> replay'[g]] /\ replay'[h] = add(replay[h], e) /\ \A g \in Hubs : g # h => replay'[g] = replay[g]
  BY DEF DeliveryInv, StateOK
<1>4. StateOK'
  BY <1>1, <1>3 DEF DeliveryInv, StateOK
<1>5. RingOK(replay[h]) /\ ~ kept(replay[h], e) /\ \A g \in Hubs : Arrived(g) \in SUBSET Events /\ Arrived(g) \in SUBSET DOMAIN log
  BY ArrivedLogged DEF DeliveryInv, RingsInv, StateOK
<1>6. RingsInv'
  <2>1. /\ RingOK(add(replay[h], e))
        /\ \A f \in Events : kept(add(replay[h], e), f) => f = e \/ kept(replay[h], f)
    BY <1>5, AddOK
  <2>2. ASSUME NEW g \in Hubs PROVE RingOK(replay'[g]) /\ \A f \in Events : kept(replay'[g], f) => f \in Arrived(g)'
    <3>1. CASE g = h
      BY <1>3, <2>1, <3>1 DEF DeliveryInv, RingsInv
    <3>2. CASE g # h
      BY <1>3, <3>2 DEF DeliveryInv, RingsInv
    <3>3. QED
      BY <3>1, <3>2
  <2>3. QED
    BY <2>2 DEF RingsInv
<1>7. ASSUME NEW k \in Slots, conn'[k] = P(k), conn[k].hub = h
      PROVE  /\ IsConn(P(k)) /\ P(k).hub = conn[k].hub /\ P(k).queue = Append(conn[k].queue, q) /\ P(k).topics = conn[k].topics
             /\ P(k).asked = conn[k].asked /\ P(k).refused = conn[k].refused /\ P(k).after = conn[k].after /\ P(k).fresh = conn[k].fresh
             /\ P(k).phase = conn[k].phase /\ P(k).ended = conn[k].ended /\ P(k).cut = conn[k].cut
  <2>1. IsConn(conn[k])
    BY DEF DeliveryInv, SlotsInv, ConnShape
  <2>2. QED
    BY <2>1 DEF IsConn, Fields
<1>8. \A k \in Slots : ConnShape(conn[k]) /\ conn[k].hub \in Hubs /\ conn[k].queue \in Seq(Item)
  BY DEF DeliveryInv, SlotsInv, ConnShape
<1> HIDE DEF P, q
<1>9. ASSUME NEW k \in Slots
      PROVE  ConnShape(conn'[k]) /\ conn'[k].hub = conn[k].hub /\ (Over(conn[k]) => Over(conn'[k])) /\ (conn[k] = noConn => conn'[k] = noConn)
  <2>1. CASE conn'[k] = conn[k]
    BY <1>8, <2>1
  <2>2. CASE conn[k].hub = h /\ t \in conn[k].topics /\ ~ conn[k].ended /\ conn'[k] = dropLocked(conn[k])
    <3>1. conn[k] # noConn
      BY <2>2, NoConnOK DEF ConnOK, noConn
    <3>2. QED
      BY <1>8, <2>2, <3>1, EndShape
  <2>3. CASE conn[k].hub = h /\ t \in conn[k].topics /\ ~ conn[k].ended /\ conn'[k] = P(k)
    <3>1. conn[k] # noConn
      BY <2>3, NoConnOK DEF ConnOK, noConn
    <3>2. conn[k].phase \notin {"none", "gone"}
      BY <1>8, <2>3 DEF ConnShape
    <3>3. Append(conn[k].queue, q) \in Seq(Item)
      BY <1>2, <1>8
    <3>4. ConnShape(P(k)) /\ (Over(conn[k]) => Over(P(k)))
      BY <1>7, <1>8, <2>3, <3>2, <3>3 DEF ConnShape, Over
    <3>5. QED
      BY <1>7, <2>3, <3>1, <3>4
  <2>4. QED
    BY <1>1, <2>1, <2>2, <2>3
<1>10. SlotsInv'
  BY <1>9 DEF DeliveryInv, SlotsInv
<1>11. ASSUME NEW u \in Clients, NEW g \in Hubs, NEW l, NEW S, Knows(replay[g], Arrived(g), l, S, owed[u])
       PROVE  Knows(replay'[g], Arrived(g)', l, S, owed'[u])
  <2>1. CASE g = h
    <3>1. PICK r, A, o, p : r = replay[h] /\ A = Arrived(h) /\ o = owed[u] /\ p = owed'[u]
      OBVIOUS
    <3>2. RingOK(r) /\ ~ kept(r, e) /\ A \in SUBSET Events /\ e \notin A /\ Knows(r, A, l, S, o) /\ p \subseteq o \cup {e}
      BY <1>5, <1>11, <2>1, <3>1
    <3>3. Knows(add(r, e), A \cup {e}, l, S, p)
      BY <3>2, KnowsAdd
    <3>4. QED
      BY <1>3, <2>1, <3>1, <3>3
  <2>2. CASE g # h
    <3>1. replay'[g] = replay[g] /\ Arrived(g)' = Arrived(g) /\ Arrived(g) \subseteq DOMAIN log
      BY <1>3, <1>5, <2>2
    <3>2. PICK r, A, o, p : r = replay[g] /\ A = Arrived(g) /\ o = owed[u] /\ p = owed'[u]
      OBVIOUS
    <3>3. Knows(r, A, l, S, o) /\ p \cap A \subseteq o
      BY <1>11, <3>1, <3>2
    <3>4. Knows(r, A, l, S, p)
      BY <3>3 DEF Knows
    <3>5. QED
      BY <3>1, <3>2, <3>4
  <2>3. QED
    BY <2>1, <2>2
<1>12. ClientsInv'
  <2>1. ASSUME NEW u \in Clients
        PROVE  /\ owed'[u] \subseteq EventsOf(wants[u])'
               /\ cur[u] = 0 => last[u] = 0 /\ seen[u] = {} /\ wants[u] = {}
               /\ cur[u] # 0 => \A g \in Hubs : g = conn'[<<u, cur[u]>>].hub => Knows(replay'[g], Arrived(g)', last[u], seen[u], owed'[u])
               /\ cur[u] # 0 => conn'[<<u, cur[u]>>].hub \in Hubs
    <3>1. owed'[u] \subseteq EventsOf(wants[u])'
      <4>1. owed[u] \subseteq EventsOf(wants[u])
        BY DEF DeliveryInv, ClientsInv
      <4>2. ASSUME NEW f \in owed'[u] PROVE f \in DOMAIN log' /\ log'[f].topic \in wants[u]
        <5>1. CASE f = e
          BY <4>2, <5>1
        <5>2. CASE f # e
          BY <4>1, <4>2, <5>2 DEF EventsOf
        <5>3. QED
          BY <5>1, <5>2
      <4>3. QED
        BY <4>2 DEF EventsOf
    <3>2. ASSUME cur[u] # 0, NEW g \in Hubs, g = conn'[<<u, cur[u]>>].hub
          PROVE  Knows(replay'[g], Arrived(g)', last[u], seen[u], owed'[u])
      <4>1. g = conn[<<u, cur[u]>>].hub
        BY <1>9, <3>2, Latest
      <4>3. Knows(replay[g], Arrived(g), last[u], seen[u], owed[u])
        BY <3>2, <4>1 DEF DeliveryInv, ClientsInv
      <4>4. Knows(replay'[g], Arrived(g)', last[u], seen[u], owed'[u])
        BY <1>11, <4>3
      <4>5. QED
        BY <4>4
    <3>3. cur[u] # 0 => conn'[<<u, cur[u]>>].hub \in Hubs
      BY <1>9, Latest
    <3>4. QED
      BY <3>1, <3>2, <3>3 DEF DeliveryInv, ClientsInv
  <2>2. QED
    BY <2>1 DEF ClientsInv
<1>13. UpInv'
  <2>1. ASSUME NEW k \in Slots, k[2] = cur[k[1]], ~ Over(conn'[k]), NEW g, g = conn[k].hub, NEW u, u = k[1]
        PROVE  Serves(conn'[k], replay'[g], Arrived(g)', log', last[u], seen[u], wants[u], owed'[u])
    <3>1. u \in Clients /\ g \in Hubs /\ ~ Over(conn[k]) /\ ~ conn[k].ended
      BY <1>8, <1>9, <2>1, SlotParts DEF Over
    <3>2. Serves(conn[k], replay[g], Arrived(g), log, last[u], seen[u], wants[u], owed[u])
      BY <2>1, <3>1, Served
    <3>3. Knows(replay[g], Arrived(g), last[u], seen[u], owed[u])
      <4>1. cur[u] # 0 /\ <<u, cur[u]>> = k
        BY <2>1, SlotParts
      <4>2. QED
        BY <2>1, <3>1, <4>1 DEF DeliveryInv, ClientsInv
    <3>4. PICK c, r, A, l, S, w, o, p : /\ c = conn[k] /\ r = replay[g] /\ A = Arrived(g) /\ l = last[u] /\ S = seen[u]
                                        /\ w = wants[u] /\ o = owed[u] /\ p = owed'[u]
      OBVIOUS
    <3>5. /\ Serves(c, r, A, log, l, S, w, o) /\ Knows(r, A, l, S, o) /\ p \subseteq o \cup {e} /\ p \cap DOMAIN log \subseteq o
          /\ (e \in p => t \in w) /\ A \in SUBSET Events /\ A \in SUBSET DOMAIN log /\ c.queue \in Seq(Item)
      BY <1>5, <1>8, <3>1, <3>2, <3>3, <3>4
    <3>6. QueueOK(r, c.queue, l, S, A) /\ (l # 0 => l \in A) /\ S \subseteq A
      BY <3>5 DEF Serves, Knows
    <3>7. ASSUME NEW f \in A, NEW Q, Covers(Q, log, f) PROVE Covers(Q, log', f)
      <4>1. log'[f] = log[f]
        BY <3>5
      <4>2. QED
        BY <3>7, <4>1 DEF Covers
    <3>8. CASE g # h
      <4>1. conn'[k] = c /\ replay'[g] = r /\ Arrived(g)' = A
        BY <1>1, <1>3, <2>1, <3>1, <3>4, <3>8
      <4>2. p \cap A \subseteq o \cap A
        BY <3>5
      <4>3. Following(c, w, o, A, log) => Following(c, w, p, A, log')
        BY <3>7, <4>2 DEF Following
      <4>4. Serves(c, r, A, log', l, S, w, p)
        BY <3>5, <4>3 DEF Serves
      <4>5. QED
        BY <3>4, <4>1, <4>4
    <3>9. CASE g = h
      <4>1. r = replay[h] /\ A = Arrived(h) /\ RingOK(r) /\ ~ kept(r, e) /\ e \notin A
        BY <1>5, <3>4, <3>9
      <4>2. replay'[g] = add(r, e) /\ Arrived(g)' = A \cup {e}
        BY <1>3, <3>9, <4>1
      <4>3. CASE t \notin c.topics
        <5>1. conn'[k] = c
          BY <1>1, <3>4, <4>3
        <5>2. QueueOK(add(r, e), c.queue, l, S, A \cup {e})
          BY <3>5, <3>6, <4>1, QueueAdd
        <5>3. ASSUME Following(c, w, o, A, log) PROVE Following(c, w, p, A \cup {e}, log')
          <6>1. e \notin p
            BY <3>5, <4>3, <5>3 DEF Following
          <6>2. p \cap (A \cup {e}) \subseteq o \cap A
            BY <3>5, <6>1
          <6>3. QED
            BY <3>7, <5>3, <6>2 DEF Following
        <5>4. Serves(c, add(r, e), A \cup {e}, log', l, S, w, p)
          BY <3>5, <5>2, <5>3 DEF Serves
        <5>5. QED
          BY <3>4, <4>2, <5>1, <5>4
      <4>4. CASE t \in c.topics
        <5>1. conn'[k] = P(k)
          <6>1. conn'[k] # dropLocked(conn[k])
            BY <1>8, <2>1, EndShape
          <6>2. QED
            BY <1>1, <2>1, <3>1, <3>4, <3>9, <4>4, <6>1
        <5>2. PICK b, Q : b = P(k) /\ Q = Append(c.queue, q)
          OBVIOUS
        <5>3. /\ b.queue = Q /\ b.topics = c.topics /\ b.asked = c.asked /\ b.refused = c.refused /\ b.after = c.after
              /\ b.fresh = c.fresh /\ b.phase = c.phase
          BY <1>7, <2>1, <3>4, <3>9, <5>1, <5>2
        <5>4. QueueOK(add(r, e), Q, l, S, A \cup {e})
          BY <1>2, <3>5, <3>6, <4>1, <5>2, QueuePush
        <5>5. Following(c, w, o, A, log)
          BY <3>5, <4>4 DEF Serves, Resuming
        <5>6. ASSUME NEW f \in p \cap (A \cup {e}) PROVE Covers(Q, log', f)
          <6>1. PICK s, n : s = c.queue /\ n = Len(c.queue)
            OBVIOUS
          <6>2. s \in Seq(Item) /\ Q = Append(s, q) /\ n = Len(s)
            BY <3>5, <5>2, <6>1
          <6>3. n + 1 \in DOMAIN Q /\ Q[n + 1] = q /\ \A i \in DOMAIN s : i \in DOMAIN Q /\ Q[i] = s[i]
            BY <1>2, <6>2
          <6>4. CASE f = e
            BY <1>2, <6>3, <6>4 DEF Covers
          <6>5. CASE f # e
            <7>1. f \in o \cap A
              BY <3>5, <5>6, <6>5
            <7>2. Covers(s, log', f)
              BY <3>7, <5>5, <6>1, <7>1 DEF Following
            <7>3. QED
              BY <6>3, <7>2 DEF Covers
          <6>6. QED
            BY <6>4, <6>5
        <5>7. Following(b, w, p, A \cup {e}, log')
          BY <5>3, <5>5, <5>6 DEF Following
        <5>8. Serves(b, add(r, e), A \cup {e}, log', l, S, w, p)
          BY <5>3, <5>4, <5>7 DEF Serves
        <5>9. QED
          BY <3>4, <4>2, <5>1, <5>2, <5>8
      <4>5. QED
        BY <4>3, <4>4
    <3>10. QED
      BY <3>8, <3>9
  <2>2. \A k \in Slots : conn'[k].hub = conn[k].hub
    BY <1>9
  <2>3. QED
    BY <2>1, <2>2 DEF UpInv
<1>14. QED
  BY <1>4, <1>6, <1>10, <1>12, <1>13 DEF DeliveryInv

\* Publish: the event comes to its hub, and with Redis is on its way to the others.
LEMMA PublishPlane ==
  ASSUME StateOK, PlaneInv, NEW h \in Hubs, NEW t \in HubTopics, Publish(h, t), NEW e, e = Len(log) + 1
  PROVE  /\ LogOK' /\ PlaneInv' /\ inbox' = [g \in Hubs |-> inbox'[g]] /\ lost' = [g \in Hubs |-> lost'[g]]
         /\ e \notin DOMAIN log /\ DOMAIN log' = DOMAIN log \cup {e} /\ log'[e].topic = t /\ \A f \in DOMAIN log : log'[f] = log[f]
         /\ Arrived(h)' = Arrived(h) \cup {e} /\ e \notin Arrived(h)
         /\ \A g \in Hubs : Arrived(g) \subseteq Arrived(g)' /\ (Redis /\ g # h => Arrived(g)' = Arrived(g))
<1>1. PICK n : n = Len(log)
  OBVIOUS
<1>2. /\ e \in Events /\ log' = Append(log, [topic |-> t, hub |-> h])
      /\ replay' = [replay EXCEPT ![h] = add(@, e)] /\ conn' = deliverLocked(h, e, t)
      /\ unsent' = (IF Redis THEN unsent \cup {e} ELSE unsent)
      /\ UNCHANGED <<inbox, lost>>
  BY <1>1 DEF Publish
<1>3. LogOK /\ n \in Nat /\ DOMAIN log = 1 .. n /\ e = n + 1
  BY <1>1, LogEvents DEF StateOK
<1>4. /\ LogOK' /\ DOMAIN log' = 1 .. (n + 1) /\ log'[e] = [topic |-> t, hub |-> h] /\ \A f \in DOMAIN log : log'[f] = log[f]
  BY <1>1, <1>2, <1>3, RingAssumption DEF LogOK, Events
<1>5. /\ e \notin DOMAIN log /\ DOMAIN log' = DOMAIN log \cup {e} /\ log'[e].topic = t /\ log'[e].hub = h
  BY <1>3, <1>4
<1>6. /\ unsent \subseteq DOMAIN log
      /\ \A g \in Hubs :
           /\ inbox[g] \in Seq(DOMAIN log) /\ lost[g] \subseteq DOMAIN log
           /\ \A i, j \in DOMAIN inbox[g] : inbox[g][i] = inbox[g][j] => i = j
           /\ \A i \in DOMAIN inbox[g] : inbox[g][i] \notin unsent \cup lost[g]
           /\ unsent \cap lost[g] = {}
  BY DEF PlaneInv
<1>7. ASSUME NEW g \in Hubs PROVE inbox[g] \in Seq(DOMAIN log') /\ \A i \in DOMAIN inbox[g] : inbox[g][i] \in DOMAIN log
  <2>1. PICK D, E, s : D = DOMAIN log /\ E = DOMAIN log' /\ s = inbox[g]
    OBVIOUS
  <2>2. D \subseteq E /\ s \in Seq(D)
    BY <1>5, <1>6, <2>1
  <2>3. \A i \in DOMAIN s : s[i] \in D
    BY <2>2, SeqElement
  <2>4. s \in Seq(E)
    BY <2>2
  <2>5. QED
    BY <2>1, <2>3, <2>4
<1>8. PlaneInv'
  <2>1. unsent' \subseteq DOMAIN log' /\ unsent' \subseteq unsent \cup {e}
    BY <1>2, <1>5, <1>6
  <2>2. ASSUME NEW g \in Hubs
        PROVE  /\ inbox'[g] \in Seq(DOMAIN log') /\ lost'[g] \subseteq DOMAIN log'
               /\ \A i, j \in DOMAIN inbox'[g] : inbox'[g][i] = inbox'[g][j] => i = j
               /\ \A i \in DOMAIN inbox'[g] : inbox'[g][i] \notin unsent' \cup lost'[g]
               /\ unsent' \cap lost'[g] = {}
    <3>1. inbox'[g] = inbox[g] /\ lost'[g] = lost[g]
      BY <1>2
    <3>2. \A i \in DOMAIN inbox[g] : inbox[g][i] # e
      BY <1>5, <1>7
    <3>3. e \notin lost[g]
      BY <1>5, <1>6
    <3>4. QED
      BY <1>5, <1>6, <1>7, <2>1, <3>1, <3>2, <3>3
  <2>3. QED
    BY <2>1, <2>2 DEF PlaneInv
<1>9. ASSUME NEW g \in Hubs, NEW f \in DOMAIN log PROVE f \in OnTheWay(g)' <=> f \in OnTheWay(g)
  <2>1. f # e
    BY <1>5
  <2>2. QED
    BY <1>2, <2>1 DEF OnTheWay
<1>10. Arrived(h)' = Arrived(h) \cup {e} /\ e \notin Arrived(h)
  BY <1>4, <1>5, <1>9 DEF Arrived
<1>11. ASSUME NEW g \in Hubs PROVE Arrived(g) \subseteq Arrived(g)' /\ (Redis /\ g # h => Arrived(g)' = Arrived(g))
  <2>1. Arrived(g) \subseteq Arrived(g)'
    BY <1>4, <1>5, <1>9 DEF Arrived
  <2>2. ASSUME Redis, g # h PROVE Arrived(g)' = Arrived(g)
    <3>1. e \in OnTheWay(g)'
      BY <1>2, <2>2 DEF OnTheWay
    <3>2. QED
      BY <1>4, <1>5, <1>9, <2>2, <3>1 DEF Arrived
  <2>3. QED
    BY <2>1, <2>2
<1>12. inbox' = [g \in Hubs |-> inbox'[g]] /\ lost' = [g \in Hubs |-> lost'[g]]
  BY <1>2 DEF StateOK
<1>13. QED
  BY <1>4, <1>5, <1>8, <1>10, <1>11, <1>12

LEMMA PublishMoves ==
  ASSUME StaysWhereHeard, DeliveryInv, NEW h \in Hubs, NEW t \in HubTopics, Publish(h, t)
  PROVE  DeliveryInv'
<1>1. PICK e : e = Len(log) + 1
  OBVIOUS
<1>2. /\ e \in Events /\ replay' = [replay EXCEPT ![h] = add(@, e)] /\ conn' = deliverLocked(h, e, t)
      /\ owed' = [u \in Clients |-> owed[u] \cup (IF t \in wants[u] THEN {e} ELSE {})]
      /\ UNCHANGED <<cur, last, seen, wants>>
  BY <1>1 DEF Publish
<1>3. StateOK /\ PlaneInv
  BY DEF DeliveryInv
<1>4. /\ LogOK' /\ PlaneInv' /\ inbox' = [g \in Hubs |-> inbox'[g]] /\ lost' = [g \in Hubs |-> lost'[g]]
      /\ e \notin DOMAIN log /\ DOMAIN log' = DOMAIN log \cup {e} /\ log'[e].topic = t /\ \A f \in DOMAIN log : log'[f] = log[f]
      /\ Arrived(h)' = Arrived(h) \cup {e} /\ e \notin Arrived(h)
      /\ \A g \in Hubs : Arrived(g) \subseteq Arrived(g)' /\ (Redis /\ g # h => Arrived(g)' = Arrived(g))
  BY <1>1, <1>3, PublishPlane
<1>5. ASSUME NEW g \in Hubs, g # h PROVE Arrived(g)' = Arrived(g)
  BY <1>4, <1>5 DEF StaysWhereHeard, OneReplica
<1>6. ASSUME NEW u \in Clients
      PROVE  /\ owed'[u] \subseteq owed[u] \cup {e} /\ owed'[u] \cap DOMAIN log \subseteq owed[u]
             /\ e \in owed'[u] => t \in wants[u]
  <2>1. e \notin owed[u]
    <3>1. owed[u] \subseteq EventsOf(wants[u])
      BY DEF DeliveryInv, ClientsInv
    <3>2. QED
      BY <1>4, <3>1 DEF EventsOf
  <2>2. owed'[u] = owed[u] \cup (IF t \in wants[u] THEN {e} ELSE {})
    BY <1>2
  <2>3. QED
    BY <1>4, <2>1, <2>2
<1>7. owed' = [u \in Clients |-> owed'[u]] /\ e \in DOMAIN log' /\ \A f \in DOMAIN log : f \in DOMAIN log' /\ log'[f] = log[f]
  BY <1>2, <1>4
<1>8. QED
  BY <1>2, <1>4, <1>5, <1>6, <1>7, ArrivalMoves

\* A hub takes a message: its own echo, or an event of another replica.
LEMMA ReceivePlane ==
  ASSUME StateOK, PlaneInv, NEW h \in Hubs, receive(h), NEW e, e = Head(inbox[h])
  PROVE  /\ PlaneInv' /\ inbox' = [g \in Hubs |-> inbox'[g]] /\ lost' = [g \in Hubs |-> lost'[g]] /\ e \in DOMAIN log
         /\ \A g \in Hubs : g # h => Arrived(g)' = Arrived(g)
         /\ log[e].hub = h => Arrived(h)' = Arrived(h)
         /\ log[e].hub # h => Arrived(h)' = Arrived(h) \cup {e} /\ e \notin Arrived(h)
<1>1. PICK s, D : s = inbox[h] /\ D = DOMAIN log
  OBVIOUS
<1>2. s # <<>> /\ inbox' = [inbox EXCEPT ![h] = Tail(s)] /\ UNCHANGED <<log, unsent, lost>>
  BY <1>1 DEF receive
<1>3. s \in Seq(D)
  BY <1>1 DEF PlaneInv
<1>4. /\ Tail(s) \in Seq(D) /\ e \in D /\ Range(s) = {e} \cup Range(Tail(s))
      /\ \A i \in DOMAIN Tail(s) : i + 1 \in DOMAIN s /\ Tail(s)[i] = s[i + 1] /\ i \in Nat /\ i > 0
      /\ 1 \in DOMAIN s /\ e = s[1]
  BY <1>1, <1>2, <1>3, InboxTail
<1>5. /\ \A i, j \in DOMAIN s : s[i] = s[j] => i = j
      /\ \A i \in DOMAIN s : s[i] \notin unsent \cup lost[h]
      /\ unsent \cap lost[h] = {}
  BY <1>1 DEF PlaneInv
<1>6. e \notin Range(Tail(s)) /\ e \notin unsent /\ e \notin lost[h]
  <2>1. ASSUME NEW i \in DOMAIN Tail(s) PROVE Tail(s)[i] # e
    <3>1. i + 1 \in DOMAIN s /\ Tail(s)[i] = s[i + 1] /\ i + 1 # 1
      BY <1>4
    <3>2. QED
      BY <1>4, <1>5, <3>1
  <2>2. QED
    BY <1>4, <1>5, <2>1 DEF Range
<1>7. inbox' = [g \in Hubs |-> inbox'[g]] /\ lost' = [g \in Hubs |-> lost'[g]] /\ inbox'[h] = Tail(s) /\ \A g \in Hubs : g # h => inbox'[g] = inbox[g]
  BY <1>2 DEF StateOK
<1>8. PlaneInv'
  <2>1. \A i, j \in DOMAIN Tail(s) : Tail(s)[i] = Tail(s)[j] => i = j
    <3>1. ASSUME NEW i \in DOMAIN Tail(s), NEW j \in DOMAIN Tail(s), Tail(s)[i] = Tail(s)[j] PROVE i = j
      <4>1. i + 1 = j + 1 /\ i \in Nat /\ j \in Nat
        BY <1>4, <1>5, <3>1
      <4>2. QED
        BY <4>1
    <3>2. QED
      BY <3>1
  <2>2. \A i \in DOMAIN Tail(s) : Tail(s)[i] \notin unsent \cup lost[h]
    BY <1>4, <1>5
  <2>3. QED
    BY <1>1, <1>2, <1>4, <1>7, <2>1, <2>2 DEF PlaneInv
<1>9. \A g \in Hubs : g # h => Arrived(g)' = Arrived(g)
  BY <1>2, <1>7 DEF Arrived, OnTheWay
<1>10. ASSUME NEW f \in DOMAIN log, f # e PROVE f \in OnTheWay(h)' <=> f \in OnTheWay(h)
  BY <1>1, <1>2, <1>4, <1>7, <1>10 DEF OnTheWay
<1>11. ASSUME log[e].hub = h PROVE Arrived(h)' = Arrived(h)
  BY <1>2, <1>10, <1>11 DEF Arrived
<1>12. ASSUME log[e].hub # h PROVE Arrived(h)' = Arrived(h) \cup {e} /\ e \notin Arrived(h)
  <2>1. e \in DOMAIN log /\ e \in OnTheWay(h)
    BY <1>1, <1>4 DEF OnTheWay
  <2>2. e \notin OnTheWay(h)'
    BY <1>2, <1>6, <1>7 DEF OnTheWay
  <2>3. QED
    BY <1>2, <1>10, <1>12, <2>1, <2>2 DEF Arrived
<1>13. QED
  BY <1>1, <1>4, <1>7, <1>8, <1>9, <1>11, <1>12

LEMMA ReceiveMoves == ASSUME DeliveryInv, NEW h \in Hubs, receive(h) PROVE DeliveryInv'
<1>1. PICK e : e = Head(inbox[h])
  OBVIOUS
<1>2. UNCHANGED <<log, unsent, lost, clientVars>>
  BY DEF receive
<1>3. StateOK /\ PlaneInv
  BY DEF DeliveryInv
<1>4. /\ PlaneInv' /\ inbox' = [g \in Hubs |-> inbox'[g]] /\ lost' = [g \in Hubs |-> lost'[g]] /\ e \in DOMAIN log
      /\ \A g \in Hubs : g # h => Arrived(g)' = Arrived(g)
      /\ log[e].hub = h => Arrived(h)' = Arrived(h)
      /\ log[e].hub # h => Arrived(h)' = Arrived(h) \cup {e} /\ e \notin Arrived(h)
  BY <1>1, <1>3, ReceivePlane
<1>5. CASE log[e].hub = h
  <2>1. UNCHANGED <<replay, conn>>
    BY <1>1, <1>5 DEF receive
  <2>2. QED
    BY <1>2, <1>4, <1>5, <2>1, PlaneMoves
<1>6. CASE log[e].hub # h
  <2>1. PICK t : t = log[e].topic
    OBVIOUS
  <2>2. replay' = [replay EXCEPT ![h] = add(@, e)] /\ conn' = deliverLocked(h, e, t)
    BY <1>1, <1>6, <2>1 DEF receive
  <2>3. LogOK /\ e \in Events /\ t \in HubTopics
    BY <1>4, <2>1, LogEvents DEF DeliveryInv, StateOK
  <2>4. UNCHANGED <<cur, last, seen, wants>> /\ owed' = owed /\ owed' = [u \in Clients |-> owed'[u]]
    BY <1>2 DEF clientVars, DeliveryInv, StateOK
  <2>5. LogOK' /\ e \in DOMAIN log' /\ log'[e].topic = t /\ \A f \in DOMAIN log : f \in DOMAIN log' /\ log'[f] = log[f]
    BY <1>2, <1>4, <2>1, <2>3 DEF LogOK
  <2>6. ASSUME NEW u \in Clients
        PROVE  /\ owed'[u] \subseteq owed[u] \cup {e} /\ owed'[u] \cap DOMAIN log \subseteq owed[u]
               /\ e \in owed'[u] => t \in wants[u]
    <3>1. owed[u] \subseteq EventsOf(wants[u])
      BY DEF DeliveryInv, ClientsInv
    <3>2. e \in owed[u] => t \in wants[u]
      BY <2>1, <3>1 DEF EventsOf
    <3>3. QED
      BY <2>4, <3>2
  <2>7. QED
    BY <1>4, <1>6, <2>2, <2>3, <2>4, <2>5, <2>6, ArrivalMoves
<1>7. QED
  BY <1>5, <1>6

-----------------------------------------------------------------------------
\* Every step keeps the invariant, where a client stays on its replica.
LEMMA DeliveryStepInv == ASSUME StaysWhereHeard, DeliveryInv, [HubNext]_hubVars PROVE DeliveryInv'
<1>1. CASE UNCHANGED hubVars
  BY <1>1, PlaneStays DEF hubVars, planeVars
<1>2. CASE \E h \in Hubs, t \in HubTopics : Publish(h, t)
  BY <1>2, PublishMoves
<1>3. CASE \E u \in Clients, h \in Hubs : OpenWS(u, h) \/ OpenSSE(u, h) \/ Disconnect(h, u)
  BY <1>3, OpenMoves, EndManyMoves
<1>4. CASE \E k \in Slots : wsSubscribe(k) \/ Unsubscribe(k) \/ Cut(k) \/ Ends(k) \/ Handler(k)
  BY <1>4, SubscribeMoves, UnsubscribeMoves, WriterMoves, EndsMoves, RegisterMoves, AttachMoves, PopMoves DEF Handler
<1>5. CASE \E h \in Hubs : endStreams(h) \/ Close(h)
  BY <1>5, EndManyMoves
<1>6. CASE \E h \in Hubs : CloseReturns(h) \/ CloseGivesUp(h) \/ Start(h) \/ Subscribed(h)
  <2>1. UNCHANGED <<log, replay, conn, clientVars, inbox, unsent, lost>>
    BY <1>6 DEF CloseReturns, CloseGivesUp, Start, Subscribed, planeVars
  <2>2. QED
    BY <2>1, PlaneStays
<1>7. CASE \E h \in Hubs : Disconnected(h) \/ BackplaneStops(h)
  <2>1. PICK h \in Hubs : Disconnected(h) \/ BackplaneStops(h)
    BY <1>7
  <2>2. /\ UNCHANGED <<log, replay, conn, clientVars, unsent>> /\ inbox' = [inbox EXCEPT ![h] = <<>>]
        /\ lost' = [lost EXCEPT ![h] = @ \cup {e \in Range(inbox[h]) : log[e].hub # h}]
    BY <2>1 DEF Disconnected, BackplaneStops
  <2>3. StateOK /\ PlaneInv
    BY DEF DeliveryInv
  <2>4. /\ PlaneInv' /\ inbox' = [g \in Hubs |-> inbox'[g]] /\ lost' = [g \in Hubs |-> lost'[g]]
        /\ \A g \in Hubs : Arrived(g)' = Arrived(g)
    BY <2>2, <2>3, InboxLost
  <2>5. QED
    BY <2>2, <2>4, PlaneMoves
<1>8. CASE \E h \in Hubs : receive(h)
  BY <1>8, ReceiveMoves
<1>9. CASE \E e \in unsent : broadcast(e)
  <2>1. PICK e \in unsent : broadcast(e)
    BY <1>9
  <2>2. UNCHANGED <<log, replay, conn, clientVars>> /\ StateOK /\ PlaneInv
    BY <2>1 DEF broadcast, DeliveryInv
  <2>3. /\ PlaneInv' /\ inbox' = [g \in Hubs |-> inbox'[g]] /\ lost' = [g \in Hubs |-> lost'[g]]
        /\ \A g \in Hubs : Arrived(g)' = Arrived(g)
    BY <2>1, <2>2, BroadcastMoves
  <2>4. QED
    BY <2>2, <2>3, PlaneMoves
<1>10. QED
  BY <1>1, <1>2, <1>3, <1>4, <1>5, <1>6, <1>7, <1>8, <1>9 DEF HubNext

\* A client that stays on its replica misses nothing and gets nothing twice,
\* however often it reconnects, whatever Publish, the backplane, Authorize, a
\* drop, a revocation or a shutdown does beside it (attach, deliverLocked, since,
\* receive): an event of a topic it follows has been seen, waits in its queue, is
\* covered by a reset that waits there, or has yet to reach the replica.
THEOREM RealtimeDelivers == ASSUME StaysWhereHeard PROVE HubSpec => []DeliveredWhole
<1>1. HubInit => DeliveryInv
  BY DeliveryInitInv
<1>2. DeliveryInv /\ [HubNext]_hubVars => DeliveryInv'
  BY DeliveryStepInv
<1>3. QED
  BY <1>1, <1>2, DeliveryInvWhole, PTL DEF HubSpec

-----------------------------------------------------------------------------
(* On one replica, in order.                                               *)

\* The ring holds the latest of the first n events.
RingLatest(r, n) ==
  /\ \A e \in Events : kept(r, e) => r.pos[e] = e - 1
  /\ ReplaySize > 0 => r.first + r.n = n /\ (r.n = ReplaySize \/ r.first = 0)

\* add moves first on only when the ring is full.
LEMMA AddCounts ==
  ASSUME NEW r, RingOK(r), NEW e \in Events, ReplaySize > 0, r.n = ReplaySize \/ r.first = 0
  PROVE  add(r, e).n = ReplaySize \/ add(r, e).first = 0
<1>1. PICK R : R = ReplaySize
  OBVIOUS
<1>2. R \in Nat /\ R > 0 /\ r.n \in 0 .. R /\ r.first \in Nat
  BY <1>1, RingAssumption DEF RingOK, IsRing
<1>3. IsRing(r) /\ IsRing(evict(r))
  BY EvictOK DEF RingOK
<1>4. evict(r).n = (IF r.n < R THEN r.n ELSE r.n - 1) /\ evict(r).first = (IF r.n < R THEN r.first ELSE r.first + 1)
  BY <1>1, <1>3 DEF evict, IsRing
<1>5. PICK q : q = evict(r)
  OBVIOUS
<1>6. add(r, e) = [q EXCEPT !.buf[(q.head + q.n) % ReplaySize] = e, !.pos[e] = q.first + q.n, !.n = @ + 1]
  BY <1>5, RingAssumption DEF add
<1>7. add(r, e).n = q.n + 1 /\ add(r, e).first = q.first
  BY <1>3, <1>5, <1>6 DEF IsRing
<1>8. QED
  BY <1>1, <1>2, <1>4, <1>5, <1>7

\* The next event comes.
LEMMA RingLatestAdd ==
  ASSUME NEW r, RingOK(r), NEW n \in Nat, RingLatest(r, n), n + 1 \in Events, ~ kept(r, n + 1)
  PROVE  RingLatest(add(r, n + 1), n + 1)
<1>1. PICK e : e = n + 1
  OBVIOUS
<1>2. e \in Events /\ ~ kept(r, e) /\ e - 1 = n
  BY <1>1
<1>3. /\ \A f \in Events : kept(add(r, e), f) => f = e \/ (kept(r, f) /\ add(r, e).pos[f] = r.pos[f])
      /\ ReplaySize > 0 => kept(add(r, e), e) /\ add(r, e).pos[e] = r.first + r.n
      /\ ReplaySize > 0 => add(r, e).first + add(r, e).n = r.first + r.n + 1
  BY <1>2, AddOK
<1>4. ReplaySize = 0 => \A f \in Events : ~ kept(add(r, e), f)
  <2>1. SUFFICES ASSUME ReplaySize = 0, NEW f \in Events, kept(add(r, e), f) PROVE FALSE
    OBVIOUS
  <2>2. PICK a : a = add(r, e)
    OBVIOUS
  <2>3. RingOK(a) /\ kept(a, f)
    BY <1>2, <2>1, <2>2, AddOK
  <2>4. a.n \in 0 .. 0 /\ a.pos[f] - a.first \in 0 .. a.n - 1
    BY <2>1, <2>3 DEF RingOK, IsRing
  <2>5. QED
    BY <2>4
<1>5. ReplaySize > 0 => r.first + r.n = n /\ (add(r, e).n = ReplaySize \/ add(r, e).first = 0)
  BY <1>2, AddCounts DEF RingLatest
<1>6. ReplaySize = 0 \/ ReplaySize > 0
  BY RingAssumption
<1>7. \A f \in Events : kept(add(r, e), f) => add(r, e).pos[f] = f - 1
  BY <1>2, <1>3, <1>4, <1>5, <1>6 DEF RingLatest
<1>8. ReplaySize > 0 => add(r, e).first + add(r, e).n = n + 1
  BY <1>3, <1>5
<1>9. QED
  BY <1>1, <1>5, <1>7, <1>8 DEF RingLatest

\* Which events a ring that holds the latest keeps, and what follows one of them.
LEMMA RingLatestKeeps ==
  ASSUME NEW r, RingOK(r), NEW n \in Nat, n <= MaxEvents, RingLatest(r, n), NEW e \in 1 .. n
  PROVE  /\ kept(r, e) <=> e > n - ReplaySize
         /\ kept(r, e) => follow(r, e) = [i \in 1 .. n - e |-> e + i]
<1>1. PICK R, a, m : R = ReplaySize /\ a = r.first /\ m = r.n
  OBVIOUS
<1>2. R \in Nat /\ m \in 0 .. R /\ a \in Nat /\ e \in Events /\ MaxEvents \in Nat /\ r.pos[e] \in Int
  BY <1>1, RingAssumption DEF RingOK, IsRing, Events, NoPos
<1>3. kept(r, e) => r.pos[e] = e - 1 /\ r.pos[e] - a \in 0 .. m - 1
  BY <1>1, <1>2 DEF RingOK, RingLatest
<1>4. R > 0 => a + m = n /\ (m = R \/ a = 0)
  BY <1>1 DEF RingLatest
<1>5. ASSUME kept(r, e) PROVE e > n - R /\ R > 0
  BY <1>2, <1>3, <1>4, <1>5
<1>6. ASSUME e > n - R PROVE kept(r, e)
  <2>1. R > 0
    BY <1>2, <1>6
  <2>2. PICK i : i = e - 1 - a
    OBVIOUS
  <2>3. i \in 0 .. m - 1 /\ a + i = e - 1
    BY <1>2, <1>4, <1>6, <2>1, <2>2
  <2>4. PICK f : f = r.buf[(r.head + i) % ReplaySize]
    OBVIOUS
  <2>5. f \in Events /\ r.pos[f] = e - 1
    BY <1>1, <2>3, <2>4 DEF RingOK
  <2>6. kept(r, f)
    BY <1>2, <2>5 DEF kept, NoPos
  <2>7. f - 1 = e - 1 /\ f \in Nat
    BY <2>5, <2>6, RingAssumption DEF RingLatest, Events
  <2>8. f = e
    BY <2>7
  <2>9. QED
    BY <2>6, <2>8
<1>7. ASSUME kept(r, e) PROVE follow(r, e) = [i \in 1 .. n - e |-> e + i]
  <2>1. PICK s : s = follow(r, e)
    OBVIOUS
  <2>2. /\ s \in Seq(Events) /\ \A i \in DOMAIN s : kept(r, s[i]) /\ r.pos[s[i]] = r.pos[e] + i
        /\ Len(s) = r.first + r.n - 1 - r.pos[e]
    BY <1>2, <1>7, <2>1, FollowOK
  <2>3. Len(s) = n - e
    <3>1. Len(s) = a + m - 1 - (e - 1)
      BY <1>1, <1>3, <1>7, <2>2
    <3>2. a + m = n
      BY <1>4, <1>5, <1>7
    <3>3. QED
      BY <1>2, <3>1, <3>2
  <2>4. s = [i \in 1 .. n - e |-> s[i]]
    BY <2>2, <2>3
  <2>5. ASSUME NEW i \in 1 .. n - e PROVE s[i] = e + i
    <3>1. i \in DOMAIN s /\ i \in Int
      BY <2>2, <2>3
    <3>2. PICK f : f = s[i]
      OBVIOUS
    <3>3. f \in Events /\ kept(r, f) /\ r.pos[f] = r.pos[e] + i
      BY <2>2, <3>1, <3>2, SeqElement
    <3>4. f - 1 = e - 1 + i /\ f \in Nat
      BY <1>3, <1>7, <3>3, RingAssumption DEF RingLatest, Events
    <3>5. f = e + i
      BY <1>2, <3>1, <3>4
    <3>6. QED
      BY <3>2, <3>5
  <2>6. QED
    BY <2>1, <2>4, <2>5
<1>8. QED
  BY <1>1, <1>5, <1>6, <1>7

\* The events of a queue are in the order they were published, after event l.
OrderOK(Q, l) ==
  /\ \A i \in DOMAIN Q : IsEvent(Q[i]) => Q[i].id > l
  /\ \A i, j \in DOMAIN Q : i < j /\ IsEvent(Q[i]) /\ IsEvent(Q[j]) => Q[i].id < Q[j].id

OrderInv ==
  /\ \A h \in Hubs : RingLatest(replay[h], Len(log))
  /\ \A k \in Slots : k[2] = cur[k[1]] /\ ~ Over(conn[k]) => OrderOK(conn[k].queue, last[k[1]])

\* The invariant is what ResumedWhole says, and more.
LEMMA OrderInvWhole == ASSUME DeliveryInv, OrderInv PROVE ResumedWhole
<1>1. NothingMissed
  BY DeliveryInvWhole DEF DeliveredWhole
<1>2. ASSUME NEW k \in Slots, Attended(k), NEW i \in Waiting(k)
      PROVE  /\ conn[k].queue[i].id > last[k[1]]
             /\ \A j \in Waiting(k) : i < j => conn[k].queue[i].id < conn[k].queue[j].id
  <2>1. i \in DOMAIN conn[k].queue /\ IsEvent(conn[k].queue[i]) /\ \A j \in Waiting(k) : j \in DOMAIN conn[k].queue /\ IsEvent(conn[k].queue[j])
    BY DEF Waiting, IsEvent
  <2>2. conn[k].phase # "gone"
    <3>1. conn[k].phase = "gone" => conn[k].queue = <<>>
      BY DEF DeliveryInv, SlotsInv, ConnShape
    <3>2. QED
      BY <2>1, <3>1
  <2>3. OrderOK(conn[k].queue, last[k[1]])
    BY <1>2, <2>2 DEF OrderInv, Attended, Over
  <2>4. QED
    BY <2>1, <2>3 DEF OrderOK
<1>3. ASSUME NEW h \in Hubs, NEW e \in DOMAIN log
      PROVE  /\ kept(replay[h], e) <=> e > Len(log) - ReplaySize
             /\ kept(replay[h], e) => follow(replay[h], e) = [i \in 1 .. Len(log) - e |-> e + i]
  <2>1. PICK r, n : r = replay[h] /\ n = Len(log)
    OBVIOUS
  <2>2. n \in Nat /\ n <= MaxEvents /\ e \in 1 .. n /\ RingOK(r) /\ RingLatest(r, n)
    BY <2>1, LogEvents, RingAssumption DEF DeliveryInv, StateOK, RingsInv, OrderInv
  <2>3. /\ kept(r, e) <=> e > n - ReplaySize
        /\ kept(r, e) => follow(r, e) = [i \in 1 .. n - e |-> e + i]
    BY <2>2, RingLatestKeeps
  <2>4. QED
    BY <2>1, <2>3
<1>4. QED
  BY <1>1, <1>2, <1>3 DEF ResumedWhole, InOrder, RingIsLatest

\* No queue takes anything.
LEMMA OrderStays ==
  ASSUME OrderInv, UNCHANGED <<log, replay, last>>,
         \A k \in Slots : k[2] = cur'[k[1]] /\ ~ Over(conn'[k]) =>
           \/ conn'[k].queue = <<>>
           \/ k[2] = cur[k[1]] /\ ~ Over(conn[k]) /\ conn'[k].queue = conn[k].queue
  PROVE  OrderInv'
<1>1. \A l : OrderOK(<<>>, l)
  BY DEF OrderOK
<1>2. ASSUME NEW k \in Slots, k[2] = cur'[k[1]], ~ Over(conn'[k]) PROVE OrderOK(conn'[k].queue, last[k[1]])
  BY <1>1, <1>2 DEF OrderInv
<1>3. QED
  BY <1>2 DEF OrderInv

\* One connection changes, and its queue takes nothing.
LEMMA OrderOne ==
  ASSUME DeliveryInv, OrderInv, UNCHANGED <<log, replay, last, cur>>, NEW k \in Slots, NEW c, conn' = [conn EXCEPT ![k] = c],
         c.queue = <<>> \/ Over(c) \/ (c.queue = conn[k].queue /\ (Over(conn[k]) => Over(c)))
  PROVE  OrderInv'
<1>1. conn'[k] = c /\ \A j \in Slots : j # k => conn'[j] = conn[j]
  BY DEF DeliveryInv, StateOK
<1>2. ASSUME NEW j \in Slots, j[2] = cur'[j[1]], ~ Over(conn'[j])
      PROVE  conn'[j].queue = <<>> \/ (j[2] = cur[j[1]] /\ ~ Over(conn[j]) /\ conn'[j].queue = conn[j].queue)
  BY <1>1, <1>2
<1>3. QED
  BY <1>2, OrderStays

\* Frames, the writer's sleep, and the end of a connection.
LEMMA OrderConn ==
  ASSUME DeliveryInv, OrderInv, NEW k \in Slots,
         Wake(k) \/ Drained(k) \/ Cut(k) \/ Ends(k) \/ unregister(k) \/ register(k) \/ wsSubscribe(k) \/ Unsubscribe(k)
  PROVE  OrderInv'
<1>1. UNCHANGED <<log, replay, last, cur>>
  BY DEF Wake, Drained, Cut, Ends, unregister, register, wsSubscribe, Unsubscribe, clientVars
<1>2. ConnShape(conn[k]) /\ IsConn(conn[k]) /\ IsConn(noConn) /\ noConn.queue = <<>>
  BY NoConnOK DEF DeliveryInv, SlotsInv, ConnShape, ConnOK, noConn
<1>3. PICK c : conn' = [conn EXCEPT ![k] = c] /\ (c.queue = <<>> \/ (c.queue = conn[k].queue /\ (Over(conn[k]) => Over(c))))
  <2>1. CASE Wake(k) \/ Drained(k) \/ Cut(k)
    <3> DEFINE a == [conn[k] EXCEPT !.writer = "draining", !.wake = FALSE]
               b == [conn[k] EXCEPT !.writer = "waiting"]
               d == [conn[k] EXCEPT !.cut = TRUE]
               Like(x) == x.queue = conn[k].queue /\ x.ended = conn[k].ended /\ x.phase = conn[k].phase
    <3>1. Like(a) /\ Like(b) /\ Like(d) /\ a.cut = conn[k].cut /\ b.cut = conn[k].cut /\ d.cut = TRUE
      BY <1>2 DEF IsConn, Fields
    <3>2. conn' = [conn EXCEPT ![k] = a] \/ conn' = [conn EXCEPT ![k] = b] \/ conn' = [conn EXCEPT ![k] = d]
      BY <2>1 DEF Wake, Drained, Cut
    <3> HIDE DEF a, b, d
    <3>3. QED
      BY <3>1, <3>2 DEF Over
  <2>2. CASE Ends(k)
    <3>1. conn' = [conn EXCEPT ![k] = end(conn[k])] /\ end(conn[k]).queue = <<>>
      BY <1>2, <2>2 DEF Ends, end, IsConn, Fields
    <3>2. QED
      BY <3>1
  <2>3. CASE unregister(k)
    <3> DEFINE g == [noConn EXCEPT !.hub = conn[k].hub, !.kind = conn[k].kind, !.phase = "gone"]
    <3>1. conn' = [conn EXCEPT ![k] = g] /\ g.queue = noConn.queue
      BY <1>2, <2>3 DEF unregister, IsConn, Fields
    <3> HIDE DEF g
    <3>2. QED
      BY <1>2, <3>1
  <2>4. CASE register(k)
    <3>1. PICK ok \in SUBSET conn[k].asked : conn' = [conn EXCEPT ![k] =
                  IF ok = {} \/ closing[conn[k].hub] # "open"
                  THEN [noConn EXCEPT !.hub = conn[k].hub, !.kind = "sse", !.phase = "gone"]
                  ELSE [conn[k] EXCEPT !.phase = "ready", !.asked = ok, !.refused = conn[k].asked \ ok, !.registered = TRUE]]
      BY <2>4 DEF register
    <3> DEFINE g == [noConn EXCEPT !.hub = conn[k].hub, !.kind = "sse", !.phase = "gone"]
               c == [conn[k] EXCEPT !.phase = "ready", !.asked = ok, !.refused = conn[k].asked \ ok, !.registered = TRUE]
    <3>2. g.queue = noConn.queue /\ c.queue = conn[k].queue /\ c.cut = conn[k].cut /\ c.ended = conn[k].ended
      BY <1>2 DEF IsConn, Fields
    <3>3. conn' = [conn EXCEPT ![k] = g] \/ conn' = [conn EXCEPT ![k] = c]
      BY <3>1
    <3>4. conn[k].phase # "gone"
      BY <2>4 DEF register
    <3> HIDE DEF g, c
    <3>5. QED
      BY <1>2, <3>2, <3>3, <3>4 DEF Over
  <2>5. CASE wsSubscribe(k)
    <3>0. PICK a : a = IF conn[k].fresh THEN last[k[1]] ELSE 0
      OBVIOUS
    <3>1. PICK ts \in (IF conn[k].fresh THEN FirstTopics(k[1]) ELSE (SUBSET (HubTopics \ conn[k].topics)) \ {{}}) :
             conn' = [conn EXCEPT ![k] =
             IF Cardinality(ts) > MaxSubscriptions - Cardinality(conn[k].topics)
             THEN end(conn[k])
             ELSE [conn[k] EXCEPT !.phase = "asking", !.asked = ts, !.fresh = FALSE, !.after = a]]
      BY <2>5, <3>0 DEF wsSubscribe
    <3> DEFINE c == [conn[k] EXCEPT !.phase = "asking", !.asked = ts, !.fresh = FALSE, !.after = a]
    <3>2. end(conn[k]).queue = <<>> /\ c.queue = conn[k].queue /\ c.cut = conn[k].cut /\ c.ended = conn[k].ended
      BY <1>2 DEF end, IsConn, Fields
    <3>3. conn' = [conn EXCEPT ![k] = end(conn[k])] \/ conn' = [conn EXCEPT ![k] = c]
      BY <3>1
    <3>4. conn[k].phase # "gone"
      BY <2>5 DEF wsSubscribe
    <3> HIDE DEF c
    <3>5. QED
      BY <3>2, <3>3, <3>4 DEF Over
  <2>6. CASE Unsubscribe(k)
    <3>1. PICK ts : conn' = [conn EXCEPT ![k] = detachLocked(conn[k], ts)]
      BY <2>6 DEF Unsubscribe
    <3> DEFINE c == detachLocked(conn[k], ts)
    <3>2. c.queue = conn[k].queue /\ c.cut = conn[k].cut /\ c.ended = conn[k].ended /\ c.phase = conn[k].phase
      BY <1>2 DEF detachLocked, IsConn, Fields
    <3> HIDE DEF c
    <3>3. conn' = [conn EXCEPT ![k] = c]
      BY <3>1 DEF c
    <3>4. QED
      BY <3>2, <3>3 DEF Over
  <2>7. QED
    BY <2>1, <2>2, <2>3, <2>4, <2>5, <2>6
<1>4. QED
  BY <1>1, <1>3, OrderOne

\* Disconnect, endStreams and Close.
LEMMA OrderEndMany == ASSUME DeliveryInv, OrderInv, NEW h, (\E u : Disconnect(h, u)) \/ endStreams(h) \/ Close(h) PROVE OrderInv'
<1>1. UNCHANGED <<log, replay, last, cur>>
  BY DEF Disconnect, endStreams, Close, clientVars
<1>2. \A k \in Slots : conn'[k] = conn[k] \/ conn'[k] \in {end(conn[k]), dropLocked(conn[k])}
  BY DEF Disconnect, endStreams, Close, On
<1>3. \A k \in Slots : conn'[k] = conn[k] \/ Over(conn'[k])
  BY <1>2, EndShape DEF DeliveryInv, SlotsInv
<1>4. QED
  BY <1>1, <1>3, OrderStays

\* A client connects.
LEMMA OrderOpen ==
  ASSUME DeliveryInv, OrderInv, NEW u \in Clients, NEW h \in Hubs, OpenWS(u, h) \/ OpenSSE(u, h)
  PROVE  OrderInv'
<1>1. PICK n, k, m : n = cur[u] + 1 /\ k = <<u, n>> /\ m = cur[u]
  OBVIOUS
<1>2. m \in 0 .. MaxConns /\ MaxConns \in Nat /\ m < MaxConns
  BY <1>1, RealtimeAssumption DEF DeliveryInv, StateOK, OpenWS, OpenSSE
<1>3. n \in 1 .. MaxConns
  BY <1>1, <1>2
<1>4. k \in Slots /\ k[1] = u /\ k[2] = n
  BY <1>1, <1>3, SlotParts
<1>5. UNCHANGED <<log, replay, last>> /\ cur' = [cur EXCEPT ![u] = n]
  BY <1>1 DEF OpenWS, OpenSSE
<1>6. PICK c : conn' = [conn EXCEPT ![k] = c] /\ c.queue = <<>>
  <2>1. IsConn(noConn) /\ noConn.queue = <<>>
    BY NoConnOK DEF ConnOK, noConn
  <2>2. CASE OpenWS(u, h)
    <3> DEFINE d == [noConn EXCEPT !.hub = h, !.phase = "idle", !.registered = TRUE]
    <3>1. conn' = [conn EXCEPT ![k] = d] /\ d.queue = noConn.queue
      BY <1>1, <2>1, <2>2 DEF OpenWS, IsConn, Fields
    <3> HIDE DEF d
    <3>2. QED
      BY <2>1, <3>1
  <2>3. CASE OpenSSE(u, h)
    <3>1. PICK ts : conn' = [conn EXCEPT ![k] =
                     [noConn EXCEPT !.hub = h, !.kind = "sse", !.phase = "asking",
                                    !.asked = ts, !.after = last[u], !.fresh = FALSE]]
      BY <1>1, <2>3 DEF OpenSSE
    <3> DEFINE d == [noConn EXCEPT !.hub = h, !.kind = "sse", !.phase = "asking", !.asked = ts, !.after = last[u], !.fresh = FALSE]
    <3>2. conn' = [conn EXCEPT ![k] = d] /\ d.queue = noConn.queue
      BY <2>1, <3>1 DEF IsConn, Fields
    <3> HIDE DEF d
    <3>3. QED
      BY <2>1, <3>2
  <2>4. QED
    BY <2>2, <2>3
<1>7. conn'[k] = c /\ \A j \in Slots : j # k => conn'[j] = conn[j]
  BY <1>4, <1>6 DEF DeliveryInv, StateOK
<1>8. cur'[u] = n /\ \A v \in Clients : v # u => cur'[v] = cur[v]
  BY <1>3, <1>5 DEF DeliveryInv, StateOK
<1>9. ASSUME NEW j \in Slots, j[2] = cur'[j[1]], ~ Over(conn'[j])
      PROVE  conn'[j].queue = <<>> \/ (j[2] = cur[j[1]] /\ ~ Over(conn[j]) /\ conn'[j].queue = conn[j].queue)
  <2>1. j[1] \in Clients /\ j = <<j[1], j[2]>>
    BY SlotParts
  <2>2. CASE j = k
    BY <1>6, <1>7, <2>2
  <2>3. CASE j # k
    <3>1. j[1] # u
      BY <1>1, <1>8, <1>9, <2>1, <2>3
    <3>2. QED
      BY <1>7, <1>8, <1>9, <2>1, <2>3, <3>1
  <2>4. QED
    BY <2>2, <2>3
<1>10. QED
  BY <1>5, <1>9, OrderStays

\* attach: the events replayed are in order, and come after the last one seen.
LEMMA OrderAttach == ASSUME DeliveryInv, OrderInv, NEW k \in Slots, Attach(k) PROVE OrderInv'
<1>1. PICK u, a : u = k[1] /\ a = conn[k]
  OBVIOUS
<1>2. a.phase = (IF a.kind = "sse" THEN "ready" ELSE "asking") /\ UNCHANGED <<log, replay, cur, last>>
  BY <1>1 DEF Attach
<1>3. a # noConn /\ a.phase \notin {"none", "gone"}
  BY <1>2, NoConnOK
<1>4. ConnShape(a) /\ a.hub \in Hubs /\ u \in Clients
  BY <1>1, <1>3, Opened
<1>5. PICK c \in Verdicts(a) : conn' = [conn EXCEPT ![k] = attachLocked(c)]
  BY <1>1 DEF Attach
<1>6. /\ ConnShape(c) /\ c.hub = a.hub /\ c.cut = a.cut /\ c.ended = a.ended /\ c.phase = a.phase /\ c.after = a.after
      /\ c.queue = a.queue
  BY <1>4, VerdictShape
<1>7. PICK b : b = attachLocked(c)
  OBVIOUS
<1>8. b.cut = a.cut /\ (a.ended => b.ended) /\ (~ b.ended => b.queue = c.queue \o frames(c))
  BY <1>3, <1>6, <1>7, AttachShape DEF DeliveryInv
<1>9. conn'[k] = b /\ \A j \in Slots : j # k => conn'[j] = conn[j]
  BY <1>5, <1>7 DEF DeliveryInv, StateOK
<1>10. ASSUME k[2] = cur[u], ~ Over(b) PROVE OrderOK(b.queue, last[u])
  <2>1. ~ Over(a) /\ ~ b.ended
    BY <1>3, <1>8, <1>10 DEF Over
  <2>2. PICK l, Q, fs, r, A, S : /\ l = last[u] /\ Q = c.queue /\ fs = frames(c) /\ r = replay[c.hub] /\ A = Arrived(c.hub)
                                 /\ S = seen[u]
    OBVIOUS
  <2>3. OrderOK(Q, l) /\ b.queue = Q \o fs
    BY <1>1, <1>6, <1>8, <1>10, <2>1, <2>2 DEF OrderInv
  <2>4. Serves(a, r, A, log, l, S, wants[u], owed[u])
    <3>1. Serves(conn[k], replay[conn[k].hub], Arrived(conn[k].hub), log, last[k[1]], seen[k[1]], wants[k[1]], owed[k[1]])
      BY <1>1, <1>10, <2>1, Served
    <3>2. QED
      BY <1>1, <1>6, <2>2, <3>1
  <2>5. Knows(r, A, l, S, owed[u])
    <3>1. cur[u] # 0 /\ <<u, cur[u]>> = k
      BY <1>1, <1>10, SlotParts
    <3>2. QED
      BY <1>1, <1>4, <1>6, <2>2, <3>1 DEF DeliveryInv, ClientsInv
  <2>6. /\ LogOK /\ c.hub \in Hubs /\ c.asked \subseteq HubTopics /\ c.refused \subseteq HubTopics /\ c.after \in 0 .. MaxEvents
        /\ Q \in Seq(Item)
    BY <1>6, <2>2 DEF ConnShape, DeliveryInv, StateOK
  <2>7. RingOK(r) /\ A \in SUBSET DOMAIN log /\ (\A f \in Events : kept(r, f) => f \in A) /\ RingLatest(r, Len(log))
    BY <2>2, <2>6, ArrivedLogged DEF DeliveryInv, RingsInv, OrderInv
  <2>8. /\ fs \in Seq(Item) /\ (c.after = 0 \/ ~ kept(r, c.after) => \A i \in DOMAIN fs : ~ IsEvent(fs[i]))
    <3>1. RingOK(replay[c.hub]) /\ \A f \in Events : kept(replay[c.hub], f) => f \in DOMAIN log
      BY <2>2, <2>7
    <3>2. /\ frames(c) \in Seq(Item)
          /\ c.after = 0 \/ ~ kept(replay[c.hub], c.after) => \A i \in DOMAIN frames(c) : ~ IsEvent(frames(c)[i])
      BY <2>6, <3>1, FramesType
    <3>3. QED
      BY <2>2, <3>2
  <2>9. /\ \A i \in DOMAIN (Q \o fs) :
              \/ i \in DOMAIN Q /\ (Q \o fs)[i] = Q[i]
              \/ i > Len(Q) /\ i - Len(Q) \in DOMAIN fs /\ (Q \o fs)[i] = fs[i - Len(Q)]
    BY <2>6, <2>8, ConcatItems
  <2>10. CASE \A i \in DOMAIN fs : ~ IsEvent(fs[i])
    <3>1. PICK P : P = Q \o fs
      OBVIOUS
    <3>2. \A i \in DOMAIN P : IsEvent(P[i]) => i \in DOMAIN Q /\ P[i] = Q[i]
      BY <2>9, <2>10, <3>1
    <3>3. OrderOK(P, l)
      BY <2>3, <3>2 DEF OrderOK
    <3>4. QED
      BY <2>2, <2>3, <3>1, <3>3
  <2>11. CASE c.after # 0 /\ kept(r, c.after)
    <3>1. Resuming(a, l, wants[u])
      BY <1>6, <2>4, <2>11 DEF Serves, Following
    <3>2. c.after = l /\ Q = <<>>
      BY <1>3, <1>6, <2>2, <1>2, <3>1 DEF Resuming
    <3>3. QueueOK(r, fs, l, S, A)
      <4>1. /\ RingOK(replay[c.hub]) /\ (\A f \in Events : kept(replay[c.hub], f) => f \in A)
            /\ Knows(replay[c.hub], A, c.after, S, owed[u])
        BY <2>2, <2>5, <2>7, <3>2
      <4>2. QueueOK(replay[c.hub], frames(c), c.after, S, A)
        BY <2>6, <2>7, <4>1, FramesOK
      <4>3. QED
        BY <2>2, <3>2, <4>2
    <3>4. l \in Events /\ l \in Nat /\ kept(r, l) /\ r.pos[l] = l - 1 /\ l # 0
      BY <2>6, <2>7, <2>11, <3>2, RingAssumption DEF Events, RingLatest
    <3>5. A \in SUBSET Events
      BY <2>6, <2>7, LogEvents
    <3>6. ASSUME NEW i \in DOMAIN fs, IsEvent(fs[i]) PROVE fs[i].id > l /\ kept(r, fs[i].id) /\ fs[i].id \in Events
      <4>1. PICK e : e = fs[i].id
        OBVIOUS
      <4>2. e \in Events /\ After(r, l, e)
        BY <3>3, <3>4, <3>5, <3>6, <4>1 DEF QueueOK
      <4>3. kept(r, e) /\ l - 1 < r.pos[e] /\ r.pos[e] = e - 1 /\ e \in Nat
        BY <2>7, <3>4, <4>2, RingAssumption DEF After, RingLatest, Events
      <4>4. e > l
        BY <3>4, <4>3
      <4>5. QED
        BY <4>1, <4>2, <4>3, <4>4
    <3>7. ASSUME NEW i \in DOMAIN fs, NEW j \in DOMAIN fs, i < j, IsEvent(fs[i]), IsEvent(fs[j]) PROVE fs[i].id < fs[j].id
      <4>1. PICK e, f : e = fs[i].id /\ f = fs[j].id
        OBVIOUS
      <4>2. e \in Events /\ f \in Events /\ kept(r, e) /\ kept(r, f)
        BY <3>6, <3>7, <4>1
      <4>3. After(r, e, f)
        BY <3>3, <3>7, <4>1 DEF QueueOK
      <4>4. r.pos[e] < r.pos[f] /\ r.pos[e] = e - 1 /\ r.pos[f] = f - 1 /\ e \in Nat /\ f \in Nat
        BY <2>7, <4>2, <4>3, RingAssumption DEF After, RingLatest, Events
      <4>5. e < f
        BY <4>4
      <4>6. QED
        BY <4>1, <4>5
    <3>8. Q \o fs = fs
      BY <2>8, <3>2
    <3>9. QED
      BY <2>2, <2>3, <3>6, <3>7, <3>8 DEF OrderOK
  <2>12. QED
    BY <2>8, <2>10, <2>11
<1>11. ASSUME NEW j \in Slots, j[2] = cur'[j[1]], ~ Over(conn'[j]) PROVE OrderOK(conn'[j].queue, last'[j[1]])
  BY <1>1, <1>2, <1>9, <1>10, <1>11 DEF OrderInv
<1>12. QED
  BY <1>2, <1>11 DEF OrderInv

\* pop: the event that leaves is the last one seen.
LEMMA OrderPop == ASSUME DeliveryInv, OrderInv, NEW k \in Slots, pop(k) PROVE OrderInv'
<1>1. PICK u, Q, c : u = k[1] /\ Q = conn[k].queue /\ c = [conn[k] EXCEPT !.queue = Tail(conn[k].queue)]
  OBVIOUS
<1>2. Q # <<>> /\ ~ conn[k].ended /\ UNCHANGED <<log, replay, cur>> /\ conn' = [conn EXCEPT ![k] = c]
  BY <1>1 DEF pop
<1>3. conn[k] # noConn
  BY <1>1, <1>2, NoConnOK
<1>4. ConnShape(conn[k]) /\ IsConn(conn[k]) /\ u \in Clients /\ Q \in Seq(Item)
  BY <1>1, <1>3, Opened DEF ConnShape
<1>5. c.queue = Tail(Q) /\ c.cut = conn[k].cut /\ c.ended = conn[k].ended /\ c.phase = conn[k].phase
  BY <1>1, <1>4 DEF IsConn, Fields
<1>6. conn'[k] = c /\ \A j \in Slots : j # k => conn'[j] = conn[j]
  BY <1>2 DEF DeliveryInv, StateOK
<1>7. CASE conn[k].cut
  <2>1. last' = last
    BY <1>7 DEF pop
  <2>2. Over(c)
    BY <1>5, <1>7 DEF Over
  <2>3. QED
    BY <1>2, <2>1, <2>2, OrderOne
<1>8. CASE ~ conn[k].cut
  <2>1. ~ Over(conn[k]) /\ k[2] = cur[u]
    BY <1>1, <1>2, <1>3, <1>8, PopServes
  <2>2. OrderOK(Q, last[u])
    BY <1>1, <2>1 DEF OrderInv
  <2>3. /\ Head(Q) = Q[1] /\ 1 \in DOMAIN Q /\ Q[1] \in Item
        /\ \A i \in DOMAIN Tail(Q) : i + 1 \in DOMAIN Q /\ Tail(Q)[i] = Q[i + 1] /\ i \in Nat /\ i > 0
    BY <1>2, <1>4, TailItems
  <2>4. PICK l : l = IF IsEvent(Q[1]) THEN Q[1].id ELSE last[u]
    OBVIOUS
  <2>5. last' = [last EXCEPT ![u] = l]
    <3>1. last = [last EXCEPT ![u] = last[u]]
      BY <1>4 DEF DeliveryInv, StateOK
    <3>2. last' = IF ~ IsEvent(Q[1]) THEN last ELSE [last EXCEPT ![u] = Q[1].id]
      BY <1>1, <1>8, <2>3 DEF pop, IsEvent
    <3>3. QED
      BY <2>4, <3>1, <3>2
  <2>6. last'[u] = l /\ \A v \in Clients : v # u => last'[v] = last[v]
    BY <1>4, <2>5 DEF DeliveryInv, StateOK
  <2>7. OrderOK(Tail(Q), l)
    <3>1. ASSUME NEW i \in DOMAIN Tail(Q), IsEvent(Tail(Q)[i]) PROVE Tail(Q)[i].id > l
      <4>1. i + 1 \in DOMAIN Q /\ Tail(Q)[i] = Q[i + 1] /\ 1 < i + 1
        BY <2>3
      <4>2. Q[1] \in Item /\ Q[i + 1] \in Item
        BY <1>4, <2>3, <4>1, SeqElement
      <4>3. Q[1].id \in Int /\ Q[i + 1].id \in Int
        BY <4>2, RingAssumption DEF Item
      <4>4. IsEvent(Q[i + 1])
        BY <3>1, <4>1
      <4>5. Q[i + 1].id > last[u] /\ (IsEvent(Q[1]) => Q[1].id < Q[i + 1].id)
        BY <2>2, <2>3, <4>1, <4>4 DEF OrderOK
      <4>6. QED
        BY <2>4, <4>1, <4>3, <4>5
    <3>2. ASSUME NEW i \in DOMAIN Tail(Q), NEW j \in DOMAIN Tail(Q), i < j, IsEvent(Tail(Q)[i]), IsEvent(Tail(Q)[j])
          PROVE  Tail(Q)[i].id < Tail(Q)[j].id
      <4>1. /\ i + 1 \in DOMAIN Q /\ Tail(Q)[i] = Q[i + 1] /\ j + 1 \in DOMAIN Q /\ Tail(Q)[j] = Q[j + 1] /\ i + 1 < j + 1
        BY <2>3, <3>2
      <4>2. QED
        BY <2>2, <3>2, <4>1 DEF OrderOK
    <3>3. QED
      BY <3>1, <3>2 DEF OrderOK
  <2>8. ASSUME NEW j \in Slots, j[2] = cur'[j[1]], ~ Over(conn'[j]) PROVE OrderOK(conn'[j].queue, last'[j[1]])
    <3>1. j[1] \in Clients /\ j = <<j[1], j[2]>> /\ k = <<k[1], k[2]>>
      BY SlotParts
    <3>2. CASE j = k
      BY <1>1, <1>5, <1>6, <2>6, <2>7, <3>2
    <3>3. CASE j # k
      <4>1. j[1] # u
        BY <1>1, <1>2, <2>1, <2>8, <3>1, <3>3
      <4>2. QED
        BY <1>2, <1>6, <2>6, <2>8, <3>1, <3>3, <4>1 DEF OrderInv
    <3>4. QED
      BY <3>2, <3>3
  <2>9. QED
    BY <1>2, <2>8 DEF OrderInv
<1>9. QED
  BY <1>7, <1>8

\* Publish on the only replica: the event is the latest of all.
LEMMA OrderPublish ==
  ASSUME OneReplica, DeliveryInv, OrderInv, NEW h \in Hubs, NEW t \in HubTopics, Publish(h, t)
  PROVE  OrderInv'
<1>1. PICK e, n : e = Len(log) + 1 /\ n = Len(log)
  OBVIOUS
<1>2. /\ e \in Events /\ log' = Append(log, [topic |-> t, hub |-> h])
      /\ replay' = [replay EXCEPT ![h] = add(@, e)] /\ conn' = deliverLocked(h, e, t) /\ UNCHANGED <<cur, last>>
  BY <1>1 DEF Publish
<1>3. LogOK /\ n \in Nat /\ DOMAIN log = 1 .. n /\ e = n + 1 /\ Len(log') = n + 1
  BY <1>1, <1>2, LogEvents DEF DeliveryInv, StateOK, LogOK
<1>4. ASSUME NEW g \in Hubs PROVE RingLatest(replay'[g], Len(log'))
  <2>1. g = h
    BY DEF OneReplica
  <2>2. PICK r : r = replay[h]
    OBVIOUS
  <2>3. RingOK(r) /\ RingLatest(r, n) /\ \A f \in Events : kept(r, f) => f \in DOMAIN log
    BY <1>1, <1>3, <2>2, ArrivedLogged DEF DeliveryInv, RingsInv, OrderInv
  <2>4. ~ kept(r, n + 1) /\ n + 1 \in Events
    BY <1>2, <1>3, <2>3
  <2>5. RingLatest(add(r, n + 1), n + 1)
    BY <1>3, <2>3, <2>4, RingLatestAdd
  <2>6. replay'[g] = add(r, n + 1)
    BY <1>2, <1>3, <2>1, <2>2 DEF DeliveryInv, StateOK
  <2>7. QED
    BY <1>3, <2>5, <2>6
<1>5. ASSUME NEW k \in Slots, k[2] = cur[k[1]], ~ Over(conn'[k]) PROVE OrderOK(conn'[k].queue, last[k[1]])
  <2> DEFINE q == [kind |-> "live", id |-> e, topic |-> t]
             P == [conn[k] EXCEPT !.queue = Append(@, q), !.wake = TRUE]
  <2>1. conn'[k] = conn[k] \/ conn'[k] = dropLocked(conn[k]) \/ conn'[k] = P
    BY <1>2 DEF deliverLocked, push
  <2>2. ConnShape(conn[k]) /\ IsConn(conn[k]) /\ conn[k].hub \in Hubs /\ k[1] \in Clients
    BY SlotParts DEF DeliveryInv, SlotsInv, ConnShape
  <2>3. P.queue = Append(conn[k].queue, q) /\ P.cut = conn[k].cut /\ P.ended = conn[k].ended /\ P.phase = conn[k].phase
    BY <2>2 DEF IsConn, Fields
  <2>4. conn'[k] # dropLocked(conn[k])
    BY <1>5, <2>2, EndShape
  <2>5. q.kind = "live" /\ q.id = e /\ IsEvent(q)
    BY DEF IsEvent
  <2> HIDE DEF P, q
  <2>6. ~ Over(conn[k])
    BY <1>5, <2>1, <2>3, <2>4 DEF Over
  <2>7. PICK Q, l : Q = conn[k].queue /\ l = last[k[1]]
    OBVIOUS
  <2>8. OrderOK(Q, l)
    BY <1>5, <2>6, <2>7 DEF OrderInv
  <2>9. CASE conn'[k] = P
    <3>1. Q \in Seq(Item) /\ conn'[k].queue = Append(Q, q)
      BY <2>2, <2>3, <2>7, <2>9 DEF ConnShape
    <3>2. PICK A : A = Arrived(conn[k].hub)
      OBVIOUS
    <3>3. QueueOK(replay[conn[k].hub], Q, l, seen[k[1]], A) /\ A \subseteq DOMAIN log
      BY <1>3, <1>5, <2>6, <2>7, <3>2, Served, ArrivedLogged DEF Serves
    <3>4. \A i \in DOMAIN Q : IsEvent(Q[i]) => Q[i].id \in 1 .. n
      BY <1>3, <3>3 DEF QueueOK
    <3>5. l \in 0 .. n
      <4>1. cur[k[1]] # 0 /\ <<k[1], cur[k[1]]>> = k
        BY <1>5, SlotParts
      <4>2. Knows(replay[conn[k].hub], A, l, seen[k[1]], owed[k[1]])
        BY <2>2, <2>7, <3>2, <4>1 DEF DeliveryInv, ClientsInv
      <4>3. l = 0 \/ l \in DOMAIN log
        BY <3>3, <4>2 DEF Knows
      <4>4. QED
        BY <1>3, <4>3
    <3>6. PICK m, R : m = Len(Q) /\ R = Append(Q, q)
      OBVIOUS
    <3>7. /\ m \in Nat /\ DOMAIN Q = 1 .. m /\ DOMAIN R = 1 .. m + 1 /\ R[m + 1] = q
          /\ \A i \in DOMAIN R : i # m + 1 => i \in DOMAIN Q /\ R[i] = Q[i]
      BY <3>1, <3>6
    <3>8. ASSUME NEW i \in DOMAIN R, IsEvent(R[i]) PROVE R[i].id > l
      BY <1>3, <2>5, <2>8, <3>5, <3>7, <3>8 DEF OrderOK
    <3>9. ASSUME NEW i \in DOMAIN R, NEW j \in DOMAIN R, i < j, IsEvent(R[i]), IsEvent(R[j]) PROVE R[i].id < R[j].id
      <4>1. i # m + 1
        BY <3>7, <3>9
      <4>2. i \in DOMAIN Q /\ R[i] = Q[i]
        BY <3>7, <4>1
      <4>3. CASE j = m + 1
        BY <1>3, <2>5, <3>4, <3>7, <3>9, <4>2, <4>3
      <4>4. CASE j # m + 1
        <5>1. j \in DOMAIN Q /\ R[j] = Q[j]
          BY <3>7, <4>4
        <5>2. QED
          BY <2>8, <3>9, <4>2, <5>1 DEF OrderOK
      <4>5. QED
        BY <4>3, <4>4
    <3>10. OrderOK(R, l)
      BY <3>8, <3>9 DEF OrderOK
    <3>11. QED
      BY <2>7, <3>1, <3>6, <3>10
  <2>10. QED
    BY <2>1, <2>4, <2>7, <2>8, <2>9
<1>6. QED
  BY <1>2, <1>4, <1>5 DEF OrderInv

\* The only replica hears nothing but its own echo.
LEMMA OrderReceive == ASSUME OneReplica, DeliveryInv, OrderInv, NEW h \in Hubs, receive(h) PROVE OrderInv'
<1>1. PICK e, s, D : e = Head(inbox[h]) /\ s = inbox[h] /\ D = DOMAIN log
  OBVIOUS
<1>2. s # <<>> /\ s \in Seq(D)
  BY <1>1 DEF receive, DeliveryInv, PlaneInv
<1>3. e \in D
  BY <1>1, <1>2, InboxTail
<1>4. log[e].hub \in Hubs
  BY <1>1, <1>3, LogEvents DEF DeliveryInv, StateOK
<1>5. log[e].hub = h
  BY <1>4 DEF OneReplica
<1>6. UNCHANGED <<log, replay, conn, cur, last>>
  BY <1>1, <1>5 DEF receive, clientVars
<1>7. QED
  BY <1>6 DEF OrderInv

-----------------------------------------------------------------------------
\* At the start.
LEMMA OrderInitInv == ASSUME HubInit PROVE OrderInv
<1>1. ASSUME NEW h \in Hubs PROVE RingLatest(replay[h], Len(log))
  <2>1. replay[h] = newReplay /\ Len(log) = 0
    BY DEF HubInit
  <2>2. newReplay.n = 0 /\ newReplay.first = 0
    BY DEF newReplay
  <2>3. RingLatest(newReplay, 0)
    BY <2>2, NewRingOK DEF RingLatest
  <2>4. QED
    BY <2>1, <2>3
<1>2. ASSUME NEW k \in Slots PROVE OrderOK(conn[k].queue, last[k[1]])
  <2>1. conn[k].queue = <<>>
    BY NoConnOK DEF HubInit
  <2>2. QED
    BY <2>1 DEF OrderOK
<1>3. QED
  BY <1>1, <1>2 DEF OrderInv

\* Every step keeps the order, on one replica.
LEMMA OrderStepInv == ASSUME OneReplica, DeliveryInv, OrderInv, [HubNext]_hubVars PROVE OrderInv'
<1>1. CASE UNCHANGED hubVars
  BY <1>1 DEF hubVars, clientVars, OrderInv
<1>2. CASE \E h \in Hubs, t \in HubTopics : Publish(h, t)
  BY <1>2, OrderPublish
<1>3. CASE \E u \in Clients, h \in Hubs : OpenWS(u, h) \/ OpenSSE(u, h) \/ Disconnect(h, u)
  BY <1>3, OrderOpen, OrderEndMany
<1>4. CASE \E k \in Slots : wsSubscribe(k) \/ Unsubscribe(k) \/ Cut(k) \/ Ends(k) \/ Handler(k)
  BY <1>4, OrderConn, OrderAttach, OrderPop DEF Handler
<1>5. CASE \E h \in Hubs : endStreams(h) \/ Close(h)
  BY <1>5, OrderEndMany
<1>6. CASE \/ \E h \in Hubs : CloseReturns(h) \/ CloseGivesUp(h) \/ Start(h) \/ Subscribed(h) \/ Disconnected(h) \/ BackplaneStops(h)
           \/ \E e \in unsent : broadcast(e)
  <2>1. UNCHANGED <<log, replay, conn, clientVars>>
    BY <1>6 DEF CloseReturns, CloseGivesUp, Start, Subscribed, Disconnected, BackplaneStops, broadcast
  <2>2. QED
    BY <2>1 DEF clientVars, OrderInv
<1>7. CASE \E h \in Hubs : receive(h)
  BY <1>7, OrderReceive
<1>8. QED
  BY <1>1, <1>2, <1>3, <1>4, <1>5, <1>6, <1>7 DEF HubNext

\* On one replica a client that resumes is sent all it missed, or a reset, in the
\* order it was published and after what it saw, and the ring knows exactly the
\* latest events (add, since, attach, deliverLocked): it never finds an event that
\* it has evicted, however often it wraps.
THEOREM RealtimeResumes == ASSUME OneReplica PROVE HubSpec => []ResumedWhole
<1>1. HubInit => DeliveryInv /\ OrderInv
  BY DeliveryInitInv, OrderInitInv
<1>2. (DeliveryInv /\ OrderInv) /\ [HubNext]_hubVars => (DeliveryInv /\ OrderInv)'
  <2>1. StaysWhereHeard
    BY DEF StaysWhereHeard
  <2>2. QED
    BY <2>1, DeliveryStepInv, OrderStepInv
<1>3. DeliveryInv /\ OrderInv => ResumedWhole
  BY OrderInvWhole
<1>4. QED
  BY <1>1, <1>2, <1>3, PTL DEF HubSpec

-----------------------------------------------------------------------------
(* A subscribe frame fits into the queue.                                  *)

\* Where live events wait in a queue.
Live(Q) == {i \in DOMAIN Q : Q[i].kind = "live"}

\* What waits, and what a frame asks for, is within the limits.
Within(Q, a, r) ==
  Cardinality(Live(Q)) <= SendBuffer /\ Cardinality(a) <= MaxSubscriptions /\ Cardinality(r) <= MaxSubscriptions

Fits(c) == ConnShape(c) /\ Within(c.queue, c.asked, c.refused)

\* The inductive invariant, wherever clients connect.
FitInv ==
  /\ StateOK /\ RingsInv /\ PlaneInv
  /\ \A k \in Slots : Fits(conn[k])
  /\ \A u \in Clients : last[u] \in 0 .. MaxEvents

\* The positions of a queue are finitely many.
LEMMA LiveFinite ==
  ASSUME NEW Q \in Seq(Item) PROVE IsFiniteSet(Live(Q)) /\ Cardinality(Live(Q)) \in Nat
<1>1. Len(Q) \in Nat /\ DOMAIN Q = 1 .. Len(Q)
  OBVIOUS
<1>2. IsFiniteSet(DOMAIN Q) /\ Live(Q) \in SUBSET DOMAIN Q
  BY <1>1, UpTo DEF Live
<1>3. IsFiniteSet(Live(Q))
  BY <1>2, FS_Subset
<1>4. QED
  BY <1>3, FS_CardinalityType

\* Topics are finitely many.
LEMMA TopicsFinite ==
  ASSUME NEW S \in SUBSET HubTopics, NEW T \in SUBSET S
  PROVE  Cardinality(S) \in Nat /\ Cardinality(T) \in Nat /\ Cardinality(T) <= Cardinality(S)
<1>1. IsFiniteSet(S)
  BY RealtimeAssumption, FS_Subset
<1>2. IsFiniteSet(T) /\ Cardinality(T) <= Cardinality(S)
  BY <1>1, FS_Subset
<1>3. QED
  BY <1>1, <1>2, FS_CardinalityType

\* A queue takes an event.
LEMMA LiveAppend ==
  ASSUME NEW Q \in Seq(Item), NEW q \in Item PROVE Cardinality(Live(Append(Q, q))) <= Cardinality(Live(Q)) + 1
<1>1. PICK P, n, L : P = Append(Q, q) /\ n = Len(Q) + 1 /\ L = Live(Q)
  OBVIOUS
<1>2. P \in Seq(Item) /\ \A i \in DOMAIN P : i = n \/ (i \in DOMAIN Q /\ P[i] = Q[i])
  BY <1>1
<1>3. Live(P) \in SUBSET (L \cup {n})
  BY <1>1, <1>2 DEF Live
<1>4. IsFiniteSet(L) /\ Cardinality(L) \in Nat /\ IsFiniteSet(Live(P)) /\ Cardinality(Live(P)) \in Nat
  BY <1>1, <1>2, LiveFinite
<1>5. IsFiniteSet(L \cup {n}) /\ Cardinality(L \cup {n}) = IF n \in L THEN Cardinality(L) ELSE Cardinality(L) + 1
  BY <1>4, FS_AddElement
<1>6. Cardinality(Live(P)) <= Cardinality(L \cup {n})
  BY <1>3, <1>5, FS_Subset
<1>7. Cardinality(L \cup {n}) \in Nat /\ Cardinality(L \cup {n}) <= Cardinality(L) + 1
  BY <1>4, <1>5
<1>8. Cardinality(Live(P)) <= Cardinality(L) + 1
  BY <1>4, <1>6, <1>7
<1>9. QED
  BY <1>1, <1>8

\* An event leaves.
LEMMA LiveTail ==
  ASSUME NEW Q \in Seq(Item), Q # <<>> PROVE Cardinality(Live(Tail(Q))) <= Cardinality(Live(Q))
<1>1. /\ Tail(Q) \in Seq(Item)
      /\ \A i \in DOMAIN Tail(Q) : i + 1 \in DOMAIN Q /\ Tail(Q)[i] = Q[i + 1] /\ i \in Nat
  BY TailItems
<1>2. PICK S, T : S = Live(Tail(Q)) /\ T = Live(Q)
  OBVIOUS
<1>3. \A i \in S : i \in Nat /\ i + 1 \in T
  BY <1>1, <1>2 DEF Live
<1>4. [i \in S |-> i + 1] \in Injection(S, T)
  BY <1>3 DEF Injection, IsInjective
<1>5. IsFiniteSet(T)
  BY <1>2, LiveFinite
<1>6. Cardinality(S) <= Cardinality(T)
  BY <1>4, <1>5, FS_Injection
<1>7. QED
  BY <1>2, <1>6

\* attach queues no live events.
LEMMA LiveConcat ==
  ASSUME NEW Q \in Seq(Item), NEW fs \in Seq(Item), \A i \in DOMAIN fs : fs[i].kind # "live"
  PROVE  Live(Q \o fs) = Live(Q)
<1>1. /\ \A i \in DOMAIN (Q \o fs) :
              \/ i \in DOMAIN Q /\ (Q \o fs)[i] = Q[i]
              \/ i > Len(Q) /\ i - Len(Q) \in DOMAIN fs /\ (Q \o fs)[i] = fs[i - Len(Q)]
      /\ \A i \in DOMAIN Q : i \in DOMAIN (Q \o fs) /\ (Q \o fs)[i] = Q[i]
  BY ConcatItems
<1>2. PICK P : P = Q \o fs
  OBVIOUS
<1>3. Live(P) = Live(Q)
  BY <1>1, <1>2 DEF Live
<1>4. QED
  BY <1>2, <1>3

\* An empty queue fits.
LEMMA WithinEmpty ==
  /\ \A a, r : Cardinality(a) <= MaxSubscriptions /\ Cardinality(r) <= MaxSubscriptions => Within(<<>>, a, r)
  /\ Within(<<>>, {}, {})
<1>1. Live(<<>>) = {}
  BY DEF Live
<1>2. Cardinality({}) = 0
  BY FS_EmptySet
<1>3. 0 <= SendBuffer /\ 0 <= MaxSubscriptions
  BY RealtimeAssumption
<1>4. QED
  BY <1>1, <1>2, <1>3 DEF Within

LEMMA NoConnFits == Fits(noConn)
  BY NoConnShape, NoConnOK, WithinEmpty DEF Fits

\* A connection that ends.
LEMMA EndFits == ASSUME NEW c, Fits(c) PROVE Fits(end(c)) /\ Fits(dropLocked(c))
<1>1. ConnShape(c) /\ IsConn(c) /\ Within(c.queue, c.asked, c.refused)
  BY DEF Fits, ConnShape
<1>2. /\ end(c).queue = <<>> /\ end(c).asked = c.asked /\ end(c).refused = c.refused
      /\ dropLocked(c).queue = <<>> /\ dropLocked(c).asked = c.asked /\ dropLocked(c).refused = c.refused
  BY <1>1 DEF end, dropLocked, detachLocked, IsConn, Fields
<1>3. Within(<<>>, c.asked, c.refused)
  BY <1>1, WithinEmpty DEF Within
<1>4. QED
  BY <1>1, <1>2, <1>3, EndShape DEF Fits

\* One whose handler has returned.
LEMMA GoneFits == ASSUME NEW h \in Hubs, NEW kind PROVE Fits([noConn EXCEPT !.hub = h, !.kind = kind, !.phase = "gone"])
<1> DEFINE c == [noConn EXCEPT !.hub = h, !.kind = kind, !.phase = "gone"]
<1>1. IsConn(noConn) /\ noConn.queue = <<>> /\ noConn.asked = {} /\ noConn.refused = {}
  BY NoConnShape, NoConnOK DEF ConnShape
<1>2. c.queue = noConn.queue /\ c.asked = noConn.asked /\ c.refused = noConn.refused
  BY <1>1 DEF IsConn, Fields
<1>3. ConnShape(c)
  BY GoneShape
<1> HIDE DEF c
<1>4. Fits(c)
  BY <1>1, <1>2, <1>3, WithinEmpty DEF Fits
<1>5. QED
  BY <1>4 DEF c

-----------------------------------------------------------------------------
\* Connections and clients change.
LEMMA FitConns ==
  ASSUME FitInv, UNCHANGED <<log, replay, inbox, unsent, lost>>, conn' = [k \in Slots |-> conn'[k]],
         \A k \in Slots : Fits(conn'[k]),
         cur' \in [Clients -> 0 .. MaxConns], wants' \in [Clients -> SUBSET HubTopics],
         last' = [u \in Clients |-> last'[u]], seen' = [u \in Clients |-> seen'[u]], owed' = [u \in Clients |-> owed'[u]],
         \A u \in Clients : last'[u] \in 0 .. MaxEvents
  PROVE  FitInv'
<1>1. StateOK' /\ PlaneInv' /\ \A h : Arrived(h)' = Arrived(h)
  BY DEF FitInv, StateOK, LogOK, PlaneInv, Arrived, OnTheWay
<1>2. RingsInv'
  BY <1>1 DEF FitInv, RingsInv
<1>3. QED
  BY <1>1, <1>2 DEF FitInv

\* One connection changes.
LEMMA FitConn ==
  ASSUME FitInv, UNCHANGED <<log, replay, inbox, unsent, lost, clientVars>>, NEW k \in Slots, NEW c,
         conn' = [conn EXCEPT ![k] = c], Fits(c)
  PROVE  FitInv'
<1>1. conn' = [j \in Slots |-> conn'[j]] /\ conn'[k] = c /\ \A j \in Slots : j # k => conn'[j] = conn[j]
  BY DEF FitInv, StateOK
<1>2. \A j \in Slots : Fits(conn'[j])
  BY <1>1 DEF FitInv
<1>3. cur' = cur /\ last' = last /\ seen' = seen /\ wants' = wants /\ owed' = owed
  BY DEF clientVars
<1>4. /\ cur' \in [Clients -> 0 .. MaxConns] /\ wants' \in [Clients -> SUBSET HubTopics]
      /\ last' = [u \in Clients |-> last'[u]] /\ seen' = [u \in Clients |-> seen'[u]] /\ owed' = [u \in Clients |-> owed'[u]]
      /\ \A u \in Clients : last'[u] \in 0 .. MaxEvents
  BY <1>3 DEF FitInv, StateOK
<1>5. QED
  BY <1>1, <1>2, <1>4, FitConns

\* A connection that differs in nothing that counts.
LEMMA FitsAlike ==
  ASSUME NEW c, NEW d, Fits(c), IsConn(d), d.hub = c.hub, d.queue = c.queue, d.after = c.after, d.asked = c.asked,
         d.refused = c.refused, d.topics \subseteq c.topics, d.phase = c.phase, d.ended = c.ended
  PROVE  Fits(d)
  BY DEF Fits, ConnShape

\* The writer's sleep, and the end of a connection.
LEMMA FitWriter == ASSUME FitInv, NEW k \in Slots, Wake(k) \/ Drained(k) \/ Cut(k) \/ Ends(k) \/ unregister(k) PROVE FitInv'
<1>1. UNCHANGED <<log, replay, inbox, unsent, lost, clientVars>>
  BY DEF Wake, Drained, Cut, Ends, unregister, planeVars
<1>2. Fits(conn[k]) /\ IsConn(conn[k]) /\ conn[k].hub \in Hubs
  BY DEF FitInv, Fits, ConnShape
<1>3. CASE Wake(k) \/ Drained(k) \/ Cut(k)
  <2> DEFINE a == [conn[k] EXCEPT !.writer = "draining", !.wake = FALSE]
             b == [conn[k] EXCEPT !.writer = "waiting"]
             d == [conn[k] EXCEPT !.cut = TRUE]
             Like(x) == /\ IsConn(x) /\ x.hub = conn[k].hub /\ x.queue = conn[k].queue /\ x.after = conn[k].after
                        /\ x.asked = conn[k].asked /\ x.refused = conn[k].refused /\ x.topics = conn[k].topics
                        /\ x.phase = conn[k].phase /\ x.ended = conn[k].ended
  <2>1. Like(a) /\ Like(b) /\ Like(d)
    BY <1>2 DEF IsConn, Fields
  <2>2. conn' = [conn EXCEPT ![k] = a] \/ conn' = [conn EXCEPT ![k] = b] \/ conn' = [conn EXCEPT ![k] = d]
    BY <1>3 DEF Wake, Drained, Cut
  <2> HIDE DEF a, b, d
  <2>3. Fits(a) /\ Fits(b) /\ Fits(d)
    BY <1>2, <2>1, FitsAlike
  <2>4. QED
    BY <1>1, <2>2, <2>3, FitConn
<1>4. CASE Ends(k)
  <2>1. conn' = [conn EXCEPT ![k] = end(conn[k])]
    BY <1>4 DEF Ends
  <2>2. QED
    BY <1>1, <1>2, <2>1, EndFits, FitConn
<1>5. CASE unregister(k)
  <2>1. PICK c : c = [noConn EXCEPT !.hub = conn[k].hub, !.kind = conn[k].kind, !.phase = "gone"]
    OBVIOUS
  <2>2. conn' = [conn EXCEPT ![k] = c] /\ Fits(c)
    BY <1>2, <1>5, <2>1, GoneFits DEF unregister
  <2>3. QED
    BY <1>1, <2>2, FitConn
<1>6. QED
  BY <1>3, <1>4, <1>5

\* Disconnect, endStreams and Close.
LEMMA FitEndMany == ASSUME FitInv, NEW h, (\E u : Disconnect(h, u)) \/ endStreams(h) \/ Close(h) PROVE FitInv'
<1>1. UNCHANGED <<log, replay, inbox, unsent, lost>> /\ cur' = cur /\ last' = last /\ seen' = seen /\ wants' = wants /\ owed' = owed
  BY DEF Disconnect, endStreams, Close, planeVars, clientVars
<1>2. conn' = [k \in Slots |-> conn'[k]] /\ \A k \in Slots : conn'[k] = conn[k] \/ conn'[k] \in {end(conn[k]), dropLocked(conn[k])}
  BY DEF Disconnect, endStreams, Close, On
<1>3. \A k \in Slots : Fits(conn'[k])
  BY <1>2, EndFits DEF FitInv
<1>4. /\ cur' \in [Clients -> 0 .. MaxConns] /\ wants' \in [Clients -> SUBSET HubTopics]
      /\ last' = [u \in Clients |-> last'[u]] /\ seen' = [u \in Clients |-> seen'[u]] /\ owed' = [u \in Clients |-> owed'[u]]
      /\ \A u \in Clients : last'[u] \in 0 .. MaxEvents
  BY <1>1 DEF FitInv, StateOK
<1>5. QED
  BY <1>1, <1>2, <1>3, <1>4, FitConns

\* A stream registers.
LEMMA FitRegister == ASSUME FitInv, NEW k \in Slots, register(k) PROVE FitInv'
<1>1. UNCHANGED <<log, replay, inbox, unsent, lost, clientVars>> /\ conn[k].phase = "asking"
  BY DEF register, planeVars
<1>2. Fits(conn[k]) /\ ConnShape(conn[k]) /\ IsConn(conn[k]) /\ conn[k].hub \in Hubs
  BY DEF FitInv, Fits, ConnShape
<1>3. PICK ok \in SUBSET conn[k].asked : conn' = [conn EXCEPT ![k] =
                  IF ok = {} \/ closing[conn[k].hub] # "open"
                  THEN [noConn EXCEPT !.hub = conn[k].hub, !.kind = "sse", !.phase = "gone"]
                  ELSE [conn[k] EXCEPT !.phase = "ready", !.asked = ok, !.refused = conn[k].asked \ ok, !.registered = TRUE]]
  BY DEF register
<1> DEFINE g == [noConn EXCEPT !.hub = conn[k].hub, !.kind = "sse", !.phase = "gone"]
           c == [conn[k] EXCEPT !.phase = "ready", !.asked = ok, !.refused = conn[k].asked \ ok, !.registered = TRUE]
<1>4. conn' = [conn EXCEPT ![k] = g] \/ conn' = [conn EXCEPT ![k] = c]
  BY <1>3
<1>5. Fits(g)
  BY <1>2, GoneFits
<1>6. /\ IsConn(c) /\ c.hub = conn[k].hub /\ c.ended = conn[k].ended /\ c.queue = conn[k].queue /\ c.topics = conn[k].topics
      /\ c.phase = "ready" /\ c.asked = ok /\ c.refused = conn[k].asked \ ok /\ c.after = conn[k].after
  BY <1>2 DEF IsConn, Fields
<1> HIDE DEF g, c
<1>7. ConnShape(c)
  BY <1>1, <1>2, <1>6 DEF ConnShape
<1>8. Within(c.queue, c.asked, c.refused)
  <2>1. PICK a, b : a = conn[k].asked /\ b = conn[k].asked \ ok
    OBVIOUS
  <2>2. a \in SUBSET HubTopics /\ ok \in SUBSET a /\ b \in SUBSET a /\ Cardinality(a) <= MaxSubscriptions
    BY <1>2, <2>1 DEF Fits, Within, ConnShape
  <2>3. /\ Cardinality(a) \in Nat /\ Cardinality(ok) \in Nat /\ Cardinality(ok) <= Cardinality(a)
        /\ Cardinality(b) \in Nat /\ Cardinality(b) <= Cardinality(a)
    BY <2>2, TopicsFinite
  <2>4. Cardinality(ok) <= MaxSubscriptions /\ Cardinality(b) <= MaxSubscriptions
    BY <2>2, <2>3, RealtimeAssumption
  <2>5. QED
    BY <1>2, <1>6, <2>1, <2>4 DEF Fits, Within
<1>9. Fits(c)
  BY <1>7, <1>8 DEF Fits
<1>10. QED
  BY <1>1, <1>4, <1>5, <1>9, FitConn

\* A client's first frame asks for topics.
LEMMA FirstIsTopics == ASSUME FitInv, NEW u \in Clients, NEW ts \in FirstTopics(u) PROVE ts \in SUBSET HubTopics
<1>1. wants[u] \in SUBSET HubTopics
  BY DEF FitInv, StateOK
<1>2. QED
  BY <1>1 DEF FirstTopics

\* A WebSocket asks for topics.
LEMMA FitSubscribe == ASSUME FitInv, NEW k \in Slots, wsSubscribe(k) PROVE FitInv'
<1>1. UNCHANGED <<log, replay, inbox, unsent, lost, clientVars>> /\ conn[k].phase = "idle"
  BY DEF wsSubscribe, planeVars
<1>2. Fits(conn[k]) /\ ConnShape(conn[k]) /\ IsConn(conn[k]) /\ k[1] \in Clients
  BY SlotParts DEF FitInv, Fits, ConnShape
<1>3. PICK ts \in IF conn[k].fresh THEN FirstTopics(k[1]) ELSE (SUBSET (HubTopics \ conn[k].topics)) \ {{}} :
           conn' = [conn EXCEPT ![k] =
             IF Cardinality(ts) > MaxSubscriptions - Cardinality(conn[k].topics)
             THEN end(conn[k])
             ELSE [conn[k] EXCEPT !.phase = "asking", !.asked = ts, !.fresh = FALSE,
                            !.after = IF conn[k].fresh THEN last[k[1]] ELSE 0]]
  BY DEF wsSubscribe
<1>4. ts \in SUBSET HubTopics
  BY <1>2, <1>3, FirstIsTopics
<1>5. PICK a : a = IF conn[k].fresh THEN last[k[1]] ELSE 0
  OBVIOUS
<1>6. a \in 0 .. MaxEvents
  BY <1>2, <1>5, RingAssumption DEF FitInv
<1> DEFINE c == [conn[k] EXCEPT !.phase = "asking", !.asked = ts, !.fresh = FALSE, !.after = a]
<1>7. \/ conn' = [conn EXCEPT ![k] = end(conn[k])]
      \/ conn' = [conn EXCEPT ![k] = c] /\ ~ (Cardinality(ts) > MaxSubscriptions - Cardinality(conn[k].topics))
  BY <1>3, <1>5
<1>8. /\ IsConn(c) /\ c.hub = conn[k].hub /\ c.ended = conn[k].ended /\ c.queue = conn[k].queue /\ c.topics = conn[k].topics
      /\ c.phase = "asking" /\ c.asked = ts /\ c.refused = conn[k].refused /\ c.after = a
  BY <1>2 DEF IsConn, Fields
<1> HIDE DEF c
<1>9. ConnShape(c)
  BY <1>1, <1>2, <1>4, <1>6, <1>8 DEF ConnShape
<1>10. CASE conn' = [conn EXCEPT ![k] = end(conn[k])]
  BY <1>1, <1>2, <1>10, EndFits, FitConn
<1>11. CASE conn' = [conn EXCEPT ![k] = c] /\ ~ (Cardinality(ts) > MaxSubscriptions - Cardinality(conn[k].topics))
  <2>1. PICK T, m, n : T = conn[k].topics /\ m = Cardinality(T) /\ n = Cardinality(ts)
    OBVIOUS
  <2>2. m \in Nat /\ n \in Nat
    BY <1>2, <1>4, <2>1, TopicsFinite DEF ConnShape
  <2>3. ~ (n > MaxSubscriptions - m) /\ MaxSubscriptions \in Nat
    BY <1>11, <2>1, RealtimeAssumption
  <2>4. n <= MaxSubscriptions
    BY <2>2, <2>3
  <2>5. Fits(c)
    BY <1>2, <1>8, <1>9, <2>1, <2>4 DEF Fits, Within
  <2>6. QED
    BY <1>1, <1>11, <2>5, FitConn
<1>12. QED
  BY <1>7, <1>10, <1>11

\* A WebSocket leaves topics.
LEMMA FitUnsubscribe == ASSUME FitInv, NEW k \in Slots, Unsubscribe(k) PROVE FitInv'
<1>1. UNCHANGED <<log, replay, inbox, unsent, lost, cur, last, seen>>
  BY DEF Unsubscribe, planeVars
<1>2. Fits(conn[k]) /\ IsConn(conn[k]) /\ k[1] \in Clients
  BY SlotParts DEF FitInv, Fits, ConnShape
<1>3. PICK ts : /\ conn' = [conn EXCEPT ![k] = detachLocked(conn[k], ts)]
                /\ wants' = [wants EXCEPT ![k[1]] = wants[k[1]] \ ts]
                /\ owed' = [owed EXCEPT ![k[1]] = owed[k[1]] \ EventsOf(ts)]
  BY DEF Unsubscribe
<1>4. PICK c : c = detachLocked(conn[k], ts)
  OBVIOUS
<1>5. /\ IsConn(c) /\ c.hub = conn[k].hub /\ c.queue = conn[k].queue /\ c.after = conn[k].after /\ c.asked = conn[k].asked
      /\ c.refused = conn[k].refused /\ c.topics \subseteq conn[k].topics /\ c.phase = conn[k].phase /\ c.ended = conn[k].ended
  BY <1>2, <1>4 DEF detachLocked, IsConn, Fields
<1>6. Fits(c)
  BY <1>2, <1>5, FitsAlike
<1>7. conn' = [j \in Slots |-> conn'[j]] /\ \A j \in Slots : Fits(conn'[j])
  BY <1>3, <1>4, <1>6 DEF FitInv, StateOK
<1>8. /\ cur' \in [Clients -> 0 .. MaxConns] /\ wants' \in [Clients -> SUBSET HubTopics]
      /\ last' = [u \in Clients |-> last'[u]] /\ seen' = [u \in Clients |-> seen'[u]] /\ owed' = [u \in Clients |-> owed'[u]]
      /\ \A u \in Clients : last'[u] \in 0 .. MaxEvents
  BY <1>1, <1>2, <1>3 DEF FitInv, StateOK
<1>9. QED
  BY <1>1, <1>7, <1>8, FitConns

\* A client connects.
LEMMA FitOpen == ASSUME FitInv, NEW u \in Clients, NEW h \in Hubs, OpenWS(u, h) \/ OpenSSE(u, h) PROVE FitInv'
<1>1. PICK n, k, m : n = cur[u] + 1 /\ k = <<u, n>> /\ m = cur[u]
  OBVIOUS
<1>2. m \in 0 .. MaxConns /\ MaxConns \in Nat /\ m < MaxConns
  BY <1>1, RealtimeAssumption DEF FitInv, StateOK, OpenWS, OpenSSE
<1>3. n \in 1 .. MaxConns /\ n \in 0 .. MaxConns
  BY <1>1, <1>2
<1>4. k \in Slots
  BY <1>1, <1>3, SlotParts
<1>5. UNCHANGED <<log, replay, inbox, unsent, lost, last, seen, wants, owed>> /\ cur' = [cur EXCEPT ![u] = n]
  BY <1>1 DEF OpenWS, OpenSSE, planeVars
<1>6. PICK c : conn' = [conn EXCEPT ![k] = c] /\ Fits(c)
  <2>1. /\ Fits(noConn) /\ IsConn(noConn) /\ noConn.topics = {} /\ noConn.queue = <<>> /\ noConn.ended = FALSE
        /\ noConn.refused = {} /\ noConn.asked = {} /\ noConn.after = 0
    BY NoConnFits, NoConnShape, NoConnOK DEF ConnShape
  <2>2. <<>> \in Seq(Item) /\ 0 \in 0 .. MaxEvents
    BY RingAssumption
  <2>3. CASE OpenWS(u, h)
    <3> DEFINE d == [noConn EXCEPT !.hub = h, !.phase = "idle", !.registered = TRUE]
    <3>1. conn' = [conn EXCEPT ![k] = d]
      BY <1>1, <2>3 DEF OpenWS
    <3>2. /\ IsConn(d) /\ d.hub = h /\ d.topics = noConn.topics /\ d.queue = noConn.queue /\ d.phase = "idle" /\ d.ended = noConn.ended
          /\ d.asked = noConn.asked /\ d.refused = noConn.refused /\ d.after = noConn.after
      BY <2>1 DEF IsConn, Fields
    <3> HIDE DEF d
    <3>3. ConnShape(d)
      BY <2>1, <2>2, <3>2 DEF ConnShape
    <3>4. QED
      BY <2>1, <3>1, <3>2, <3>3 DEF Fits
  <2>4. CASE OpenSSE(u, h)
    <3>1. PICK ts \in FirstTopics(u) : /\ Cardinality(ts) <= MaxSubscriptions
                   /\ conn' = [conn EXCEPT ![k] =
                     [noConn EXCEPT !.hub = h, !.kind = "sse", !.phase = "asking",
                                    !.asked = ts, !.after = last[u], !.fresh = FALSE]]
      BY <1>1, <2>4 DEF OpenSSE
    <3>2. ts \in SUBSET HubTopics /\ last[u] \in 0 .. MaxEvents
      BY FirstIsTopics DEF FitInv
    <3> DEFINE d == [noConn EXCEPT !.hub = h, !.kind = "sse", !.phase = "asking", !.asked = ts, !.after = last[u], !.fresh = FALSE]
    <3>3. conn' = [conn EXCEPT ![k] = d]
      BY <3>1
    <3>4. /\ IsConn(d) /\ d.hub = h /\ d.topics = noConn.topics /\ d.queue = noConn.queue /\ d.phase = "asking" /\ d.ended = noConn.ended
          /\ d.asked = ts /\ d.refused = noConn.refused /\ d.after = last[u]
      BY <2>1 DEF IsConn, Fields
    <3> HIDE DEF d
    <3>5. ConnShape(d)
      BY <2>1, <2>2, <3>2, <3>4 DEF ConnShape
    <3>6. Within(d.queue, d.asked, d.refused)
      BY <2>1, <3>1, <3>4 DEF Fits, Within
    <3>7. QED
      BY <3>3, <3>5, <3>6 DEF Fits
  <2>5. QED
    BY <2>3, <2>4
<1>7. conn' = [j \in Slots |-> conn'[j]] /\ \A j \in Slots : Fits(conn'[j])
  BY <1>4, <1>6 DEF FitInv, StateOK
<1>8. /\ cur' \in [Clients -> 0 .. MaxConns] /\ wants' \in [Clients -> SUBSET HubTopics]
      /\ last' = [v \in Clients |-> last'[v]] /\ seen' = [v \in Clients |-> seen'[v]] /\ owed' = [v \in Clients |-> owed'[v]]
      /\ \A v \in Clients : last'[v] \in 0 .. MaxEvents
  BY <1>3, <1>5 DEF FitInv, StateOK
<1>9. QED
  BY <1>5, <1>7, <1>8, FitConns

\* What attach makes of a connection whose topics are decided, and what it has to
\* queue: the refusals, and a reset per topic or what the ring keeps.
LEMMA AttachFits ==
  ASSUME FitInv, NEW a, Fits(a), a.phase \notin {"none", "gone"}, NEW c \in Verdicts(a)
  PROVE  /\ Fits(attachLocked(c)) /\ c.asked \subseteq HubTopics /\ c.ended = a.ended /\ c.queue = a.queue
         /\ Len(frames(c)) <= ReplaySize + 2 * MaxSubscriptions /\ Len(frames(c)) \in Nat
         /\ c.ended \/ ~ (Len(c.queue) + Len(frames(c)) > cap) => attachLocked(c).ended = c.ended
<1>1. ConnShape(a) /\ IsConn(a) /\ Within(a.queue, a.asked, a.refused)
  BY DEF Fits, ConnShape
<1>2. /\ ConnShape(c) /\ c.hub = a.hub /\ c.ended = a.ended /\ c.phase = a.phase /\ c.queue = a.queue
  BY <1>1, VerdictShape
<1>3. Cardinality(c.asked) <= MaxSubscriptions /\ Cardinality(c.refused) <= MaxSubscriptions
  <2>1. CASE a.kind = "sse"
    BY <1>1, <2>1 DEF Verdicts, Within
  <2>2. CASE a.kind # "sse"
    <3>1. PICK ok \in SUBSET a.asked : c = [a EXCEPT !.asked = ok, !.refused = a.asked \ ok]
      BY <2>2 DEF Verdicts
    <3>2. PICK s, b : s = a.asked /\ b = a.asked \ ok
      OBVIOUS
    <3>3. c.asked = ok /\ c.refused = b
      BY <1>1, <3>1, <3>2 DEF IsConn, Fields
    <3>4. s \in SUBSET HubTopics /\ ok \in SUBSET s /\ b \in SUBSET s /\ Cardinality(s) <= MaxSubscriptions
      BY <1>1, <3>2 DEF Within, ConnShape
    <3>5. /\ Cardinality(s) \in Nat /\ Cardinality(ok) \in Nat /\ Cardinality(ok) <= Cardinality(s)
          /\ Cardinality(b) \in Nat /\ Cardinality(b) <= Cardinality(s)
      BY <3>4, TopicsFinite
    <3>6. QED
      BY <3>3, <3>4, <3>5, RealtimeAssumption
  <2>3. QED
    BY <2>1, <2>2
<1>4. /\ LogOK /\ c.hub \in Hubs /\ c.asked \subseteq HubTopics /\ c.refused \subseteq HubTopics /\ c.after \in 0 .. MaxEvents
      /\ c.queue \in Seq(Item)
  BY <1>2 DEF ConnShape, FitInv, StateOK
<1>5. RingOK(replay[c.hub]) /\ \A f \in Events : kept(replay[c.hub], f) => f \in DOMAIN log
  BY <1>4, ArrivedLogged DEF FitInv, RingsInv
<1>6. PICK fs : fs = frames(c)
  OBVIOUS
<1>7. /\ fs \in Seq(Item) /\ Len(fs) <= Cardinality(c.refused) + Cardinality(c.asked) + ReplaySize
      /\ \A i \in DOMAIN fs : fs[i].kind # "live"
  <2>1. /\ frames(c) \in Seq(Item) /\ Len(frames(c)) <= Cardinality(c.refused) + Cardinality(c.asked) + ReplaySize
        /\ \A i \in DOMAIN frames(c) : frames(c)[i].kind # "live"
    BY <1>4, <1>5, FramesType
  <2>2. QED
    BY <1>6, <2>1
<1>8. Len(fs) \in Nat /\ Len(fs) <= ReplaySize + 2 * MaxSubscriptions
  <2>1. PICK x, y : x = c.refused /\ y = c.asked
    OBVIOUS
  <2>2. Cardinality(x) \in Nat /\ Cardinality(y) \in Nat
    BY <1>4, <2>1, TopicsFinite
  <2>3. PICK m, n : m = Cardinality(x) /\ n = Cardinality(y)
    OBVIOUS
  <2>4. m \in Nat /\ n \in Nat /\ m <= MaxSubscriptions /\ n <= MaxSubscriptions /\ Len(fs) <= m + n + ReplaySize /\ Len(fs) \in Nat
    BY <1>3, <1>7, <2>1, <2>2, <2>3
  <2>5. MaxSubscriptions \in Nat /\ ReplaySize \in Nat
    BY RealtimeAssumption, RingAssumption
  <2>6. QED
    BY <2>4, <2>5
<1>9. PICK b : b = attachLocked(c)
  OBVIOUS
<1>10. StateOK /\ RingsInv /\ c.phase \notin {"none", "gone"}
  BY <1>2 DEF FitInv
<1>11. /\ ConnShape(b) /\ (~ b.ended => b.queue = c.queue \o fs) /\ b.asked = {} /\ b.refused = {}
       /\ c.ended \/ ~ (Len(c.queue) + Len(frames(c)) > cap) => b.ended = c.ended
  BY <1>2, <1>6, <1>9, <1>10, AttachShape
<1>12. Within(b.queue, b.asked, b.refused)
  <2>1. CASE b.ended
    BY <1>11, <2>1, WithinEmpty DEF ConnShape
  <2>2. CASE ~ b.ended
    <3>1. Live(c.queue \o fs) = Live(c.queue)
      BY <1>4, <1>7, LiveConcat
    <3>2. Within(<<>>, {}, {})
      BY WithinEmpty
    <3>3. QED
      BY <1>1, <1>2, <1>11, <2>2, <3>1, <3>2 DEF Within
  <2>3. QED
    BY <2>1, <2>2
<1>13. Fits(b)
  BY <1>11, <1>12 DEF Fits
<1>14. QED
  BY <1>2, <1>4, <1>6, <1>8, <1>9, <1>11, <1>13

LEMMA FitAttach == ASSUME FitInv, NEW k \in Slots, Attach(k) PROVE FitInv'
<1>1. PICK u, a : u = k[1] /\ a = conn[k]
  OBVIOUS
<1>2. a.phase = (IF a.kind = "sse" THEN "ready" ELSE "asking") /\ UNCHANGED <<log, replay, inbox, unsent, lost, cur, last, seen>>
  BY <1>1 DEF Attach, planeVars
<1>3. Fits(a) /\ a.phase \notin {"none", "gone"} /\ u \in Clients
  BY <1>1, <1>2, SlotParts DEF FitInv
<1> DEFINE Forgiven(c) == EventsOf(c.refused) \cup (IF c.after = 0 THEN EventsOf(c.asked) ELSE {})
           Listening(c) == k[2] = cur[u] /\ ~ c.cut /\ ~ attachLocked(c).ended
<1>4. PICK c \in Verdicts(a) :
        /\ conn' = [conn EXCEPT ![k] = attachLocked(c)]
        /\ wants' = IF Listening(c) THEN [wants EXCEPT ![u] = (wants[u] \cup c.asked) \ c.refused] ELSE wants
        /\ owed' = IF Listening(c) THEN [owed EXCEPT ![u] = owed[u] \ Forgiven(c)] ELSE owed
  BY <1>1 DEF Attach
<1>5. Fits(attachLocked(c)) /\ c.asked \subseteq HubTopics
  BY <1>3, AttachFits
<1>6. PICK b : b = attachLocked(c)
  OBVIOUS
<1>7. conn' = [conn EXCEPT ![k] = b] /\ Fits(b)
  BY <1>4, <1>5, <1>6
<1>8. conn' = [j \in Slots |-> conn'[j]] /\ \A j \in Slots : Fits(conn'[j])
  BY <1>7 DEF FitInv, StateOK
<1>9. wants' \in [Clients -> SUBSET HubTopics]
  <2>1. wants \in [Clients -> SUBSET HubTopics]
    BY DEF FitInv, StateOK
  <2>2. PICK w : w = (wants[u] \cup c.asked) \ c.refused
    OBVIOUS
  <2>3. w \in SUBSET HubTopics
    BY <1>3, <1>5, <2>1, <2>2
  <2>4. wants' = [wants EXCEPT ![u] = w] \/ wants' = wants
    BY <1>4, <2>2
  <2>5. QED
    BY <1>3, <2>1, <2>3, <2>4
<1>10. owed' = [v \in Clients |-> owed'[v]]
  <2>1. PICK o : o = owed[u] \ Forgiven(c)
    OBVIOUS
  <2>2. owed' = [owed EXCEPT ![u] = o] \/ owed' = owed
    BY <1>4, <2>1
  <2>3. QED
    BY <2>2 DEF FitInv, StateOK
<1>11. /\ cur' \in [Clients -> 0 .. MaxConns]
       /\ last' = [v \in Clients |-> last'[v]] /\ seen' = [v \in Clients |-> seen'[v]]
       /\ \A v \in Clients : last'[v] \in 0 .. MaxEvents
  BY <1>2 DEF FitInv, StateOK
<1>12. QED
  BY <1>2, <1>8, <1>9, <1>10, <1>11, FitConns

\* pop.
LEMMA FitPop == ASSUME FitInv, NEW k \in Slots, pop(k) PROVE FitInv'
<1>1. PICK u, Q, q, c : /\ u = k[1] /\ Q = conn[k].queue /\ q = Head(conn[k].queue)
                        /\ c = [conn[k] EXCEPT !.queue = Tail(conn[k].queue)]
  OBVIOUS
<1>2. Q # <<>> /\ ~ conn[k].ended /\ UNCHANGED <<log, replay, inbox, unsent, lost, cur, wants>> /\ conn' = [conn EXCEPT ![k] = c]
  BY <1>1 DEF pop, planeVars
<1>3. Fits(conn[k]) /\ ConnShape(conn[k]) /\ IsConn(conn[k]) /\ Q \in Seq(Item) /\ u \in Clients
  BY <1>1, SlotParts DEF FitInv, Fits, ConnShape
<1>4. Tail(Q) \in Seq(Item) /\ q = Q[1] /\ Q[1] \in Item
  BY <1>1, <1>2, <1>3, TailItems
<1>5. /\ IsConn(c) /\ c.hub = conn[k].hub /\ c.ended = conn[k].ended /\ c.queue = Tail(Q) /\ c.topics = conn[k].topics
      /\ c.phase = conn[k].phase /\ c.asked = conn[k].asked /\ c.refused = conn[k].refused /\ c.after = conn[k].after
  BY <1>1, <1>3 DEF IsConn, Fields
<1>6. ConnShape(c)
  BY <1>1, <1>2, <1>3, <1>4, <1>5 DEF ConnShape
<1>7. Within(c.queue, c.asked, c.refused)
  <2>1. Cardinality(Live(Tail(Q))) <= Cardinality(Live(Q))
    BY <1>2, <1>3, LiveTail
  <2>2. Cardinality(Live(Tail(Q))) \in Nat /\ Cardinality(Live(Q)) \in Nat
    BY <1>3, <1>4, LiveFinite
  <2>3. Within(Q, c.asked, c.refused) /\ SendBuffer \in Nat
    BY <1>1, <1>3, <1>5, RealtimeAssumption DEF Fits
  <2>4. QED
    BY <1>5, <2>1, <2>2, <2>3 DEF Within
<1>8. Fits(c)
  BY <1>6, <1>7 DEF Fits
<1>9. conn' = [j \in Slots |-> conn'[j]] /\ \A j \in Slots : Fits(conn'[j])
  BY <1>2, <1>8 DEF FitInv, StateOK
<1>10. q.id \in 0 .. MaxEvents
  BY <1>4 DEF Item
<1>11. /\ last' = last \/ last' = [last EXCEPT ![u] = q.id]
       /\ seen' = seen \/ seen' = [seen EXCEPT ![u] = seen[u] \cup {q.id}]
  BY <1>1 DEF pop
<1>12. owed' = [v \in Clients |-> owed'[v]]
  <2>1. owed' = owed \/ \E o : owed' = [owed EXCEPT ![u] = o]
    BY <1>1 DEF pop
  <2>2. QED
    BY <2>1 DEF FitInv, StateOK
<1>13. /\ cur' \in [Clients -> 0 .. MaxConns] /\ wants' \in [Clients -> SUBSET HubTopics]
       /\ last' = [v \in Clients |-> last'[v]] /\ seen' = [v \in Clients |-> seen'[v]]
       /\ \A v \in Clients : last'[v] \in 0 .. MaxEvents
  BY <1>2, <1>3, <1>10, <1>11 DEF FitInv, StateOK
<1>14. QED
  BY <1>2, <1>9, <1>12, <1>13, FitConns

\* An event comes to a hub, published there or brought by the backplane: a
\* subscriber whose live events fill its share of the queue is dropped.
LEMMA FitArrival ==
  ASSUME FitInv, NEW h \in Hubs, NEW e \in Events, NEW t \in HubTopics, e \notin Arrived(h),
         LogOK', PlaneInv', inbox' = [g \in Hubs |-> inbox'[g]], lost' = [g \in Hubs |-> lost'[g]],
         replay' = [replay EXCEPT ![h] = add(@, e)], conn' = deliverLocked(h, e, t),
         UNCHANGED <<cur, last, seen, wants>>, owed' = [u \in Clients |-> owed'[u]],
         Arrived(h)' = Arrived(h) \cup {e}, \A g \in Hubs : Arrived(g) \subseteq Arrived(g)'
  PROVE  FitInv'
<1> DEFINE q == [kind |-> "live", id |-> e, topic |-> t]
           P(k) == [conn[k] EXCEPT !.queue = Append(@, q), !.wake = TRUE]
<1>1. /\ conn' = [k \in Slots |-> conn'[k]]
      /\ \A k \in Slots :
           \/ conn'[k] = conn[k]
           \/ conn'[k] = dropLocked(conn[k])
           \/ t \in conn[k].topics /\ ~ conn[k].ended /\ ~ full(conn[k], q) /\ conn'[k] = P(k)
  BY DEF deliverLocked, push
<1>2. q \in Item /\ q.kind = "live"
  <2>1. e \in 0 .. MaxEvents
    BY RingAssumption DEF Events
  <2>2. QED
    BY <2>1 DEF Item
<1>3. replay' = [g \in Hubs |-> replay'[g]] /\ replay'[h] = add(replay[h], e) /\ \A g \in Hubs : g # h => replay'[g] = replay[g]
  BY DEF FitInv, StateOK
<1>4. StateOK'
  BY <1>1, <1>3 DEF FitInv, StateOK
<1>5. RingOK(replay[h]) /\ ~ kept(replay[h], e)
  BY DEF FitInv, RingsInv
<1>6. RingsInv'
  <2>1. /\ RingOK(add(replay[h], e))
        /\ \A f \in Events : kept(add(replay[h], e), f) => f = e \/ kept(replay[h], f)
    BY <1>5, AddOK
  <2>2. ASSUME NEW g \in Hubs PROVE RingOK(replay'[g]) /\ \A f \in Events : kept(replay'[g], f) => f \in Arrived(g)'
    <3>1. CASE g = h
      BY <1>3, <2>1, <3>1 DEF FitInv, RingsInv
    <3>2. CASE g # h
      BY <1>3, <3>2 DEF FitInv, RingsInv
    <3>3. QED
      BY <3>1, <3>2
  <2>3. QED
    BY <2>2 DEF RingsInv
<1>7. ASSUME NEW k \in Slots PROVE Fits(conn'[k])
  <2>1. Fits(conn[k]) /\ ConnShape(conn[k]) /\ IsConn(conn[k]) /\ conn[k].queue \in Seq(Item)
    BY DEF FitInv, Fits, ConnShape
  <2>2. CASE conn'[k] = conn[k] \/ conn'[k] = dropLocked(conn[k])
    BY <2>1, <2>2, EndFits
  <2>3. CASE t \in conn[k].topics /\ ~ conn[k].ended /\ ~ full(conn[k], q) /\ conn'[k] = P(k)
    <3>1. PICK b, Q, R : b = P(k) /\ Q = conn[k].queue /\ R = Append(conn[k].queue, q)
      OBVIOUS
    <3>2. /\ IsConn(b) /\ b.hub = conn[k].hub /\ b.queue = R /\ b.topics = conn[k].topics
          /\ b.asked = conn[k].asked /\ b.refused = conn[k].refused /\ b.after = conn[k].after
          /\ b.phase = conn[k].phase /\ b.ended = conn[k].ended
      BY <2>1, <3>1 DEF IsConn, Fields
    <3>3. ~ (live(conn[k]) >= SendBuffer)
      BY <1>2, <2>3 DEF full
    <3> HIDE DEF P, q
    <3>4. Q \in Seq(Item) /\ R \in Seq(Item) /\ R = Append(Q, q)
      BY <1>2, <2>1, <3>1
    <3>5. ~ (Cardinality(Live(Q)) >= SendBuffer)
      BY <3>1, <3>3 DEF live, Live
    <3>6. Cardinality(Live(R)) <= Cardinality(Live(Q)) + 1
      BY <1>2, <3>4, LiveAppend
    <3>7. Cardinality(Live(Q)) \in Nat /\ Cardinality(Live(R)) \in Nat /\ SendBuffer \in Nat
      BY <3>4, LiveFinite, RealtimeAssumption
    <3>8. Cardinality(Live(R)) <= SendBuffer
      BY <3>5, <3>6, <3>7
    <3>9. Within(b.queue, b.asked, b.refused)
      BY <2>1, <3>2, <3>8 DEF Fits, Within
    <3>10. conn[k].phase \notin {"none", "gone"}
      BY <2>1, <2>3 DEF ConnShape
    <3>11. ConnShape(b)
      BY <2>1, <2>3, <3>2, <3>4, <3>10 DEF ConnShape
    <3>12. QED
      BY <2>3, <3>1, <3>9, <3>11 DEF Fits
  <2>4. QED
    BY <1>1, <2>2, <2>3
<1>8. \A u \in Clients : last'[u] \in 0 .. MaxEvents
  BY DEF FitInv
<1>9. QED
  BY <1>4, <1>6, <1>7, <1>8 DEF FitInv

LEMMA FitPublish == ASSUME FitInv, NEW h \in Hubs, NEW t \in HubTopics, Publish(h, t) PROVE FitInv'
<1>1. PICK e : e = Len(log) + 1
  OBVIOUS
<1>2. /\ e \in Events /\ replay' = [replay EXCEPT ![h] = add(@, e)] /\ conn' = deliverLocked(h, e, t)
      /\ owed' = [u \in Clients |-> owed[u] \cup (IF t \in wants[u] THEN {e} ELSE {})]
      /\ UNCHANGED <<cur, last, seen, wants>>
  BY <1>1 DEF Publish
<1>3. StateOK /\ PlaneInv
  BY DEF FitInv
<1>4. /\ LogOK' /\ PlaneInv' /\ inbox' = [g \in Hubs |-> inbox'[g]] /\ lost' = [g \in Hubs |-> lost'[g]]
      /\ Arrived(h)' = Arrived(h) \cup {e} /\ e \notin Arrived(h)
      /\ \A g \in Hubs : Arrived(g) \subseteq Arrived(g)'
  BY <1>1, <1>3, PublishPlane
<1>5. owed' = [u \in Clients |-> owed'[u]]
  BY <1>2
<1>6. QED
  BY <1>2, <1>4, <1>5, FitArrival

\* Nothing moves but the backplane.
LEMMA FitPlane ==
  ASSUME FitInv, UNCHANGED <<log, replay, conn, clientVars>>, PlaneInv',
         inbox' = [h \in Hubs |-> inbox'[h]], lost' = [h \in Hubs |-> lost'[h]],
         \A h \in Hubs : Arrived(h)' = Arrived(h)
  PROVE  FitInv'
<1>1. cur' = cur /\ last' = last /\ seen' = seen /\ wants' = wants /\ owed' = owed
  BY DEF clientVars
<1>2. StateOK'
  BY <1>1 DEF FitInv, StateOK, LogOK
<1>3. RingsInv'
  BY DEF FitInv, RingsInv
<1>4. QED
  BY <1>1, <1>2, <1>3 DEF FitInv

LEMMA FitReceive == ASSUME FitInv, NEW h \in Hubs, receive(h) PROVE FitInv'
<1>1. PICK e : e = Head(inbox[h])
  OBVIOUS
<1>2. UNCHANGED <<log, unsent, lost, clientVars>>
  BY DEF receive
<1>3. StateOK /\ PlaneInv
  BY DEF FitInv
<1>4. /\ PlaneInv' /\ inbox' = [g \in Hubs |-> inbox'[g]] /\ lost' = [g \in Hubs |-> lost'[g]] /\ e \in DOMAIN log
      /\ \A g \in Hubs : g # h => Arrived(g)' = Arrived(g)
      /\ log[e].hub = h => Arrived(h)' = Arrived(h)
      /\ log[e].hub # h => Arrived(h)' = Arrived(h) \cup {e} /\ e \notin Arrived(h)
  BY <1>1, <1>3, ReceivePlane
<1>5. CASE log[e].hub = h
  <2>1. UNCHANGED <<replay, conn>>
    BY <1>1, <1>5 DEF receive
  <2>2. QED
    BY <1>2, <1>4, <1>5, <2>1, FitPlane
<1>6. CASE log[e].hub # h
  <2>1. PICK t : t = log[e].topic
    OBVIOUS
  <2>2. replay' = [replay EXCEPT ![h] = add(@, e)] /\ conn' = deliverLocked(h, e, t)
    BY <1>1, <1>6, <2>1 DEF receive
  <2>3. LogOK /\ e \in Events /\ t \in HubTopics /\ LogOK'
    BY <1>2, <1>3, <1>4, <2>1, LogEvents DEF StateOK, LogOK
  <2>4. UNCHANGED <<cur, last, seen, wants>> /\ owed' = [u \in Clients |-> owed'[u]]
    BY <1>2, <1>3 DEF clientVars, StateOK
  <2>5. Arrived(h)' = Arrived(h) \cup {e} /\ e \notin Arrived(h) /\ \A g \in Hubs : Arrived(g) \subseteq Arrived(g)'
    BY <1>4, <1>6
  <2>6. QED
    BY <1>4, <2>2, <2>3, <2>4, <2>5, FitArrival
<1>7. QED
  BY <1>5, <1>6

-----------------------------------------------------------------------------
\* At the start.
LEMMA FitInitInv == ASSUME HubInit PROVE FitInv
<1>1. StateOK /\ RingsInv /\ PlaneInv
  BY DeliveryInitInv DEF DeliveryInv
<1>2. \A k \in Slots : conn[k] = noConn
  BY DEF HubInit
<1>3. \A u \in Clients : last[u] \in 0 .. MaxEvents
  BY RingAssumption DEF HubInit
<1>4. QED
  BY <1>1, <1>2, <1>3, NoConnFits DEF FitInv

\* Every step keeps the invariant.
LEMMA FitStepInv == ASSUME FitInv, [HubNext]_hubVars PROVE FitInv'
<1>0. StateOK /\ PlaneInv
  BY DEF FitInv
<1>1. CASE UNCHANGED <<log, replay, conn, clientVars, inbox, unsent, lost>>
  <2>1. /\ PlaneInv' /\ inbox' = [h \in Hubs |-> inbox'[h]] /\ lost' = [h \in Hubs |-> lost'[h]]
        /\ \A h \in Hubs : Arrived(h)' = Arrived(h)
    BY <1>0, <1>1 DEF StateOK, PlaneInv, Arrived, OnTheWay
  <2>2. QED
    BY <1>1, <2>1, FitPlane
<1>2. CASE \E h \in Hubs, t \in HubTopics : Publish(h, t)
  BY <1>2, FitPublish
<1>3. CASE \E u \in Clients, h \in Hubs : OpenWS(u, h) \/ OpenSSE(u, h) \/ Disconnect(h, u)
  BY <1>3, FitOpen, FitEndMany
<1>4. CASE \E k \in Slots : wsSubscribe(k) \/ Unsubscribe(k) \/ Cut(k) \/ Ends(k) \/ Handler(k)
  BY <1>4, FitSubscribe, FitUnsubscribe, FitWriter, FitRegister, FitAttach, FitPop DEF Handler
<1>5. CASE \E h \in Hubs : endStreams(h) \/ Close(h)
  BY <1>5, FitEndMany
<1>6. CASE UNCHANGED hubVars \/ \E h \in Hubs : CloseReturns(h) \/ CloseGivesUp(h) \/ Start(h) \/ Subscribed(h)
  <2>1. UNCHANGED <<log, replay, conn, clientVars, inbox, unsent, lost>>
    BY <1>6 DEF hubVars, CloseReturns, CloseGivesUp, Start, Subscribed, planeVars
  <2>2. QED
    BY <1>1, <2>1
<1>7. CASE \E h \in Hubs : Disconnected(h) \/ BackplaneStops(h)
  <2>1. PICK h \in Hubs : Disconnected(h) \/ BackplaneStops(h)
    BY <1>7
  <2>2. /\ UNCHANGED <<log, replay, conn, clientVars, unsent>> /\ inbox' = [inbox EXCEPT ![h] = <<>>]
        /\ lost' = [lost EXCEPT ![h] = @ \cup {e \in Range(inbox[h]) : log[e].hub # h}]
    BY <2>1 DEF Disconnected, BackplaneStops
  <2>3. /\ PlaneInv' /\ inbox' = [g \in Hubs |-> inbox'[g]] /\ lost' = [g \in Hubs |-> lost'[g]]
        /\ \A g \in Hubs : Arrived(g)' = Arrived(g)
    BY <1>0, <2>2, InboxLost
  <2>4. QED
    BY <2>2, <2>3, FitPlane
<1>8. CASE \E h \in Hubs : receive(h)
  BY <1>8, FitReceive
<1>9. CASE \E e \in unsent : broadcast(e)
  <2>1. PICK e \in unsent : broadcast(e)
    BY <1>9
  <2>2. UNCHANGED <<log, replay, conn, clientVars>>
    BY <2>1 DEF broadcast
  <2>3. /\ PlaneInv' /\ inbox' = [g \in Hubs |-> inbox'[g]] /\ lost' = [g \in Hubs |-> lost'[g]]
        /\ \A g \in Hubs : Arrived(g)' = Arrived(g)
    BY <1>0, <2>1, BroadcastMoves
  <2>4. QED
    BY <2>2, <2>3, FitPlane
<1>10. QED
  BY <1>2, <1>3, <1>4, <1>5, <1>6, <1>7, <1>8, <1>9 DEF HubNext

\* The step attach takes.
LEMMA FrameFitsStep ==
  ASSUME FitInv, NEW k \in Slots, Attach(k), live(conn[k]) = Len(conn[k].queue)
  PROVE  conn'[k].ended = conn[k].ended
<1>1. PICK a : a = conn[k]
  OBVIOUS
<1>2. Fits(a) /\ a.phase \notin {"none", "gone"} /\ a.queue \in Seq(Item)
  BY <1>1 DEF Attach, FitInv, Fits, ConnShape
<1>3. PICK c \in Verdicts(a) : conn' = [conn EXCEPT ![k] = attachLocked(c)]
  BY <1>1 DEF Attach
<1>4. /\ c.ended = a.ended /\ c.queue = a.queue
      /\ Len(frames(c)) <= ReplaySize + 2 * MaxSubscriptions /\ Len(frames(c)) \in Nat
      /\ c.ended \/ ~ (Len(c.queue) + Len(frames(c)) > cap) => attachLocked(c).ended = c.ended
  BY <1>2, AttachFits
<1>5. PICK n, m : n = Len(a.queue) /\ m = Len(frames(c))
  OBVIOUS
<1>6. Cardinality(Live(a.queue)) = n /\ Cardinality(Live(a.queue)) <= SendBuffer /\ n \in Nat
  BY <1>1, <1>2, <1>5 DEF live, Live, Fits, Within
<1>7. SendBuffer \in Nat /\ ReplaySize \in Nat /\ MaxSubscriptions \in Nat
  BY RealtimeAssumption, RingAssumption
<1>8. ~ (n + m > cap)
  BY <1>4, <1>5, <1>6, <1>7 DEF cap
<1>9. attachLocked(c).ended = a.ended
  BY <1>4, <1>5, <1>8
<1>10. conn'[k] = attachLocked(c)
  BY <1>3 DEF FitInv, StateOK
<1>11. QED
  BY <1>1, <1>9, <1>10

\* The queue newConn makes has room for what a subscribe frame adds to the live
\* events that may wait: attach drops no connection whose earlier frames' events
\* are sent, for every buffer, ring and limit, wherever clients reconnect.
THEOREM RealtimeFrameFits == HubSpec => FrameFits
<1>1. HubInit => FitInv
  BY FitInitInv
<1>2. FitInv /\ [HubNext]_hubVars => FitInv'
  BY FitStepInv
<1> DEFINE Roomy == \A k \in Slots : (Attach(k) /\ live(conn[k]) = Len(conn[k].queue)) => (conn'[k].ended = conn[k].ended)
<1>3. FitInv /\ [HubNext]_hubVars => [Roomy]_hubVars
  BY FrameFitsStep
<1> HIDE DEF Roomy
<1>4. HubSpec => [][Roomy]_hubVars
  BY <1>1, <1>2, <1>3, PTL DEF HubSpec
<1>5. QED
  BY <1>4 DEF FrameFits, Roomy

-----------------------------------------------------------------------------
(* Tickets.                                                                *)

\* A call in flight.
CallRecord == [op : {"idle", "put", "take"}, ticket : Tickets \cup {NoOp.ticket}, now : Nat]

\* The types of the state.
TicketsTypeOK ==
  /\ InRedis \in BOOLEAN /\ clock \in Nat
  /\ byID \in [Tickets -> Nat] /\ issued \in [Tickets -> Nat]
  /\ order \in Seq(Tickets)
  /\ call \in [Calls -> CallRecord]
  /\ admitted \in Seq([ticket : Tickets, at : Nat])

\* The ticket has opened a connection.
Spent(t) == \E i \in DOMAIN admitted : admitted[i].ticket = t

\* A call has a ticket, read the clock in the past, and issues one that no
\* other call issues and that was never issued.
CallsInv ==
  \A c \in Calls : call[c].op # "idle" =>
    /\ call[c].ticket \in Tickets /\ call[c].now <= clock
    /\ call[c].op = "put" => issued[call[c].ticket] = 0
    /\ \A d \in Calls : call[c].op = "put" /\ call[d].op = "put" /\ call[d].ticket = call[c].ticket => d = c

\* A ticket is kept until the time it was issued for, and not once it is spent.
KeptInv ==
  \A t \in Tickets :
    /\ byID[t] \in {0, issued[t]}
    /\ Spent(t) => byID[t] = 0 /\ issued[t] # 0

\* The inductive invariant.
TicketsInv == TicketsTypeOK /\ CallsInv /\ KeptInv /\ TicketsHonoured

-----------------------------------------------------------------------------
\* A set of naturals that is not empty has a least element.
LEMMA LeastNatural ==
  ASSUME NEW T, T \subseteq Nat, T # {}
  PROVE  \E x \in T : \A y \in T : x <= y
<1>1. PICK x \in T : \A y \in T : ~ (<<y, x>> \in OpToRel(<, Nat))
  BY NatLessThanWellFounded, WFMin
<1>2. \A y \in T : ~ (y < x)
  BY <1>1 DEF OpToRel
<1>3. x \in Nat /\ \A y \in T : y \in Nat
  OBVIOUS
<1>4. QED
  BY <1>2, <1>3

\* expire pops a prefix of order, none of it alive.
LEMMA ExpirePops ==
  ASSUME TicketsTypeOK, NEW now \in Nat
  PROVE  expire(now) \in 0..Len(order) /\ \A i \in 1..expire(now) : ~ Alive(order[i], now)
<1> DEFINE alive == {i \in DOMAIN order : Alive(order[i], now)}
<1>1. DOMAIN order = 1..Len(order) /\ Len(order) \in Nat
  BY DEF TicketsTypeOK
<1>2. CASE alive = {}
  BY <1>1, <1>2 DEF expire
<1>3. CASE alive # {}
  <2>0. alive \subseteq Nat
    BY <1>1
  <2>1. \E x \in alive : \A y \in alive : x <= y
    <3> HIDE DEF alive
    <3>1. QED
      BY <1>3, <2>0, LeastNatural
  <2>2. Min(alive) \in alive /\ \A y \in alive : Min(alive) <= y
    BY <2>1 DEF Min
  <2>3. expire(now) = Min(alive) - 1
    BY <1>3 DEF expire
  <2>4. \A i \in 1..Len(order) : i < Min(alive) => ~ Alive(order[i], now)
    <3>1. ASSUME NEW i \in 1..Len(order), i < Min(alive) PROVE i \notin alive
      <4> HIDE DEF alive
      <4>1. i \in Nat
        BY <1>1
      <4>2. Min(alive) \in Nat
        BY <2>0, <2>2
      <4>3. QED
        BY <2>2, <3>1, <4>1, <4>2
    <3>2. QED
      BY <1>1, <3>1
  <2>5. Min(alive) \in 1..Len(order)
    BY <1>1, <2>2
  <2> HIDE DEF alive
  <2>6. QED
    BY <1>1, <2>3, <2>4, <2>5
<1>4. QED
  BY <1>2, <1>3

\* What expire leaves: the tickets that are alive, each where it was found.
LEMMA ExpireKeeps ==
  ASSUME TicketsTypeOK, NEW now \in Nat
  PROVE  /\ Kept(now) \in [Tickets -> Nat] /\ Rest(now) \in Seq(Tickets)
         /\ \A t \in Tickets : Kept(now)[t] = byID[t] \/ (Kept(now)[t] = 0 /\ ~ Alive(t, now))
         /\ \A t \in Tickets : Kept(now)[t] # 0 /\ t \in Range(order) => t \in Range(Rest(now))
<1> DEFINE n == expire(now)
<1>1. n \in 0..Len(order) /\ Len(order) \in Nat /\ DOMAIN order = 1..Len(order) /\ order \in Seq(Tickets)
  <2>1. Len(order) \in Nat /\ DOMAIN order = 1..Len(order) /\ order \in Seq(Tickets)
    BY DEF TicketsTypeOK
  <2>2. QED
    BY <2>1, ExpirePops
<1>2. \A i \in 1..n : ~ Alive(order[i], now)
  BY ExpirePops
<1>3. /\ SubSeq(order, 1, n) \in Seq(Tickets) /\ DOMAIN SubSeq(order, 1, n) = 1..n
      /\ \A i \in 1..n : SubSeq(order, 1, n)[i] = order[i]
  BY <1>1
<1>4. /\ Rest(now) \in Seq(Tickets) /\ DOMAIN Rest(now) = 1..(Len(order) - n)
      /\ \A i \in 1..(Len(order) - n) : Rest(now)[i] = order[n + i]
  BY <1>1, SMTT(30) DEF Rest
<1> HIDE DEF n
<1>5. Range(SubSeq(order, 1, n)) = {order[i] : i \in 1..n}
  BY <1>3 DEF Range
<1>6. Kept(now) = [t \in Tickets |-> IF t \in {order[i] : i \in 1..n} THEN 0 ELSE byID[t]]
  BY <1>5 DEF Kept, n
<1>7. Kept(now) \in [Tickets -> Nat]
  BY <1>6 DEF TicketsTypeOK
<1>8. ASSUME NEW t \in Tickets PROVE Kept(now)[t] = byID[t] \/ (Kept(now)[t] = 0 /\ ~ Alive(t, now))
  BY <1>2, <1>6
<1>9. ASSUME NEW t \in Tickets, Kept(now)[t] # 0, t \in Range(order) PROVE t \in Range(Rest(now))
  <2>1. PICK i \in 1..Len(order) : t = order[i]
    BY <1>1, <1>9 DEF Range
  <2>2. i > n
    BY <1>1, <1>6, <1>9, <2>1
  <2>3. i - n \in 1..(Len(order) - n) /\ n + (i - n) = i
    BY <1>1, <2>2
  <2>4. QED
    BY <1>4, <2>1, <2>3 DEF Range
<1>10. QED
  BY <1>4, <1>7, <1>8, <1>9

\* Redeeming appends to the history.
LEMMA AdmittedAppend ==
  ASSUME TicketsTypeOK, NEW t \in Tickets, NEW at \in Nat, admitted' = Append(admitted, [ticket |-> t, at |-> at])
  PROVE  /\ admitted' \in Seq([ticket : Tickets, at : Nat])
         /\ DOMAIN admitted = 1..Len(admitted) /\ DOMAIN admitted' = 1..(Len(admitted) + 1) /\ Len(admitted) \in Nat
         /\ admitted'[Len(admitted) + 1].ticket = t /\ admitted'[Len(admitted) + 1].at = at
         /\ \A i \in 1..Len(admitted) : admitted'[i] = admitted[i]
<1> DEFINE new == [ticket |-> t, at |-> at]
<1>1. new \in [ticket : Tickets, at : Nat] /\ new.ticket = t /\ new.at = at
  OBVIOUS
<1> HIDE DEF new
<1>2. admitted' = Append(admitted, new)
  BY DEF new
<1>3. QED
  BY <1>1, <1>2 DEF TicketsTypeOK

\* Tickets are redeemed once and in time, whichever store they are kept in.
Redeemed == RedeemedOnce /\ RedeemedInTime

\* A redemption that found the ticket keeps that.
LEMMA RedeemedAppend ==
  ASSUME TicketsInv, NEW t \in Tickets, NEW at \in Nat, admitted' = Append(admitted, [ticket |-> t, at |-> at]),
         byID[t] # 0, at < byID[t], issued' = issued
  PROVE  Redeemed' /\ \A u \in Tickets : Spent(u)' <=> Spent(u) \/ u = t
<1> DEFINE n == Len(admitted)
<1>1. /\ DOMAIN admitted = 1..n /\ DOMAIN admitted' = 1..(n + 1) /\ n \in Nat
      /\ admitted'[n + 1].ticket = t /\ admitted'[n + 1].at = at
      /\ \A i \in 1..n : admitted'[i] = admitted[i]
  BY AdmittedAppend DEF TicketsInv
<1>2. ~ Spent(t) /\ byID[t] = issued[t]
  BY DEF TicketsInv, KeptInv
<1> HIDE DEF n
<1>3. RedeemedOnce'
  <2>1. ASSUME NEW i \in 1..(n + 1), NEW j \in 1..(n + 1), i # j
        PROVE  admitted'[i].ticket # admitted'[j].ticket
    BY <1>1, <1>2, <2>1 DEF TicketsInv, TicketsHonoured, RedeemedOnce, Spent
  <2>2. QED
    BY <1>1, <2>1 DEF RedeemedOnce
<1>4. RedeemedInTime'
  <2>1. ASSUME NEW i \in 1..(n + 1) PROVE admitted'[i].at < issued[admitted'[i].ticket]
    BY <1>1, <1>2 DEF TicketsInv, TicketsHonoured, RedeemedInTime, Range
  <2>2. QED
    BY <1>1, <2>1 DEF RedeemedInTime, Range
<1>5. \A u \in Tickets : Spent(u)' <=> Spent(u) \/ u = t
  BY <1>1 DEF Spent
<1>6. QED
  BY <1>3, <1>4, <1>5 DEF Redeemed

-----------------------------------------------------------------------------
(* One lemma per action.                                                   *)

\* No ticket is issued and no call is in flight.
LEMMA TicketsInitInv == TicketsInit => TicketsInv
<1> SUFFICES ASSUME TicketsInit PROVE TicketsInv
  OBVIOUS
<1> USE DEF TicketsInit
<1>1. NoOp \in CallRecord /\ NoOp.op = "idle"
  BY DEF NoOp, CallRecord
<1>2. TicketsTypeOK
  BY <1>1 DEF TicketsTypeOK
<1>3. CallsInv
  BY <1>1 DEF CallsInv
<1>4. KeptInv
  BY DEF KeptInv, Spent
<1>5. TicketsHonoured
  BY DEF TicketsHonoured, RedeemedOnce, RedeemedInTime, GoodUntilExpiry, NoneLeaks, Range
<1>6. QED
  BY <1>2, <1>3, <1>4, <1>5 DEF TicketsInv

\* The clock only makes tickets expire.
LEMMA TickInv == ASSUME TicketsInv, Tick PROVE TicketsInv'
<1> USE DEF TicketsInv, Tick
<1>1. TicketsTypeOK' /\ clock' = clock + 1 /\ clock \in Nat
  BY DEF TicketsTypeOK
<1>2. CallsInv'
  <2>1. \A c \in Calls : call[c].now \in Nat
    BY DEF TicketsTypeOK, CallRecord
  <2>2. QED
    BY <1>1, <2>1 DEF CallsInv
<1>3. KeptInv'
  BY DEF KeptInv, Spent
<1>4. GoodUntilExpiry'
  <2>1. \A t \in Tickets : clock' < issued[t] => clock < issued[t]
    BY <1>1 DEF TicketsTypeOK
  <2>2. QED
    BY <2>1 DEF TicketsHonoured, GoodUntilExpiry
<1>5. RedeemedOnce' /\ RedeemedInTime' /\ NoneLeaks'
  BY DEF TicketsHonoured, RedeemedOnce, RedeemedInTime, NoneLeaks
<1>6. QED
  BY <1>1, <1>2, <1>3, <1>4, <1>5 DEF TicketsHonoured

\* A call draws a new ticket or is handed one, and reads the clock.
LEMMA EnterInv ==
  ASSUME NEW c \in Calls, NEW op \in {"put", "take"}, NEW t \in Tickets, TicketsInv, Enter(c, op, t)
  PROVE  TicketsInv'
<1> USE DEF TicketsInv
<1> DEFINE new == [op |-> op, ticket |-> t, now |-> clock]
<1>1. new \in CallRecord /\ new.op = op /\ new.ticket = t /\ new.now = clock /\ clock \in Nat
  BY DEF CallRecord, TicketsTypeOK
<1>2. call' = [call EXCEPT ![c] = new] /\ UNCHANGED <<InRedis, clock, byID, order, issued, admitted>>
  BY DEF Enter
<1> HIDE DEF new
<1>3. call'[c] = new /\ \A d \in Calls : d # c => call'[d] = call[d]
  BY <1>2 DEF TicketsTypeOK
<1>4. TicketsTypeOK'
  BY <1>1, <1>2 DEF TicketsTypeOK
<1>5. CallsInv'
  BY <1>1, <1>2, <1>3 DEF CallsInv, Enter
<1>6. KeptInv' /\ TicketsHonoured'
  BY <1>2 DEF KeptInv, Spent, TicketsHonoured, RedeemedOnce, RedeemedInTime, GoodUntilExpiry, NoneLeaks
<1>7. QED
  BY <1>4, <1>5, <1>6

\* A call whose critical section is over leaves the others as they were.
LEMMA CallEnds ==
  ASSUME TicketsTypeOK, NEW c \in Calls, call' = [call EXCEPT ![c] = NoOp]
  PROVE  /\ call' \in [Calls -> CallRecord] /\ call'[c].op = "idle"
         /\ \A d \in Calls : d # c => call'[d] = call[d]
  BY DEF TicketsTypeOK, CallRecord, NoOp

\* put pops what has expired and keeps the new ticket, at the end of order.
LEMMA PutInv == ASSUME NEW c \in Calls, TicketsInv, put(c) PROVE TicketsInv'
<1> USE TicketsAssumption DEF TicketsInv
<1> DEFINE t == call[c].ticket
           now == call[c].now
<1>1. /\ t \in Tickets /\ now \in Nat /\ now <= clock /\ issued[t] = 0 /\ call[c].op = "put"
      /\ clock \in Nat /\ ~ InRedis
  BY DEF put, CallsInv, TicketsTypeOK, CallRecord
<1>2. /\ byID' = [Kept(now) EXCEPT ![t] = now + TTL] /\ order' = Append(Rest(now), t)
      /\ issued' = [issued EXCEPT ![t] = now + TTL]
      /\ UNCHANGED <<InRedis, clock, admitted>>
  BY DEF put
<1>3. /\ call' \in [Calls -> CallRecord] /\ call'[c].op = "idle"
      /\ \A d \in Calls : d # c => call'[d] = call[d]
  BY CallEnds DEF put
<1>4. ~ Spent(t)
  BY <1>1 DEF KeptInv
<1>5. \A d \in Calls : d # c /\ call[d].op = "put" => call[d].ticket # t
  BY <1>1 DEF CallsInv
<1> HIDE DEF t, now
<1>6. /\ Kept(now) \in [Tickets -> Nat] /\ Rest(now) \in Seq(Tickets)
      /\ \A u \in Tickets : Kept(now)[u] = byID[u] \/ (Kept(now)[u] = 0 /\ ~ Alive(u, now))
      /\ \A u \in Tickets : Kept(now)[u] # 0 /\ u \in Range(order) => u \in Range(Rest(now))
  BY <1>1, ExpireKeeps
<1>7. now + TTL \in Nat /\ now + TTL # 0
  BY <1>1
<1>8. /\ byID'[t] = now + TTL /\ issued'[t] = now + TTL
      /\ \A u \in Tickets : u # t => byID'[u] = Kept(now)[u] /\ issued'[u] = issued[u]
  BY <1>1, <1>2, <1>6 DEF TicketsTypeOK
<1>9. order' \in Seq(Tickets) /\ Range(order') = Range(Rest(now)) \cup {t}
  <2> DEFINE rest == Rest(now)
  <2>1. order' = Append(rest, t) /\ rest \in Seq(Tickets)
    BY <1>2, <1>6
  <2> HIDE DEF rest
  <2>2. /\ order' \in Seq(Tickets) /\ DOMAIN order' = 1..(Len(rest) + 1) /\ DOMAIN rest = 1..Len(rest) /\ Len(rest) \in Nat
        /\ order'[Len(rest) + 1] = t /\ \A i \in 1..Len(rest) : order'[i] = rest[i]
    BY <1>1, <2>1
  <2>3. Range(order') = Range(rest) \cup {t}
    BY <2>2 DEF Range
  <2>4. QED
    BY <2>2, <2>3 DEF rest
<1>10. TicketsTypeOK'
  BY <1>1, <1>2, <1>3, <1>6, <1>7, <1>9 DEF TicketsTypeOK
<1>11. CallsInv'
  BY <1>2, <1>3, <1>5, <1>8 DEF CallsInv
<1>12. \A u \in Tickets : Spent(u)' <=> Spent(u)
  BY <1>2 DEF Spent
<1>13. KeptInv'
  BY <1>4, <1>6, <1>8, <1>12 DEF KeptInv
<1>14. RedeemedOnce'
  BY <1>2 DEF TicketsHonoured, RedeemedOnce
<1>15. RedeemedInTime'
  <2>1. \A r \in Range(admitted) : r.ticket \in Tickets /\ r.ticket # t
    <3>1. \A i \in DOMAIN admitted : admitted[i] \in [ticket : Tickets, at : Nat]
      BY SeqElement DEF TicketsTypeOK
    <3>2. QED
      BY <1>4, <3>1 DEF Range, Spent
  <2>2. QED
    BY <1>2, <1>8, <2>1 DEF TicketsHonoured, RedeemedInTime
<1>16. GoodUntilExpiry'
  <2>1. ASSUME NEW u \in Tickets, u # t, clock < issued[u], ~ \E r \in Range(admitted) : r.ticket = u
        PROVE  byID'[u] = issued[u]
    <3>1. byID[u] = issued[u]
      BY <1>1, <2>1 DEF TicketsHonoured, GoodUntilExpiry
    <3>2. issued[u] \in Nat
      BY DEF TicketsTypeOK
    <3>3. Alive(u, now)
      BY <1>1, <2>1, <3>1, <3>2 DEF Alive
    <3>4. QED
      BY <1>6, <1>8, <2>1, <3>1, <3>3
  <2>2. QED
    BY <1>2, <1>8, <2>1 DEF GoodUntilExpiry
<1>17. NoneLeaks'
  <2>1. ASSUME NEW u \in Tickets, u # t, byID'[u] # 0 PROVE u \in Range(Rest(now))
    BY <1>1, <1>6, <1>8, <2>1 DEF TicketsHonoured, NoneLeaks
  <2>2. QED
    BY <1>9, <2>1 DEF NoneLeaks
<1>18. QED
  BY <1>10, <1>11, <1>13, <1>14, <1>15, <1>16, <1>17 DEF TicketsHonoured

\* take pops what has expired, and redeems its ticket if that is still kept and
\* good at the time the call read.
LEMMA TakeInv == ASSUME NEW c \in Calls, TicketsInv, take(c) PROVE TicketsInv'
<1> USE TicketsAssumption DEF TicketsInv
<1> DEFINE t == call[c].ticket
           now == call[c].now
           ok == Kept(now)[t] # 0 /\ now < Kept(now)[t]
<1>1. t \in Tickets /\ now \in Nat /\ now <= clock /\ clock \in Nat /\ ~ InRedis
  BY DEF take, CallsInv, TicketsTypeOK, CallRecord
<1>2. /\ order' = Rest(now) /\ UNCHANGED <<InRedis, clock, issued>>
      /\ ok => byID' = [Kept(now) EXCEPT ![t] = 0] /\ admitted' = Append(admitted, [ticket |-> t, at |-> now])
      /\ ~ ok => byID' = Kept(now) /\ admitted' = admitted
  BY DEF take
<1>3. /\ call' \in [Calls -> CallRecord] /\ call'[c].op = "idle"
      /\ \A d \in Calls : d # c => call'[d] = call[d]
  BY CallEnds DEF take
<1> HIDE DEF t, now
<1>4. /\ Kept(now) \in [Tickets -> Nat] /\ Rest(now) \in Seq(Tickets)
      /\ \A u \in Tickets : Kept(now)[u] = byID[u] \/ (Kept(now)[u] = 0 /\ ~ Alive(u, now))
      /\ \A u \in Tickets : Kept(now)[u] # 0 /\ u \in Range(order) => u \in Range(Rest(now))
  BY <1>1, ExpireKeeps
<1>5. \A u \in Tickets : byID'[u] = Kept(now)[u] \/ (byID'[u] = 0 /\ u = t /\ ok)
  BY <1>1, <1>2, <1>4
<1>6. /\ Redeemed' /\ admitted' \in Seq([ticket : Tickets, at : Nat])
      /\ \A u \in Tickets : Spent(u)' <=> Spent(u) \/ (u = t /\ ok)
      /\ ok => byID'[t] = 0 /\ issued[t] # 0
  <2>1. CASE ok
    <3>1. byID[t] # 0 /\ now < byID[t]
      BY <1>1, <1>4, <2>1
    <3>2. Redeemed' /\ \A u \in Tickets : Spent(u)' <=> Spent(u) \/ u = t
      BY <1>1, <1>2, <2>1, <3>1, RedeemedAppend
    <3>3. admitted' \in Seq([ticket : Tickets, at : Nat])
      BY <1>1, <1>2, <2>1, AdmittedAppend
    <3>4. byID'[t] = 0
      BY <1>1, <1>2, <1>4, <2>1
    <3>5. issued[t] # 0
      BY <1>1, <3>1 DEF KeptInv
    <3>6. QED
      BY <2>1, <3>2, <3>3, <3>4, <3>5
  <2>2. CASE ~ ok
    BY <1>2, <2>2 DEF TicketsHonoured, Redeemed, RedeemedOnce, RedeemedInTime, TicketsTypeOK, Spent
  <2>3. QED
    BY <2>1, <2>2
<1> HIDE DEF ok
<1>7. byID' \in [Tickets -> Nat]
  BY <1>1, <1>2, <1>4
<1>8. TicketsTypeOK'
  BY <1>2, <1>3, <1>4, <1>6, <1>7 DEF TicketsTypeOK
<1>9. CallsInv'
  BY <1>2, <1>3 DEF CallsInv
<1>10. KeptInv'
  BY <1>2, <1>4, <1>5, <1>6 DEF KeptInv
<1>11. GoodUntilExpiry'
  <2>1. ASSUME NEW u \in Tickets, clock < issued[u], ~ Spent(u)' PROVE byID'[u] = issued[u]
    <3>1. ~ Spent(u) /\ ~ (u = t /\ ok)
      BY <1>6, <2>1
    <3>2. byID[u] = issued[u]
      BY <1>1, <2>1, <3>1 DEF TicketsHonoured, GoodUntilExpiry, Range, Spent
    <3>3. issued[u] \in Nat
      BY DEF TicketsTypeOK
    <3>4. Alive(u, now)
      BY <1>1, <2>1, <3>2, <3>3 DEF Alive
    <3>5. QED
      BY <1>4, <1>5, <3>1, <3>2, <3>4
  <2>2. QED
    BY <1>2, <2>1 DEF GoodUntilExpiry, Range, Spent
<1>12. NoneLeaks'
  BY <1>1, <1>2, <1>4, <1>5 DEF TicketsHonoured, NoneLeaks
<1>13. QED
  BY <1>6, <1>8, <1>9, <1>10, <1>11, <1>12 DEF TicketsHonoured, Redeemed

\* SET NX keeps a ticket that was never issued.
LEMMA PutRedisInv == ASSUME NEW c \in Calls, TicketsInv, putRedis(c) PROVE TicketsInv'
<1> USE TicketsAssumption DEF TicketsInv
<1> DEFINE t == call[c].ticket
<1>1. t \in Tickets /\ issued[t] = 0 /\ call[c].op = "put" /\ clock \in Nat /\ InRedis
  BY DEF putRedis, CallsInv, TicketsTypeOK
<1>2. /\ byID' = [byID EXCEPT ![t] = clock + TTL] /\ issued' = [issued EXCEPT ![t] = clock + TTL]
      /\ UNCHANGED <<InRedis, clock, order, admitted>>
  BY DEF putRedis
<1>3. /\ call' \in [Calls -> CallRecord] /\ call'[c].op = "idle"
      /\ \A d \in Calls : d # c => call'[d] = call[d]
  BY CallEnds DEF putRedis
<1>4. ~ Spent(t)
  BY <1>1 DEF KeptInv
<1>5. \A d \in Calls : d # c /\ call[d].op = "put" => call[d].ticket # t
  BY <1>1 DEF CallsInv
<1> HIDE DEF t
<1>6. clock + TTL \in Nat
  BY <1>1
<1>7. /\ byID'[t] = issued'[t]
      /\ \A u \in Tickets : u # t => byID'[u] = byID[u] /\ issued'[u] = issued[u]
  BY <1>1, <1>2 DEF TicketsTypeOK
<1>8. TicketsTypeOK'
  BY <1>1, <1>2, <1>3, <1>6 DEF TicketsTypeOK
<1>9. CallsInv'
  BY <1>2, <1>3, <1>5, <1>7 DEF CallsInv
<1>10. KeptInv'
  BY <1>2, <1>4, <1>7 DEF KeptInv, Spent
<1>11. RedeemedInTime'
  <2>1. \A r \in Range(admitted) : r.ticket \in Tickets /\ r.ticket # t
    <3>1. \A i \in DOMAIN admitted : admitted[i] \in [ticket : Tickets, at : Nat]
      BY SeqElement DEF TicketsTypeOK
    <3>2. QED
      BY <1>4, <3>1 DEF Range, Spent
  <2>2. QED
    BY <1>2, <1>7, <2>1 DEF TicketsHonoured, RedeemedInTime
<1>12. RedeemedOnce' /\ GoodUntilExpiry' /\ NoneLeaks'
  BY <1>1, <1>2 DEF TicketsHonoured, RedeemedOnce, GoodUntilExpiry, NoneLeaks
<1>13. QED
  BY <1>8, <1>9, <1>10, <1>11, <1>12 DEF TicketsHonoured

\* GETDEL forgets the ticket whether or not its answer arrives.
LEMMA TakeRedisInv == ASSUME NEW c \in Calls, TicketsInv, takeRedis(c) PROVE TicketsInv'
<1> USE TicketsAssumption DEF TicketsInv
<1> DEFINE t == call[c].ticket
<1>1. t \in Tickets /\ clock \in Nat /\ InRedis
  BY DEF takeRedis, CallsInv, TicketsTypeOK
<1>2. /\ byID' = [byID EXCEPT ![t] = 0] /\ UNCHANGED <<InRedis, clock, order, issued>>
      /\ \/ clock < byID[t] /\ admitted' = Append(admitted, [ticket |-> t, at |-> clock])
         \/ admitted' = admitted
  BY DEF takeRedis
<1>3. /\ call' \in [Calls -> CallRecord] /\ call'[c].op = "idle"
      /\ \A d \in Calls : d # c => call'[d] = call[d]
  BY CallEnds DEF takeRedis
<1> HIDE DEF t
<1>4. byID'[t] = 0 /\ \A u \in Tickets : u # t => byID'[u] = byID[u]
  BY <1>1, <1>2 DEF TicketsTypeOK
<1>5. /\ Redeemed' /\ admitted' \in Seq([ticket : Tickets, at : Nat])
      /\ \A u \in Tickets : Spent(u)' => Spent(u) \/ (u = t /\ issued[t] # 0)
  <2>1. CASE clock < byID[t] /\ admitted' = Append(admitted, [ticket |-> t, at |-> clock])
    <3>1. byID[t] # 0 /\ issued[t] # 0
      BY <1>1, <2>1 DEF KeptInv, TicketsTypeOK
    <3>2. QED
      BY <1>1, <1>2, <2>1, <3>1, RedeemedAppend, AdmittedAppend
  <2>2. CASE admitted' = admitted
    BY <1>2, <2>2 DEF TicketsHonoured, Redeemed, RedeemedOnce, RedeemedInTime, TicketsTypeOK, Spent
  <2>3. QED
    BY <1>2, <2>1, <2>2
<1>6. TicketsTypeOK'
  BY <1>2, <1>3, <1>5 DEF TicketsTypeOK
<1>7. CallsInv'
  BY <1>2, <1>3 DEF CallsInv
<1>8. KeptInv'
  BY <1>2, <1>4, <1>5 DEF KeptInv
<1>9. GoodUntilExpiry' /\ NoneLeaks'
  BY <1>1, <1>2 DEF GoodUntilExpiry, NoneLeaks
<1>10. QED
  BY <1>5, <1>6, <1>7, <1>8, <1>9 DEF TicketsHonoured, Redeemed

-----------------------------------------------------------------------------
\* Every step keeps the inductive invariant.
LEMMA TicketsNextInv == TicketsInv /\ [TicketsNext]_ticketVars => TicketsInv'
<1> SUFFICES ASSUME TicketsInv, [TicketsNext]_ticketVars PROVE TicketsInv'
  OBVIOUS
<1>1. CASE TicketsNext
  BY <1>1, TickInv, EnterInv, PutInv, TakeInv, PutRedisInv, TakeRedisInv DEF TicketsNext
<1>2. CASE UNCHANGED ticketVars
  BY <1>2 DEF ticketVars, TicketsInv, TicketsTypeOK, CallsInv, KeptInv, Spent, TicketsHonoured, RedeemedOnce, RedeemedInTime,
     GoodUntilExpiry, NoneLeaks
<1>3. QED
  BY <1>1, <1>2

\* A ticket opens one connection, never after its TTL; in memory it stays good
\* until then, and none is kept where expire will not find it: for any calls
\* that enter in any order of their clock readings.
THEOREM TicketsAreHonoured == TicketsSpec => []TicketsHonoured
<1>1. TicketsInit => TicketsInv
  BY TicketsInitInv
<1>2. TicketsInv /\ [TicketsNext]_ticketVars => TicketsInv'
  BY TicketsNextInv
<1>3. TicketsInv => TicketsHonoured
  BY DEF TicketsInv
<1>4. QED
  BY <1>1, <1>2, <1>3, PTL DEF TicketsSpec
=============================================================================
