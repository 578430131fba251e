---------------------------- MODULE OAuthSessions ----------------------------
(***************************************************************************)
(* OAuth sign-ins in flight: start, the provider's callback and exchange   *)
(* (oauth.go), with the session and code store of one process, an LRU      *)
(* whose entries expire (oauth_session.go).  A sign-in's session id, state *)
(* and code are random, so the sign-in's own name stands for them.  A      *)
(* browser keeps one session cookie and one binding cookie; its requests   *)
(* carry the cookies it held when it sent them, in any number of tabs.     *)
(* What a callback does to accounts is in Accounts.                        *)
(***************************************************************************)
EXTENDS Integers, Sequences, FiniteSets

CONSTANTS
  SignIns,      \* the sign-ins begun, in the order of their number: 1..n
  Browsers,
  Providers,
  Hits,         \* concurrent requests
  Capacity,     \* memoryCapacity
  SessionTTL,   \* oauthSessionTTL
  ExchangeTTL,  \* authCodeTTL
  MaxSpan       \* bound: the store's clock

ASSUME OAuthAssumption ==
  /\ SignIns = 1..Cardinality(SignIns) /\ "none" \notin Browsers
  /\ {Capacity, SessionTTL, ExchangeTTL, MaxSpan} \subseteq Nat \ {0}

VARIABLES
  span,       \* the clock
  lru,        \* the store: entries and their places in the order of use, the oldest at 1
  sessionOf,  \* browser -> the sign-in its session cookie names, 0 for none
  bindingOf,  \* browser -> the sign-in its binding cookie is for, 0 for none
  begun,      \* sign-in -> the browser, provider and purpose it was started with
  hit,        \* request -> where it is and what it carried
  completed,  \* sign-in -> callbacks that took its session and checked out
  traded      \* the tokens exchange issued: sign-in and browser, in order

oauthVars == <<span, lru, sessionOf, bindingOf, begun, hit, completed, traded>>

NotBegun == [browser |-> "none", provider |-> "none", linking |-> FALSE]
NoHit == [pc |-> "idle", browser |-> "none", provider |-> "none", carries |-> 0, names |-> 0]

OAuthInit ==
  /\ span = 0 /\ lru = {}
  /\ sessionOf = [b \in Browsers |-> 0] /\ bindingOf = [b \in Browsers |-> 0]
  /\ begun = [s \in SignIns |-> NotBegun]
  /\ hit = [h \in Hits |-> NoHit]
  /\ completed = [s \in SignIns |-> 0]
  /\ traded = <<>>

-----------------------------------------------------------------------------
(* memoryStore.  No key is put twice, so the order of use is that of put.  *)

Key(kind, s) == [kind |-> kind, signIn |-> s]
Good(kind, s) == \E e \in lru : e.key = Key(kind, s) /\ span <= e.expires

(* The entries that stay close up, in the order they were in.              *)
InOrder(kept) == {[e EXCEPT !.place = Cardinality({f \in kept : f.place <= e.place})] : e \in kept}

storePut(kind, s, ttl) ==
  LET kept == IF Cardinality(lru) >= Capacity THEN {e \in lru : e.place # 1} ELSE lru
  IN  lru' = InOrder(kept) \cup {[key |-> Key(kind, s), expires |-> span + ttl, place |-> Cardinality(kept) + 1]}

(* take removes the entry, expired or not.                                 *)
storeTake(kind, s) == lru' = InOrder({e \in lru : e.key # Key(kind, s)})

sweep ==
  /\ \E e \in lru : e.expires < span
  /\ lru' = InOrder({e \in lru : ~ e.expires < span})
  /\ UNCHANGED <<span, sessionOf, bindingOf, begun, hit, completed, traded>>

SpanPasses ==
  /\ span < MaxSpan
  /\ span' = span + 1
  /\ UNCHANGED <<lru, sessionOf, bindingOf, begun, hit, completed, traded>>

-----------------------------------------------------------------------------
(* Requests.                                                               *)

HitAt(h, pc) == hit[h].pc = pc
HitEnds(h) == hit' = [hit EXCEPT ![h] = NoHit]

(* handleBegin and handleLink, by start: the session is saved before the   *)
(* provider is asked for its URL.                                          *)
start(h, s, b, p, linking) ==
  /\ HitAt(h, "idle") /\ begun[s] = NotBegun /\ \A t \in SignIns : t < s => begun[t] # NotBegun
  /\ begun' = [begun EXCEPT ![s] = [browser |-> b, provider |-> p, linking |-> linking]]
  /\ storePut("session", s, SessionTTL)
  /\ hit' = [hit EXCEPT ![h] = [NoHit EXCEPT !.pc = "begins", !.browser = b, !.names = s]]
  /\ UNCHANGED <<span, sessionOf, bindingOf, completed, traded>>

BeginAuth(h) ==
  /\ HitAt(h, "begins")
  /\ \/ sessionOf' = [sessionOf EXCEPT ![hit[h].browser] = hit[h].names] /\ UNCHANGED lru
     \/ storeTake("session", hit[h].names) /\ UNCHANGED sessionOf
  /\ HitEnds(h)
  /\ UNCHANGED <<span, bindingOf, begun, completed, traded>>

(* The provider sends the browser back with the state of a sign-in that    *)
(* browser was sent away with, and the browser adds its session cookie.    *)
Return(h, b, s) ==
  /\ HitAt(h, "idle") /\ begun[s].browser = b /\ sessionOf[b] # 0
  /\ hit' = [hit EXCEPT ![h] = [pc |-> "callback", browser |-> b, provider |-> begun[s].provider,
                                carries |-> sessionOf[b], names |-> s]]
  /\ UNCHANGED <<span, lru, sessionOf, bindingOf, begun, completed, traded>>

(* handleCallback clears the cookie and takes the session; then a session  *)
(* of another provider or another state ends it, spent all the same.       *)
handleCallback(h) ==
  LET sid == hit[h].carries
      ok == Good("session", sid) /\ begun[sid].provider = hit[h].provider /\ hit[h].names = sid
  IN  /\ HitAt(h, "callback")
      /\ storeTake("session", sid)
      /\ sessionOf' = [sessionOf EXCEPT ![hit[h].browser] = 0]
      /\ IF ok THEN hit' = [hit EXCEPT ![h].pc = "completes"] /\ completed' = [completed EXCEPT ![sid] = @ + 1]
               ELSE HitEnds(h) /\ UNCHANGED completed
      /\ UNCHANGED <<span, bindingOf, begun, traded>>

(* CompleteAuth, then a link, which ends there, or resolve, which may      *)
(* refuse; a sign-in leaves its code and the binding cookie.               *)
CompleteAuth(h) ==
  LET s == hit[h].names
  IN  /\ HitAt(h, "completes")
      /\ \/ ~ begun[s].linking /\ storePut("code", s, ExchangeTTL)
            /\ bindingOf' = [bindingOf EXCEPT ![hit[h].browser] = s]
         \/ UNCHANGED <<lru, bindingOf>>
      /\ HitEnds(h)
      /\ UNCHANGED <<span, sessionOf, begun, completed, traded>>

(* The code travels in a URL, so any browser may come with it; without a   *)
(* binding cookie nothing is taken.                                        *)
SendExchange(h, b, s) ==
  /\ HitAt(h, "idle") /\ bindingOf[b] # 0 /\ completed[s] > 0
  /\ hit' = [hit EXCEPT ![h] = [NoHit EXCEPT !.pc = "exchange", !.browser = b, !.carries = bindingOf[b], !.names = s]]
  /\ UNCHANGED <<span, lru, sessionOf, bindingOf, begun, completed, traded>>

(* handleExchange takes the code, then compares the binding; the account   *)
(* may be gone or disabled by then.                                        *)
handleExchange_Unbound(h) ==
  LET s == hit[h].names
  IN  /\ HitAt(h, "exchange")
      /\ storeTake("code", s)
      /\ \/ /\ Good("code", s)
            /\ traded' = Append(traded, [signIn |-> s, browser |-> hit[h].browser])
            /\ bindingOf' = [bindingOf EXCEPT ![hit[h].browser] = 0]
         \/ UNCHANGED <<traded, bindingOf>>
      /\ HitEnds(h)
      /\ UNCHANGED <<span, sessionOf, begun, completed>>
handleExchange(h) ==
  LET s == hit[h].names
  IN  /\ HitAt(h, "exchange")
      /\ storeTake("code", s)
      /\ \/ /\ Good("code", s) /\ hit[h].carries = s
            /\ traded' = Append(traded, [signIn |-> s, browser |-> hit[h].browser])
            /\ bindingOf' = [bindingOf EXCEPT ![hit[h].browser] = 0]
         \/ UNCHANGED <<traded, bindingOf>>
      /\ HitEnds(h)
      /\ UNCHANGED <<span, sessionOf, begun, completed>>

OAuthNext ==
  \/ \E h \in Hits :
       \/ \E s \in SignIns, b \in Browsers, p \in Providers, linking \in BOOLEAN : start(h, s, b, p, linking)
       \/ \E s \in SignIns, b \in Browsers : Return(h, b, s) \/ SendExchange(h, b, s)
       \/ BeginAuth(h) \/ handleCallback(h) \/ CompleteAuth(h) \/ handleExchange(h)
  \/ sweep \/ SpanPasses

OAuthSpec == OAuthInit /\ [][OAuthNext]_oauthVars

-----------------------------------------------------------------------------
(* A session completes one callback and a code is traded for one token,    *)
(* whatever tabs, retries and double submissions race for them.            *)
UsedOnce ==
  /\ \A s \in SignIns : completed[s] <= 1
  /\ \A i, j \in DOMAIN traded : i # j => traded[i].signIn # traded[j].signIn

(* A token goes only to the browser that began the sign-in: neither a code *)
(* another browser has read off a URL nor a callback that meets another    *)
(* tab's session signs anyone in.                                          *)
SignedInWhereBegun ==
  \A i \in DOMAIN traded :
    LET s == traded[i].signIn IN begun[s].browser = traded[i].browser /\ ~ begun[s].linking

(* A sign-in ends once, in the browser it began in.                        *)
SignInsBound == UsedOnce /\ SignedInWhereBegun
=============================================================================
