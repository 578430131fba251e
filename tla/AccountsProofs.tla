--------------------------- MODULE AccountsProofs ---------------------------
(***************************************************************************)
(* Proofs about Accounts for any number of concurrent requests, any        *)
(* provider accounts, roles and settings.                                  *)
(***************************************************************************)
EXTENDS Accounts, FiniteSetTheorems, TLAPS

\* The row, a request and a token.
Row ==
  [exists : BOOLEAN, verified : BOOLEAN, assumed : BOOLEAN, password : Nat, has : BOOLEAN,
   pv : Nat, roles : SUBSET (OtherRoles \cup {"admin"}), active : BOOLEAN, version : Nat]
Request ==
  [pc : {"idle", "grant", "granted", "code", "link", "unlink", "refused", "reset", "mark"},
   op : {"none", "login", "code", "refresh", "change", "confirm", "link", "unlink"},
   copy : Row, tries : Nat, shown : Nat, via : {"none", "password", "provider", "code", "conflict"}]
Token == [pv : Nat, shown : Nat, via : {"none", "password", "provider", "code", "conflict"}]

\* A copy that will be written back, or acted on, is the row itself as long as
\* it has the row's version.
CopyOK(r, u) ==
  r.pc \in {"grant", "code"} => r.copy.version <= u.version /\ (r.copy.version = u.version => r.copy = u)

\* What a password opened shows the present password, or a password_version
\* that has passed.
PassOK(r, u) ==
  r.via = "password" =>
    /\ r.op \in {"login", "refresh"} /\ r.pc \in {"grant", "granted"}
    /\ r.copy.pv <= u.pv /\ (r.copy.pv = u.pv => r.shown = u.password)

\* Only a mailed code comes before there is an account.
VisitOK(r, u) == CopyOK(r, u) /\ PassOK(r, u) /\ (u.exists \/ r.pc \in {"idle", "code"})

\* An unlink holds the row's lock, and what it counted is still there.
LockInv ==
  \A v \in Visits :
    /\ visit[v].pc \in {"unlink", "refused"} => lock = v
    /\ visit[v].pc = "unlink" => user.has \/ \A a : links \ {a} # {}

RolesOK(u, set) ==
  u.roles \ {"admin"} = set \ {"admin"} /\ ("admin" \in u.roles => emailProven(u) \/ "admin" \in set)
TokensOK(u, ts) == \A t \in ts : t.pv = u.pv /\ (t.via = "password" => t.shown = u.password)

\* The inductive invariant.
AccountsInv ==
  /\ user \in Row /\ visit \in [Visits -> Request] /\ tokens \subseteq Token
  /\ ~ user.exists => user = Absent /\ tokens = {}
  /\ RolesOK(user, asked) /\ TokensOK(user, tokens)
  /\ \A v \in Visits : VisitOK(visit[v], user)
  /\ LockInv

-----------------------------------------------------------------------------
\* No account, no request.
LEMMA NoAccount == Absent \in Row /\ NoRequest \in Request /\ NoRequest.pc = "idle" /\ NoRequest.via = "none" /\ Absent.exists = FALSE
  BY DEF Absent, NoRequest, Row, Request

\* A request that has ended claims nothing.
LEMMA IdleOK == ASSUME NEW u PROVE VisitOK(NoRequest, u)
  BY NoAccount DEF VisitOK, CopyOK, PassOK

\* While the row's lock is free nobody unlinks.
LEMMA LockFree == ASSUME AccountsInv, lock = NoVisit PROVE \A v \in Visits : visit[v].pc \notin {"unlink", "refused"}
  BY AccountsAssumption DEF AccountsInv, LockInv, NoVisit

\* A request that changes while the row stays.
LEMMA RowStays ==
  ASSUME AccountsInv, UNCHANGED <<user, tokens, asked>>, NEW v \in Visits, NEW r \in Request,
         visit' = [visit EXCEPT ![v] = r], VisitOK(r, user), LockInv'
  PROVE  AccountsInv'
<1>1. visit' \in [Visits -> Request] /\ visit'[v] = r /\ \A w \in Visits : w # v => visit'[w] = visit[w]
  BY DEF AccountsInv
<1>2. \A w \in Visits : VisitOK(visit'[w], user')
  BY <1>1 DEF AccountsInv
<1>3. QED
  BY <1>1, <1>2 DEF AccountsInv

\* Locks are kept by a request that is elsewhere, and by links that are added.
LEMMA LockStays ==
  ASSUME AccountsInv, user'.has = user.has, lock' = lock, links \subseteq links', NEW v \in Visits, NEW r \in Request,
         visit' = [visit EXCEPT ![v] = r], r.pc \notin {"unlink", "refused"}
  PROVE  LockInv'
<1>1. visit'[v] = r /\ \A w \in Visits : w # v => visit'[w] = visit[w]
  BY DEF AccountsInv
<1>2. ASSUME NEW w \in Visits PROVE visit'[w].pc \in {"unlink", "refused"} => w # v /\ lock' = w
  BY <1>1 DEF AccountsInv, LockInv
<1>3. ASSUME NEW w \in Visits, visit'[w].pc = "unlink" PROVE user'.has \/ \A a : links' \ {a} # {}
  <2>1. visit[w].pc = "unlink"
    BY <1>1, <1>2, <1>3
  <2>2. user.has \/ \A a : links \ {a} # {}
    BY <2>1 DEF AccountsInv, LockInv
  <2>3. QED
    BY <2>2
<1>4. QED
  BY <1>2, <1>3 DEF LockInv

\* The row is written: its version moves on, every token of an earlier
\* password_version dies, and a password changes only with it.
LEMMA RowWritten ==
  ASSUME AccountsInv, Writable, NEW u \in Row, update(u), u.exists, u.version = user.version,
         user.pv <= u.pv, u.pv = user.pv => u.password = user.password,
         RolesOK(u, asked'), visit' \in [Visits -> Request],
         \A v \in Visits : visit'[v] = visit[v] \/ (VisitOK(visit'[v], user') /\ visit'[v].pc \notin {"unlink", "refused"})
  PROVE  AccountsInv'
<1>1. /\ user' \in Row /\ user'.version = user.version + 1 /\ user'.exists /\ user'.pv = u.pv /\ user'.password = u.password
      /\ user'.roles = u.roles /\ user'.verified = u.verified /\ user'.assumed = u.assumed
  BY DEF update, Row
<1>2. user \in Row /\ user.exists /\ lock = NoVisit
  BY DEF AccountsInv, Writable
<1>3. user.version \in Nat /\ user.pv \in Nat /\ u.pv \in Nat
  BY <1>2 DEF Row
<1>4. tokens' = {t \in tokens : t.pv = u.pv}
  BY DEF update
<1>5. TokensOK(user', tokens') /\ tokens' \subseteq Token
  BY <1>1, <1>4 DEF AccountsInv, TokensOK
<1>6. RolesOK(user', asked')
  BY <1>1 DEF RolesOK, emailProven
<1>7. ASSUME NEW v \in Visits PROVE VisitOK(visit[v], user')
  <2>1. visit[v] \in Request /\ visit[v].copy \in Row
    BY DEF AccountsInv, Request
  <2>2. visit[v].copy.version \in Nat /\ visit[v].copy.pv \in Nat
    BY <2>1 DEF Row
  <2>3. VisitOK(visit[v], user)
    BY DEF AccountsInv
  <2>4. CopyOK(visit[v], user')
    BY <1>1, <1>3, <2>2, <2>3 DEF VisitOK, CopyOK
  <2>5. PassOK(visit[v], user')
    <3>1. SUFFICES ASSUME visit[v].via = "password" PROVE visit[v].copy.pv <= u.pv /\ (visit[v].copy.pv = u.pv => visit[v].shown = u.password)
      BY <1>1, <2>3 DEF VisitOK, PassOK
    <3>2. visit[v].copy.pv <= user.pv /\ (visit[v].copy.pv = user.pv => visit[v].shown = user.password)
      BY <2>3, <3>1 DEF VisitOK, PassOK
    <3>3. QED
      BY <1>3, <2>2, <3>2
  <2>6. QED
    BY <1>1, <2>4, <2>5 DEF VisitOK
<1>8. \A v \in Visits : VisitOK(visit'[v], user')
  BY <1>7
<1>9. LockInv'
  BY <1>2, LockFree DEF LockInv
<1>10. QED
  BY <1>1, <1>5, <1>6, <1>8, <1>9 DEF AccountsInv

\* An account comes about: nobody holds anything of it yet.
LEMMA RowCreated ==
  ASSUME AccountsInv, ~ user.exists, UNCHANGED <<tokens, asked>>, NEW u \in Row, New(u), u.roles = {},
         visit' \in [Visits -> Request],
         \A v \in Visits : visit'[v] = visit[v] \/ (VisitOK(visit'[v], user') /\ visit'[v].pc \notin {"unlink", "refused"})
  PROVE  AccountsInv'
<1>1. user' \in Row /\ user'.exists /\ user'.version = 1 /\ user'.roles = {}
  BY DEF New, Row
<1>2. user = Absent /\ tokens = {}
  BY DEF AccountsInv
<1>3. user.version = 0 /\ user.roles = {} /\ user.exists = FALSE
  BY <1>2 DEF Absent
<1>4. RolesOK(user', asked')
  BY <1>1, <1>3 DEF AccountsInv, RolesOK
<1>5. ASSUME NEW v \in Visits PROVE visit[v].pc \in {"idle", "code"} /\ VisitOK(visit[v], user')
  <2>1. VisitOK(visit[v], user)
    BY DEF AccountsInv
  <2>2. visit[v].pc \in {"idle", "code"} /\ visit[v].via # "password"
    BY <1>3, <2>1 DEF VisitOK, PassOK
  <2>3. visit[v] \in Request /\ visit[v].copy \in Row
    BY DEF AccountsInv, Request
  <2>4. visit[v].copy.version \in Nat
    BY <2>3 DEF Row
  <2>5. CopyOK(visit[v], user')
    BY <1>1, <1>3, <2>1, <2>4 DEF VisitOK, CopyOK
  <2>6. QED
    BY <1>1, <2>2, <2>5 DEF VisitOK, PassOK
<1>6. \A v \in Visits : VisitOK(visit'[v], user') /\ visit'[v].pc \notin {"unlink", "refused"}
  BY <1>5
<1>7. QED
  BY <1>1, <1>2, <1>4, <1>6 DEF AccountsInv, LockInv, TokensOK

\* The row is written and keeps its roles; an address once proven stays proven.
LEMMA RowRewritten ==
  ASSUME AccountsInv, Writable, NEW u \in Row, update(u), u.exists = user.exists, u.version = user.version,
         u.roles = user.roles, user.verified => u.verified, u.assumed => user.assumed,
         user.pv <= u.pv, u.pv = user.pv => u.password = user.password,
         asked' = asked, visit' \in [Visits -> Request],
         \A v \in Visits : visit'[v] = visit[v] \/ (VisitOK(visit'[v], user') /\ visit'[v].pc \notin {"unlink", "refused"})
  PROVE  AccountsInv'
<1>1. RolesOK(u, asked')
  BY DEF AccountsInv, RolesOK, emailProven
<1>2. u.exists
  BY DEF Writable
<1>3. QED
  BY <1>1, <1>2, RowWritten

\* Links are added and nothing else happens.
LEMMA LinksGrow ==
  ASSUME AccountsInv, UNCHANGED <<user, tokens, asked, visit, lock>>, links \subseteq links' PROVE AccountsInv'
<1>1. ASSUME NEW v \in Visits, visit[v].pc = "unlink" PROVE user.has \/ \A a : links' \ {a} # {}
  <2>1. user.has \/ \A a : links \ {a} # {}
    BY <1>1 DEF AccountsInv, LockInv
  <2>2. QED
    BY <2>1
<1>2. LockInv'
  BY <1>1 DEF AccountsInv, LockInv
<1>3. QED
  BY <1>2 DEF AccountsInv

\* VisitEnds leaves every other request alone.
LEMMA VisitEndsOK ==
  ASSUME AccountsInv, NEW v \in Visits, VisitEnds(v)
  PROVE  /\ visit' \in [Visits -> Request]
         /\ \A w \in Visits : visit'[w] = visit[w] \/ (VisitOK(visit'[w], user') /\ visit'[w].pc \notin {"unlink", "refused"})
<1>1. visit' = [visit EXCEPT ![v] = NoRequest] /\ visit \in [Visits -> Request]
  BY DEF VisitEnds, AccountsInv
<1>2. VisitOK(NoRequest, user')
  BY IdleOK
<1>3. QED
  BY <1>1, <1>2, NoAccount

-----------------------------------------------------------------------------
(* One lemma per action.                                                   *)

\* Accounts come about.
LEMMA CreatedInv ==
  ASSUME AccountsInv, (\E vouched \in BOOLEAN : createUser(vouched)) \/ (\E a \in ProviderAccounts : resolveNew(a) \/ resolveAssumed(a))
  PROVE  AccountsInv'
<1>1. visit' = visit /\ visit' \in [Visits -> Request] /\ UNCHANGED <<tokens, asked>> /\ ~ user.exists
  BY DEF AccountsInv, createUser, resolveNew, resolveAssumed
<1>2. CASE \E vouched \in BOOLEAN : createUser(vouched)
  <2>1. PICK vouched \in BOOLEAN : createUser(vouched)
    BY <1>2
  <2> DEFINE u == [Absent EXCEPT !.verified = vouched, !.password = 1, !.has = TRUE]
  <2>2. u \in Row /\ u.roles = {}
    BY DEF Absent, Row
  <2>3. New(u)
    BY <2>1 DEF createUser
  <2> HIDE DEF u
  <2>4. QED
    BY <1>1, <2>2, <2>3, RowCreated
<1>3. CASE \E a \in ProviderAccounts : resolveNew(a) \/ resolveAssumed(a)
  <2> DEFINE p == [Absent EXCEPT !.verified = TRUE]
             q == [Absent EXCEPT !.verified = TRUE, !.assumed = TRUE]
  <2>1. p \in Row /\ p.roles = {} /\ q \in Row /\ q.roles = {}
    BY DEF Absent, Row
  <2>2. New(p) \/ New(q)
    BY <1>3 DEF resolveNew, resolveAssumed
  <2> HIDE DEF p, q
  <2>3. QED
    BY <1>1, <2>1, <2>2, RowCreated
<1>4. QED
  BY <1>2, <1>3

\* A mailed code makes an account.
LEMMA RegisterByCodeInv == ASSUME AccountsInv, NEW v \in Visits, registerByCode(v) PROVE AccountsInv'
<1> DEFINE u == [Absent EXCEPT !.verified = TRUE]
           r == [NoRequest EXCEPT !.pc = "grant", !.op = "code", !.via = "code", !.copy = user']
<1>1. u \in Row /\ u.roles = {}
  BY DEF Absent, Row
<1>2. New(u) /\ ~ user.exists /\ UNCHANGED <<tokens, asked>> /\ visit' = [visit EXCEPT ![v] = r]
  BY DEF registerByCode
<1>3. user' \in Row /\ user'.exists
  BY <1>1, <1>2 DEF New, Row
<1>4. r \in Request /\ r.pc = "grant" /\ r.via = "code" /\ r.copy = user'
  BY <1>3 DEF NoRequest, Request
<1> HIDE DEF u, r
<1>5. user'.version <= user'.version
  BY <1>3 DEF Row
<1>6. VisitOK(r, user')
  BY <1>3, <1>4, <1>5 DEF VisitOK, CopyOK, PassOK
<1>7. visit' \in [Visits -> Request] /\ \A w \in Visits : visit'[w] = visit[w] \/ (VisitOK(visit'[w], user') /\ visit'[w].pc \notin {"unlink", "refused"})
  BY <1>2, <1>4, <1>6 DEF AccountsInv
<1>8. QED
  BY <1>1, <1>2, <1>7, RowCreated

\* A provider's account joins the row of its address.
LEMMA ResolveJoinInv == ASSUME AccountsInv, NEW a, resolveJoin(a) PROVE AccountsInv'
<1>1. UNCHANGED <<lock, visit, asked>> /\ visit' \in [Visits -> Request] /\ user \in Row
  BY DEF resolveJoin, AccountsInv
<1>2. CASE user.assumed
  <2> DEFINE u == [user EXCEPT !.pv = @ + 1, !.assumed = FALSE, !.has = FALSE, !.password = IF user.has THEN 0 ELSE @]
  <2>1. Writable /\ update(u)
    BY <1>2 DEF resolveJoin
  <2>2. user.pv \in Nat /\ user.password \in Nat /\ user.pv + 1 \in Nat /\ (IF user.has THEN 0 ELSE user.password) \in Nat
    BY <1>1 DEF Row
  <2>3. /\ u \in Row /\ u.exists = user.exists /\ u.version = user.version /\ u.roles = user.roles /\ u.verified = user.verified
        /\ u.assumed = FALSE /\ u.pv = user.pv + 1
    BY <1>1, <2>2 DEF Row
  <2> HIDE DEF u
  <2>4. user.pv <= u.pv /\ u.pv # user.pv
    BY <2>2, <2>3
  <2>5. QED
    BY <1>1, <2>1, <2>3, <2>4, RowRewritten
<1>3. CASE ~ user.assumed
  BY <1>1, <1>3, LinksGrow DEF resolveJoin
<1>4. QED
  BY <1>2, <1>3

\* A request begins with a copy of the row.
LEMMA BeginInv ==
  ASSUME AccountsInv, NEW v \in Visits, NEW op \in {"login", "code", "refresh", "change", "confirm", "link", "unlink"}, NEW shown \in Nat,
         NEW via \in {"none", "password", "provider", "code", "conflict"}, NEW copy \in Row, UNCHANGED <<user, links, lock, tokens, asked>>,
         Begin(v, op, copy, shown, via), user.exists,
         copy.version <= user.version, copy.version = user.version => copy = user,
         via = "password" => op \in {"login", "refresh"} /\ copy = user /\ shown = user.password
  PROVE  AccountsInv'
<1> DEFINE r == [NoRequest EXCEPT !.pc = "grant", !.op = op, !.copy = copy, !.shown = shown, !.via = via]
<1>1. r \in Request /\ r.pc = "grant" /\ r.op = op /\ r.copy = copy /\ r.shown = shown /\ r.via = via
  BY DEF NoRequest, Request
<1>2. visit' = [visit EXCEPT ![v] = r]
  BY DEF Begin
<1> HIDE DEF r
<1>3. user.pv <= user.pv
  BY DEF AccountsInv, Row
<1>4. VisitOK(r, user)
  BY <1>1, <1>3 DEF VisitOK, CopyOK, PassOK
<1>5. LockInv'
  BY <1>1, <1>2, LockStays
<1>6. QED
  BY <1>1, <1>2, <1>4, <1>5, RowStays

\* login, exchange and authenticate.
LEMMA SignInInv ==
  ASSUME AccountsInv, NEW v \in Visits,
         login(v) \/ exchange(v) \/ \E t \in tokens, op \in {"refresh", "change", "confirm", "link", "unlink"} : authenticate(v, t, op)
  PROVE  AccountsInv'
<1>1. user \in Row /\ user.version <= user.version /\ user.password \in Nat
  BY DEF AccountsInv, Row
<1>2. user.exists /\ UNCHANGED <<user, links, lock, tokens, asked>>
  BY DEF login, exchange, authenticate
<1>3. CASE login(v)
  BY <1>1, <1>2, <1>3, BeginInv DEF login
<1>4. CASE exchange(v)
  BY <1>1, <1>2, <1>4, BeginInv DEF exchange
<1>5. ASSUME NEW t \in tokens, NEW op \in {"refresh", "change", "confirm", "link", "unlink"}, authenticate(v, t, op) PROVE AccountsInv'
  <2>1. t \in Token /\ t.pv = user.pv /\ (t.via = "password" => t.shown = user.password)
    BY <1>5 DEF AccountsInv, TokensOK
  <2>2. t.shown \in Nat /\ t.via \in {"none", "password", "provider", "code", "conflict"}
    BY <2>1 DEF Token
  <2>3. CASE op = "refresh"
    <3>1. Begin(v, "refresh", user, t.shown, t.via)
      BY <1>5, <2>3 DEF authenticate
    <3>2. QED
      BY <1>1, <1>2, <2>1, <2>2, <3>1, BeginInv
  <2>4. CASE op # "refresh"
    <3>1. Begin(v, op, user, 0, "none")
      BY <1>5, <2>4 DEF authenticate
    <3>2. op \in {"login", "code", "refresh", "change", "confirm", "link", "unlink"}
      OBVIOUS
    <3>3. QED
      BY <1>1, <1>2, <3>1, <3>2, BeginInv
  <2>5. QED
    BY <2>3, <2>4
<1>6. QED
  BY <1>3, <1>4, <1>5

\* A mailed code has been spent.
LEMMA CodeSpentInv == ASSUME AccountsInv, NEW v \in Visits, CodeSpent(v) PROVE AccountsInv'
<1> DEFINE r == [NoRequest EXCEPT !.pc = "code", !.op = "code", !.copy = user]
<1>1. user \in Row /\ user.version <= user.version
  BY DEF AccountsInv, Row
<1>2. r \in Request /\ r.pc = "code" /\ r.copy = user /\ r.via = "none"
  BY <1>1 DEF NoRequest, Request
<1>3. visit' = [visit EXCEPT ![v] = r] /\ UNCHANGED <<user, links, lock, tokens, asked>>
  BY DEF CodeSpent
<1> HIDE DEF r
<1>4. VisitOK(r, user)
  BY <1>1, <1>2 DEF VisitOK, CopyOK, PassOK
<1>5. LockInv'
  BY <1>2, <1>3, LockStays
<1>6. QED
  BY <1>2, <1>3, <1>4, <1>5, RowStays

\* A request is replaced in a step that writes the row.
LEMMA RequestReplaced ==
  ASSUME AccountsInv, NEW v \in Visits, NEW r \in Request, visit' = [visit EXCEPT ![v] = r],
         VisitOK(r, user'), r.pc \notin {"unlink", "refused"}
  PROVE  /\ visit' \in [Visits -> Request]
         /\ \A w \in Visits : visit'[w] = visit[w] \/ (VisitOK(visit'[w], user') /\ visit'[w].pc \notin {"unlink", "refused"})
  BY DEF AccountsInv

\* What takeOver writes: the address is proven, and every token dies.
LEMMA TakenOver ==
  ASSUME NEW copy, user \in Row, takeOver(copy)
  PROVE  \E u \in Row :
           /\ update(u) /\ u.exists = user.exists /\ u.version = user.version /\ u.roles = user.roles
           /\ u.verified /\ ~ u.assumed /\ u.pv = user.pv + 1
<1> DEFINE t == [user EXCEPT !.pv = @ + 1]
           w == IF copy.has THEN [t EXCEPT !.password = 0, !.has = FALSE] ELSE t
           u == [w EXCEPT !.verified = TRUE, !.assumed = FALSE]
<1>1. update(u)
  BY DEF takeOver, verifyEmail
<1>2. t \in Row /\ t.exists = user.exists /\ t.version = user.version /\ t.roles = user.roles /\ t.pv = user.pv + 1
  BY DEF Row
<1> HIDE DEF t
<1>3. w \in Row /\ w.exists = t.exists /\ w.version = t.version /\ w.roles = t.roles /\ w.pv = t.pv
  <2>1. CASE copy.has
    BY <1>2, <2>1 DEF Row
  <2>2. CASE ~ copy.has
    BY <1>2, <2>2 DEF Row
  <2>3. QED
    BY <2>1, <2>2
<1> HIDE DEF w
<1>4. u \in Row /\ u.exists = w.exists /\ u.version = w.version /\ u.roles = w.roles /\ u.pv = w.pv /\ u.verified /\ ~ u.assumed
  BY <1>3 DEF Row
<1> HIDE DEF u
<1>5. QED
  BY <1>1, <1>2, <1>3, <1>4

\* A mailed code signs in, and takes an unproven address over.
LEMMA CodeSignsInInv == ASSUME AccountsInv, NEW v \in Visits, codeSignsIn(v) PROVE AccountsInv'
<1> DEFINE copy == IF visit[v].copy.exists THEN visit[v].copy ELSE user
<1>1. visit[v].pc = "code" /\ user.exists /\ UNCHANGED <<lock, asked>> /\ user \in Row /\ visit[v] \in Request
  BY DEF codeSignsIn, VisitAt, AccountsInv
<1>2. user.version \in Nat /\ user.pv \in Nat /\ visit[v].copy \in Row
  BY <1>1 DEF Row, Request
<1>3. CopyOK(visit[v], user)
  BY DEF AccountsInv, VisitOK
<1>4. copy \in Row /\ copy.version <= user.version /\ (copy.version = user.version => copy = user)
  BY <1>1, <1>2, <1>3 DEF CopyOK
<1>5. IF emailProven(copy)
      THEN Begin(v, "code", copy, 0, "code") /\ UNCHANGED <<user, links, tokens>>
      ELSE Writable /\ takeOver(copy) /\ Begin(v, "code", user', 0, "code")
  BY DEF codeSignsIn
<1> HIDE DEF copy
<1>6. CASE emailProven(copy)
  <2>1. Begin(v, "code", copy, 0, "code") /\ UNCHANGED <<user, links, lock, tokens, asked>>
    BY <1>1, <1>5, <1>6
  <2>2. QED
    BY <1>1, <1>4, <2>1, BeginInv
<1>7. CASE ~ emailProven(copy)
  <2>1. Writable /\ takeOver(copy) /\ Begin(v, "code", user', 0, "code")
    BY <1>5, <1>7
  <2>2. PICK u \in Row :
           /\ update(u) /\ u.exists = user.exists /\ u.version = user.version /\ u.roles = user.roles
           /\ u.verified /\ ~ u.assumed /\ u.pv = user.pv + 1
    BY <1>1, <2>1, TakenOver
  <2>3. user' \in Row /\ user'.exists
    <3>1. user' = [u EXCEPT !.version = @ + 1] /\ u.exists
      BY <1>1, <2>2 DEF update
    <3>2. QED
      BY <3>1 DEF Row
  <2>4. user'.version <= user'.version
    BY <2>3 DEF Row
  <2> DEFINE r == [NoRequest EXCEPT !.pc = "grant", !.op = "code", !.copy = user', !.shown = 0, !.via = "code"]
  <2>5. r \in Request /\ r.pc = "grant" /\ r.copy = user' /\ r.via = "code"
    BY <2>3 DEF NoRequest, Request
  <2>6. visit' = [visit EXCEPT ![v] = r]
    BY <2>1 DEF Begin
  <2> HIDE DEF r
  <2>7. VisitOK(r, user')
    BY <2>3, <2>4, <2>5 DEF VisitOK, CopyOK, PassOK
  <2>8. /\ visit' \in [Visits -> Request]
        /\ \A w \in Visits : visit'[w] = visit[w] \/ (VisitOK(visit'[w], user') /\ visit'[w].pc \notin {"unlink", "refused"})
    BY <2>5, <2>6, <2>7, RequestReplaced
  <2>9. user.pv <= u.pv /\ u.pv # user.pv
    BY <1>2, <2>2
  <2>10. QED
    BY <1>1, <2>1, <2>2, <2>8, <2>9, RowRewritten
<1>8. QED
  BY <1>6, <1>7

\* What is left of a request past grantAdmin.
LEMMA GrantedOK ==
  ASSUME AccountsInv, NEW v \in Visits, NEW u \in Row, NEW w \in Row, visit[v].pc = "grant", Granted(v, u), w.exists,
         visit[v].via = "password" => u.pv <= w.pv /\ (u.pv = w.pv => visit[v].shown = w.password)
  PROVE  \E r \in Request : visit' = [visit EXCEPT ![v] = r] /\ r.pc = "granted" /\ VisitOK(r, w)
<1> DEFINE needed == CASE visit[v].op \in {"login", "code", "refresh"} -> [Absent EXCEPT !.pv = u.pv]
                       [] visit[v].op = "change" -> [Absent EXCEPT !.has = u.has]
                       [] visit[v].op = "confirm" -> [Absent EXCEPT !.verified = emailProven(u)]
                       [] OTHER -> Absent
           r == [visit[v] EXCEPT !.pc = "granted", !.tries = 0, !.copy = needed]
<1>1. visit' = [visit EXCEPT ![v] = r]
  BY DEF Granted
<1>2. visit[v] \in Request /\ PassOK(visit[v], user)
  BY DEF AccountsInv, VisitOK
<1>3. needed \in Row /\ (visit[v].op \in {"login", "refresh"} => needed.pv = u.pv)
  <2>1. u.pv \in Nat /\ u.has \in BOOLEAN /\ emailProven(u) \in BOOLEAN
    BY DEF Row, emailProven
  <2>2. CASE visit[v].op \in {"login", "code", "refresh"}
    <3>1. needed = [Absent EXCEPT !.pv = u.pv]
      BY <2>2
    <3>2. QED
      BY <2>1, <3>1 DEF Absent, Row
  <2>3. CASE visit[v].op = "change"
    <3>1. needed = [Absent EXCEPT !.has = u.has]
      BY <2>3
    <3>2. QED
      BY <2>1, <2>3, <3>1 DEF Absent, Row
  <2>4. CASE visit[v].op = "confirm"
    <3>1. needed = [Absent EXCEPT !.verified = emailProven(u)]
      BY <2>4
    <3>2. QED
      BY <2>1, <2>4, <3>1 DEF Absent, Row
  <2>5. CASE visit[v].op \notin {"login", "code", "refresh", "change", "confirm"}
    <3>1. needed = Absent
      BY <2>5
    <3>2. QED
      BY <2>5, <3>1, NoAccount
  <2>6. QED
    BY <2>2, <2>3, <2>4, <2>5
<1> HIDE DEF needed
<1>4. /\ r \in Request /\ r.pc = "granted" /\ r.copy = needed /\ r.via = visit[v].via /\ r.op = visit[v].op /\ r.shown = visit[v].shown
  BY <1>2, <1>3 DEF Request
<1> HIDE DEF r
<1>5. PassOK(r, w)
  BY <1>2, <1>3, <1>4 DEF PassOK
<1>6. VisitOK(r, w)
  BY <1>4, <1>5 DEF VisitOK, CopyOK
<1>7. QED
  BY <1>1, <1>4, <1>6

\* grantAdmin is over, with nothing granted.
LEMMA GrantEndsInv == ASSUME AccountsInv, NEW v \in Visits, GrantEnds(v) PROVE AccountsInv'
<1>1. visit[v].pc = "grant" /\ Granted(v, visit[v].copy) /\ UNCHANGED <<user, links, lock, tokens, asked>>
  BY DEF GrantEnds, VisitAt
<1>2. visit[v] \in Request /\ VisitOK(visit[v], user) /\ user \in Row
  BY DEF AccountsInv
<1>3. visit[v].copy \in Row
  BY <1>2 DEF Request
<1>4. user.exists /\ (visit[v].via = "password" => visit[v].copy.pv <= user.pv /\ (visit[v].copy.pv = user.pv => visit[v].shown = user.password))
  BY <1>1, <1>2 DEF VisitOK, PassOK
<1>5. PICK r \in Request : visit' = [visit EXCEPT ![v] = r] /\ r.pc = "granted" /\ VisitOK(r, user)
  BY <1>1, <1>2, <1>3, <1>4, GrantedOK
<1>6. LockInv'
  BY <1>1, <1>5, LockStays
<1>7. QED
  BY <1>1, <1>5, <1>6, RowStays

\* grantAdmin writes the roles it read only over the row it read.
LEMMA GrantAdminInv == ASSUME AccountsInv, NEW v \in Visits, grantAdmin(v) PROVE AccountsInv'
<1> DEFINE copy == visit[v].copy
<1>1. visit[v].pc = "grant" /\ Writable /\ UNCHANGED <<links, lock, asked>> /\ emailProven(copy)
  BY DEF grantAdmin, VisitAt, Grants
<1>2. visit[v] \in Request /\ VisitOK(visit[v], user) /\ user \in Row
  BY DEF AccountsInv
<1>3. copy \in Row /\ user.exists /\ user.pv \in Nat /\ user.version \in Nat
  BY <1>1, <1>2 DEF Request, Row, Writable
<1>4. CASE user.version = copy.version
  <2> DEFINE u == [user EXCEPT !.roles = copy.roles \cup {"admin"}]
  <2>1. copy = user
    BY <1>1, <1>2, <1>4 DEF VisitOK, CopyOK
  <2>2. update(u) /\ Granted(v, user')
    BY <1>4 DEF grantAdmin
  <2>3. user.roles \in SUBSET (OtherRoles \cup {"admin"})
    BY <1>2 DEF Row
  <2>4. user.roles \cup {"admin"} \in SUBSET (OtherRoles \cup {"admin"})
    BY <2>3
  <2>5. /\ u \in Row /\ u.exists = user.exists /\ u.version = user.version /\ u.pv = user.pv /\ u.password = user.password
        /\ u.roles = user.roles \cup {"admin"} /\ u.verified = user.verified /\ u.assumed = user.assumed
    BY <1>2, <2>1, <2>4 DEF Row
  <2> HIDE DEF u
  <2>6. RolesOK(u, asked')
    <3>1. RolesOK(user, asked) /\ emailProven(user)
      BY <1>1, <2>1 DEF AccountsInv
    <3>2. u.roles \ {"admin"} = user.roles \ {"admin"} /\ emailProven(u)
      BY <2>5, <3>1 DEF emailProven
    <3>3. QED
      BY <1>1, <3>1, <3>2 DEF RolesOK
  <2>7. user' \in Row /\ user'.exists /\ user'.pv = user.pv /\ user'.password = user.password
    <3>1. user' = [u EXCEPT !.version = @ + 1]
      BY <2>2 DEF update
    <3>2. u \in Row /\ u.exists /\ u.pv = user.pv /\ u.password = user.password
      BY <1>3, <2>5
    <3>3. QED
      BY <3>1, <3>2 DEF Row
  <2>8. visit[v].via = "password" => visit[v].shown = user.password
    BY <1>2, <2>1 DEF VisitOK, PassOK
  <2>9. visit[v].via = "password" => user'.pv <= user'.pv /\ (user'.pv = user'.pv => visit[v].shown = user'.password)
    BY <1>3, <2>7, <2>8
  <2>10. PICK r \in Request : visit' = [visit EXCEPT ![v] = r] /\ r.pc = "granted" /\ VisitOK(r, user')
    BY <1>1, <2>2, <2>7, <2>9, GrantedOK
  <2>11. /\ visit' \in [Visits -> Request]
         /\ \A w \in Visits : visit'[w] = visit[w] \/ (VisitOK(visit'[w], user') /\ visit'[w].pc \notin {"unlink", "refused"})
    BY <2>10, RequestReplaced
  <2>12. u.exists /\ user.pv <= u.pv
    BY <1>3, <2>5
  <2>13. QED
    BY <1>1, <2>2, <2>5, <2>6, <2>11, <2>12, RowWritten
<1>5. CASE user.version # copy.version
  <2> DEFINE r == [visit[v] EXCEPT !.copy = user, !.tries = @ + 1, !.via = "conflict"]
  <2>1. visit' = [visit EXCEPT ![v] = r] /\ UNCHANGED <<user, tokens>>
    BY <1>5 DEF grantAdmin
  <2>2. r \in Request /\ r.pc = "grant" /\ r.copy = user /\ r.via = "conflict"
    <3>1. visit[v].tries \in Nat /\ visit[v].tries + 1 \in Nat
      BY <1>2 DEF Request
    <3>2. QED
      BY <1>1, <1>2, <3>1 DEF Request
  <2> HIDE DEF r
  <2>3. user.version <= user.version
    BY <1>3
  <2>4. VisitOK(r, user)
    BY <1>3, <2>2, <2>3 DEF VisitOK, CopyOK, PassOK
  <2>5. LockInv'
    BY <1>1, <2>1, <2>2, LockStays
  <2>6. QED
    BY <1>1, <2>1, <2>2, <2>4, <2>5, RowStays
<1>6. QED
  BY <1>4, <1>5

\* A token is issued with the password_version of the copy.
LEMMA IssueTokenInv == ASSUME AccountsInv, NEW v \in Visits, issueToken(v) PROVE AccountsInv'
<1> DEFINE new == [pv |-> visit[v].copy.pv, shown |-> visit[v].shown, via |-> visit[v].via]
<1>1. /\ visit[v].pc = "granted" /\ visit' = [visit EXCEPT ![v] = NoRequest] /\ UNCHANGED <<user, links, lock, asked>>
      /\ tokens' = tokens \cup {t \in {new} : t.pv = user.pv}
  BY DEF issueToken, VisitAt, VisitEnds
<1>2. visit[v] \in Request /\ VisitOK(visit[v], user) /\ user \in Row
  BY DEF AccountsInv
<1>3. visit[v].copy \in Row
  BY <1>2 DEF Request
<1>4. new \in Token /\ (new.pv = user.pv => (new.via = "password" => new.shown = user.password))
  <2>1. new \in Token
    BY <1>2, <1>3 DEF Token, Request, Row
  <2>2. visit[v].via = "password" => (visit[v].copy.pv = user.pv => visit[v].shown = user.password)
    BY <1>2 DEF VisitOK, PassOK
  <2>3. new.pv = visit[v].copy.pv /\ new.shown = visit[v].shown /\ new.via = visit[v].via
    OBVIOUS
  <2>4. QED
    BY <2>1, <2>2, <2>3
<1> HIDE DEF new
<1>5. TokensOK(user', tokens') /\ tokens' \subseteq Token
  BY <1>1, <1>4 DEF AccountsInv, TokensOK
<1>6. user.exists
  BY <1>1, <1>2 DEF VisitOK
<1>7. LockInv'
  BY <1>1, NoAccount, LockStays
<1>8. visit' \in [Visits -> Request] /\ \A w \in Visits : VisitOK(visit'[w], user')
  BY <1>1, NoAccount, IdleOK DEF AccountsInv
<1>9. QED
  BY <1>1, <1>5, <1>6, <1>7, <1>8 DEF AccountsInv

\* A new password moves password_version on.
LEMMA PasswordColumns ==
  ASSUME user \in Row
  PROVE  LET u == passwordColumns(user)
         IN  /\ u \in Row /\ u.exists = user.exists /\ u.version = user.version /\ u.roles = user.roles
             /\ u.verified = user.verified /\ u.assumed = user.assumed /\ u.pv = user.pv + 1
             /\ user.pv <= u.pv /\ u.pv # user.pv
<1>1. user.pv \in Nat /\ user.version \in Nat /\ user.pv + 1 \in Nat /\ user.version + 1 \in Nat
  BY DEF Row
<1>2. user.pv <= user.pv + 1 /\ user.pv + 1 # user.pv
  BY <1>1
<1>3. QED
  BY <1>1, <1>2 DEF passwordColumns, Row

\* changePassword and ResetPassword.
LEMMA ChangePasswordInv == ASSUME AccountsInv, (\E v \in Visits : changePassword(v)) \/ ResetPassword PROVE AccountsInv'
<1>1. Writable /\ update(passwordColumns(user)) /\ asked' = asked /\ user \in Row
  BY DEF changePassword, ResetPassword, AccountsInv
<1>2. /\ visit' \in [Visits -> Request]
      /\ \A w \in Visits : visit'[w] = visit[w] \/ (VisitOK(visit'[w], user') /\ visit'[w].pc \notin {"unlink", "refused"})
  <2>1. CASE \E v \in Visits : changePassword(v)
    BY <2>1, VisitEndsOK DEF changePassword
  <2>2. CASE ResetPassword
    BY <2>2 DEF ResetPassword, AccountsInv
  <2>3. QED
    BY <2>1, <2>2
<1>3. QED
  BY <1>1, <1>2, PasswordColumns, RowRewritten

\* confirmEmail keeps the passwords and the tokens.
LEMMA ConfirmEmailInv == ASSUME AccountsInv, NEW v \in Visits, confirmEmail(v) PROVE AccountsInv'
<1>1. Writable /\ UNCHANGED <<links, lock, asked>> /\ VisitEnds(v) /\ user \in Row
  BY DEF confirmEmail, AccountsInv
<1>2. /\ visit' \in [Visits -> Request]
      /\ \A w \in Visits : visit'[w] = visit[w] \/ (VisitOK(visit'[w], user') /\ visit'[w].pc \notin {"unlink", "refused"})
  BY <1>1, VisitEndsOK
<1>3. CASE emailProven(visit[v].copy)
  <2>1. UNCHANGED <<user, tokens>> /\ visit' = [visit EXCEPT ![v] = NoRequest]
    BY <1>1, <1>3 DEF confirmEmail, VisitEnds
  <2>2. LockInv'
    BY <1>1, <2>1, NoAccount, LockStays
  <2>3. QED
    BY <1>1, <2>1, <2>2, NoAccount, IdleOK, RowStays
<1>4. CASE ~ emailProven(visit[v].copy)
  <2> DEFINE u == [user EXCEPT !.verified = TRUE, !.assumed = FALSE]
  <2>1. update(u)
    BY <1>4 DEF confirmEmail
  <2>2. /\ u \in Row /\ u.exists = user.exists /\ u.version = user.version /\ u.roles = user.roles
        /\ u.verified /\ ~ u.assumed /\ u.pv = user.pv /\ u.password = user.password
    BY <1>1 DEF Row
  <2> HIDE DEF u
  <2>3. user.pv <= u.pv
    BY <1>1, <2>2 DEF Row
  <2>4. QED
    BY <1>1, <1>2, <2>1, <2>2, <2>3, RowRewritten
<1>5. QED
  BY <1>3, <1>4

\* A request moves on to a place where it claims nothing but an account.
LEMMA MovesOnInv ==
  ASSUME AccountsInv, NEW v \in Visits, NEW r \in Request, visit' = [visit EXCEPT ![v] = r], user.exists,
         r.pc \in {"link", "reset", "mark"}, r.via # "password", UNCHANGED <<user, links, lock, tokens, asked>>
  PROVE  AccountsInv'
<1>1. VisitOK(r, user)
  BY DEF VisitOK, CopyOK, PassOK
<1>2. LockInv'
  BY LockStays
<1>3. QED
  BY <1>1, <1>2, RowStays

\* link's transaction reads the row; resetPassword checks its token.
LEMMA ReadsInv == ASSUME AccountsInv, NEW v \in Visits, LinkBegins(v) \/ ResetChecks(v) PROVE AccountsInv'
<1>1. UNCHANGED <<user, links, lock, tokens, asked>> /\ user \in Row /\ visit[v] \in Request /\ VisitOK(visit[v], user)
  BY DEF LinkBegins, ResetChecks, AccountsInv
<1>2. CASE LinkBegins(v)
  <2> DEFINE copy == [Absent EXCEPT !.assumed = user.assumed]
             r == [visit[v] EXCEPT !.pc = "link", !.copy = copy]
  <2>1. visit' = [visit EXCEPT ![v] = r] /\ visit[v].pc = "granted" /\ visit[v].op = "link"
    BY <1>2 DEF LinkBegins, VisitAt
  <2>2. copy \in Row
    BY <1>1 DEF Absent, Row
  <2> HIDE DEF copy
  <2>3. r \in Request /\ r.pc = "link" /\ r.via = visit[v].via
    BY <1>1, <2>2 DEF Request
  <2> HIDE DEF r
  <2>4. visit[v].via # "password" /\ user.exists
    BY <1>1, <2>1 DEF VisitOK, PassOK
  <2>5. QED
    BY <1>1, <2>1, <2>3, <2>4, MovesOnInv
<1>3. CASE ResetChecks(v)
  <2> DEFINE copy == [Absent EXCEPT !.verified = emailProven(user)]
             r == [NoRequest EXCEPT !.pc = "reset", !.copy = copy]
  <2>1. visit' = [visit EXCEPT ![v] = r] /\ user.exists
    BY <1>3 DEF ResetChecks
  <2>2. emailProven(user) \in BOOLEAN
    BY <1>1 DEF emailProven, Row
  <2>3. copy \in Row
    BY <2>2 DEF Absent, Row
  <2> HIDE DEF copy
  <2>4. r \in Request /\ r.pc = "reset" /\ r.via = "none"
    BY <2>3 DEF NoRequest, Request
  <2> HIDE DEF r
  <2>5. QED
    BY <1>1, <2>1, <2>4, MovesOnInv
<1>4. QED
  BY <1>2, <1>3

\* A provider is linked, and proves the address when it states it.
LEMMA LinkInv == ASSUME AccountsInv, NEW v \in Visits, NEW a, link(v, a) PROVE AccountsInv'
<1>1. UNCHANGED <<lock, asked>> /\ VisitEnds(v) /\ links' = links \cup {a} /\ user \in Row
  BY DEF link, AccountsInv
<1>2. /\ visit' \in [Visits -> Request]
      /\ \A w \in Visits : visit'[w] = visit[w] \/ (VisitOK(visit'[w], user') /\ visit'[w].pc \notin {"unlink", "refused"})
  BY <1>1, VisitEndsOK
<1>3. CASE visit[v].copy.assumed /\ a \in Stating
  <2> DEFINE u == [user EXCEPT !.assumed = FALSE]
  <2>1. Writable /\ update(u)
    BY <1>3 DEF link
  <2>2. /\ u \in Row /\ u.exists = user.exists /\ u.version = user.version /\ u.roles = user.roles
        /\ u.verified = user.verified /\ ~ u.assumed /\ u.pv = user.pv /\ u.password = user.password
    BY <1>1 DEF Row
  <2> HIDE DEF u
  <2>3. user.pv <= u.pv
    BY <1>1, <2>2 DEF Row
  <2>4. QED
    BY <1>1, <1>2, <2>1, <2>2, <2>3, RowRewritten
<1>4. CASE ~ (visit[v].copy.assumed /\ a \in Stating)
  <2>1. UNCHANGED <<user, tokens>> /\ visit' = [visit EXCEPT ![v] = NoRequest]
    BY <1>1, <1>4 DEF link, VisitEnds
  <2>2. LockInv'
    BY <1>1, <2>1, NoAccount, LockStays
  <2>3. QED
    BY <1>1, <2>1, <2>2, NoAccount, IdleOK, RowStays
<1>5. QED
  BY <1>3, <1>4

\* More than one way in leaves one when a link goes.
LEMMA OneLeft ==
  ASSUME NEW S, NEW has \in BOOLEAN, ~ (Cardinality(S) + (IF has THEN 1 ELSE 0) <= 1)
  PROVE  has \/ \A a : S \ {a} # {}
<1>1. SUFFICES ASSUME ~ has, NEW a, S \ {a} = {} PROVE FALSE
  OBVIOUS
<1>2. S = {} \/ S = {a}
  BY <1>1
<1>3. Cardinality(S) = 0 \/ Cardinality(S) = 1
  BY <1>2, FS_EmptySet, FS_Singleton
<1>4. QED
  BY <1>1, <1>3

\* unlinkIdentity takes the lock and counts.
LEMMA CountMethodsInv == ASSUME AccountsInv, NEW v \in Visits, CountMethods(v) PROVE AccountsInv'
<1> DEFINE few == Cardinality(links) + (IF user.has THEN 1 ELSE 0) <= 1
           r == [visit[v] EXCEPT !.pc = IF few THEN "refused" ELSE "unlink"]
<1>1. /\ visit[v].pc = "granted" /\ visit[v].op = "unlink" /\ lock = NoVisit /\ lock' = v
      /\ visit' = [visit EXCEPT ![v] = r] /\ UNCHANGED <<user, links, tokens, asked>>
  BY DEF CountMethods, VisitAt
<1>2. visit[v] \in Request /\ VisitOK(visit[v], user) /\ user \in Row
  BY DEF AccountsInv
<1>3. user.has \in BOOLEAN
  BY <1>2 DEF Row
<1>4. ~ few => user.has \/ \A a : links \ {a} # {}
  BY <1>3, OneLeft
<1> HIDE DEF few
<1>5. /\ r \in Request /\ r.pc \in {"unlink", "refused"} /\ (r.pc = "unlink" => ~ few) /\ r.via = visit[v].via
  BY <1>2 DEF Request
<1> HIDE DEF r
<1>6. VisitOK(r, user)
  BY <1>1, <1>2, <1>5 DEF VisitOK, CopyOK, PassOK
<1>7. \A w \in Visits : visit[w].pc \notin {"unlink", "refused"}
  BY <1>1, LockFree
<1>8. visit'[v] = r /\ \A w \in Visits : w # v => visit'[w] = visit[w]
  BY <1>1 DEF AccountsInv
<1>9. LockInv'
  BY <1>1, <1>4, <1>5, <1>7, <1>8 DEF LockInv
<1>10. QED
  BY <1>1, <1>5, <1>6, <1>9, RowStays

\* An unlink ends, and gives the lock back.
LEMMA UnlinkInv == ASSUME AccountsInv, NEW v \in Visits, NEW a, unlinkIdentity(v, a) PROVE AccountsInv'
<1>1. visit[v].pc \in {"unlink", "refused"} /\ lock' = NoVisit /\ visit' = [visit EXCEPT ![v] = NoRequest] /\ UNCHANGED <<user, tokens, asked>>
  BY DEF unlinkIdentity, VisitAt, VisitEnds
<1>2. \A w \in Visits : w # v => visit[w].pc \notin {"unlink", "refused"}
  BY <1>1 DEF AccountsInv, LockInv
<1>3. \A w \in Visits : visit'[w].pc \notin {"unlink", "refused"}
  BY <1>1, <1>2, NoAccount DEF AccountsInv
<1>4. LockInv'
  BY <1>3 DEF LockInv
<1>5. QED
  BY <1>1, <1>4, NoAccount, IdleOK, RowStays

\* What verifyEmail writes: the address is proven.
LEMMA Verified ==
  ASSUME NEW u \in Row
  PROVE  LET w == [u EXCEPT !.verified = TRUE, !.assumed = FALSE]
         IN  /\ w \in Row /\ w.exists = u.exists /\ w.version = u.version /\ w.roles = u.roles
             /\ w.verified /\ ~ w.assumed /\ w.pv = u.pv /\ w.password = u.password
  BY DEF Row

\* resetPassword, and MarkEmailVerified's write.
LEMMA VerifyEmailInv ==
  ASSUME AccountsInv, NEW v \in Visits, NEW u \in Row, Writable, verifyEmail(visit[v].copy, u), VisitEnds(v), asked' = asked,
         u.exists = user.exists, u.version = user.version, u.roles = user.roles, user.pv <= u.pv, u.pv = user.pv => u.password = user.password
  PROVE  AccountsInv'
<1> DEFINE w == [u EXCEPT !.verified = TRUE, !.assumed = FALSE]
<1>1. update(w)
  BY DEF verifyEmail
<1>2. /\ w \in Row /\ w.exists = user.exists /\ w.version = user.version /\ w.roles = user.roles
      /\ w.verified /\ ~ w.assumed /\ w.pv = u.pv /\ w.password = u.password
  BY Verified
<1> HIDE DEF w
<1>3. /\ visit' \in [Visits -> Request]
      /\ \A x \in Visits : visit'[x] = visit[x] \/ (VisitOK(visit'[x], user') /\ visit'[x].pc \notin {"unlink", "refused"})
  BY VisitEndsOK
<1>4. QED
  BY <1>1, <1>2, <1>3, RowRewritten

\* resetPassword sets the password and proves the address.
LEMMA ResetPasswordInv == ASSUME AccountsInv, NEW v \in Visits, resetPassword(v) PROVE AccountsInv'
<1>1. Writable /\ verifyEmail(visit[v].copy, passwordColumns(user)) /\ VisitEnds(v) /\ asked' = asked /\ user \in Row
  BY DEF resetPassword, AccountsInv
<1>2. QED
  BY <1>1, PasswordColumns, VerifyEmailInv

\* MarkEmailVerified reads, then writes.
LEMMA MarkEmailVerifiedInv == ASSUME AccountsInv, NEW v \in Visits, MarkEmailVerified(v) PROVE AccountsInv'
<1>1. UNCHANGED <<lock, asked>> /\ user \in Row
  BY DEF MarkEmailVerified, AccountsInv
<1>2. CASE VisitAt(v, "idle") /\ user.exists /\ visit' = [visit EXCEPT ![v] = [NoRequest EXCEPT !.pc = "mark"]] /\ UNCHANGED <<user, links, tokens>>
  <2> DEFINE r == [NoRequest EXCEPT !.pc = "mark"]
  <2>1. r \in Request /\ r.pc = "mark" /\ r.via = "none"
    BY NoAccount DEF NoRequest, Request
  <2> HIDE DEF r
  <2>2. visit' = [visit EXCEPT ![v] = r]
    BY <1>2 DEF r
  <2>3. QED
    BY <1>1, <1>2, <2>1, <2>2, MovesOnInv
<1>3. CASE Writable /\ verifyEmail(visit[v].copy, user) /\ VisitEnds(v)
  <2>1. user.pv <= user.pv
    BY <1>1 DEF Row
  <2>2. QED
    BY <1>1, <1>3, <2>1, VerifyEmailInv
<1>4. QED
  BY <1>2, <1>3 DEF MarkEmailVerified

\* SetActive, SetRoles and RevokeTokens: every token dies.
LEMMA OperatorInv ==
  ASSUME AccountsInv, (\E active \in BOOLEAN : SetActive(active)) \/ (\E roles \in SUBSET OtherRoles : SetRoles(roles)) \/ RevokeTokens
  PROVE  AccountsInv'
<1>1. Writable /\ visit' = visit /\ visit \in [Visits -> Request] /\ user \in Row
  BY DEF SetActive, SetRoles, RevokeTokens, AccountsInv
<1>2. user.pv \in Nat /\ user.pv + 1 \in Nat /\ user.pv <= user.pv + 1 /\ user.pv + 1 # user.pv
  BY <1>1 DEF Row
<1>3. ASSUME NEW active \in BOOLEAN, SetActive(active) PROVE AccountsInv'
  <2> DEFINE u == [user EXCEPT !.active = active, !.pv = @ + 1]
  <2>1. update(u) /\ asked' = asked
    BY <1>3 DEF SetActive
  <2>2. /\ u \in Row /\ u.exists = user.exists /\ u.version = user.version /\ u.roles = user.roles
        /\ u.verified = user.verified /\ u.assumed = user.assumed /\ u.pv = user.pv + 1
    BY <1>1, <1>2 DEF Row
  <2> HIDE DEF u
  <2>3. QED
    BY <1>1, <1>2, <2>1, <2>2, RowRewritten
<1>4. ASSUME NEW roles \in SUBSET OtherRoles, SetRoles(roles) PROVE AccountsInv'
  <2> DEFINE u == [user EXCEPT !.roles = roles, !.pv = @ + 1]
  <2>1. update(u) /\ asked' = roles
    BY <1>4 DEF SetRoles
  <2>2. roles \in SUBSET (OtherRoles \cup {"admin"})
    OBVIOUS
  <2>3. u \in Row /\ u.exists = user.exists /\ u.version = user.version /\ u.roles = roles /\ u.pv = user.pv + 1
    BY <1>1, <1>2, <2>2 DEF Row
  <2> HIDE DEF u
  <2>4. RolesOK(u, asked')
    BY <2>1, <2>3 DEF RolesOK
  <2>5. u.exists
    BY <1>1, <2>3 DEF Writable
  <2>6. QED
    BY <1>1, <1>2, <2>1, <2>3, <2>4, <2>5, RowWritten
<1>5. CASE RevokeTokens
  <2> DEFINE u == [user EXCEPT !.pv = @ + 1]
  <2>1. update(u) /\ asked' = asked
    BY <1>5 DEF RevokeTokens
  <2>2. /\ u \in Row /\ u.exists = user.exists /\ u.version = user.version /\ u.roles = user.roles
        /\ u.verified = user.verified /\ u.assumed = user.assumed /\ u.pv = user.pv + 1
    BY <1>1, <1>2 DEF Row
  <2> HIDE DEF u
  <2>3. QED
    BY <1>1, <1>2, <2>1, <2>2, RowRewritten
<1>6. QED
  BY <1>3, <1>4, <1>5

-----------------------------------------------------------------------------
\* No account, no visit: the invariant holds at the start.
LEMMA AccountsInitInv == ASSUME AccountsInit PROVE AccountsInv
<1>1. user = Absent /\ tokens = {} /\ asked = {} /\ visit = [v \in Visits |-> NoRequest]
  BY DEF AccountsInit
<1>2. RolesOK(user, asked)
  BY <1>1 DEF Absent, RolesOK
<1>3. \A v \in Visits : visit[v] = NoRequest
  BY <1>1
<1>4. QED
  BY <1>1, <1>2, <1>3, NoAccount, IdleOK DEF AccountsInv, TokensOK, LockInv

\* Every step keeps it.
LEMMA AccountsStepInv == ASSUME AccountsInv, [AccountsNext]_accountVars PROVE AccountsInv'
<1>1. CASE UNCHANGED accountVars
  BY <1>1 DEF AccountsInv, LockInv, accountVars
<1>2. CASE \E vouched \in BOOLEAN : createUser(vouched)
  BY <1>2, CreatedInv
<1>3. CASE \E a \in ProviderAccounts : resolveNew(a) \/ resolveAssumed(a) \/ resolveJoin(a)
  BY <1>3, CreatedInv, ResolveJoinInv
<1>4. ASSUME NEW v \in Visits, registerByCode(v) \/ login(v) \/ exchange(v) \/ CodeSpent(v) \/ codeSignsIn(v) PROVE AccountsInv'
  BY <1>4, RegisterByCodeInv, SignInInv, CodeSpentInv, CodeSignsInInv
<1>5. ASSUME NEW v \in Visits, \E t \in tokens, op \in {"refresh", "change", "confirm", "link", "unlink"} : authenticate(v, t, op) PROVE AccountsInv'
  BY <1>5, SignInInv
<1>6. ASSUME NEW v \in Visits, grantAdmin(v) \/ GrantEnds(v) \/ issueToken(v) \/ changePassword(v) \/ confirmEmail(v) PROVE AccountsInv'
  BY <1>6, GrantAdminInv, GrantEndsInv, IssueTokenInv, ChangePasswordInv, ConfirmEmailInv
<1>7. ASSUME NEW v \in Visits, LinkBegins(v) \/ CountMethods(v) \/ ResetChecks(v) \/ resetPassword(v) \/ MarkEmailVerified(v) PROVE AccountsInv'
  BY <1>7, ReadsInv, CountMethodsInv, ResetPasswordInv, MarkEmailVerifiedInv
<1>8. ASSUME NEW v \in Visits, NEW a \in ProviderAccounts, link(v, a) \/ unlinkIdentity(v, a) PROVE AccountsInv'
  BY <1>8, LinkInv, UnlinkInv
<1>9. CASE (\E active \in BOOLEAN : SetActive(active)) \/ (\E roles \in SUBSET OtherRoles : SetRoles(roles)) \/ RevokeTokens
  BY <1>9, OperatorInv
<1>10. CASE ResetPassword
  BY <1>10, ChangePasswordInv
<1>11. QED
  BY <1>1, <1>2, <1>3, <1>4, <1>5, <1>6, <1>7, <1>8, <1>9, <1>10 DEF AccountsNext

\* Whatever requests are in flight and however they interleave, the roles are
\* the operator's and the admin grant's alone, and no token a password opened
\* outlives that password (grantAdmin, issueToken, UserService).
THEOREM AccountsDecisionsHold == AccountsSpec => []DecisionsHold
<1>1. AccountsInit => AccountsInv
  BY AccountsInitInv
<1>2. AccountsInv /\ [AccountsNext]_accountVars => AccountsInv'
  BY AccountsStepInv
<1>3. AccountsInv => DecisionsHold
  BY DEF AccountsInv, RolesOK, TokensOK, DecisionsHold, RolesAreTheOperators, OldPasswordsDie
<1>4. QED
  BY <1>1, <1>2, <1>3, PTL DEF AccountsSpec

\* A request that counted leaves only by unlinkIdentity.
LEMMA OnlyUnlinkEnds ==
  ASSUME AccountsInv, [AccountsNext]_accountVars, NEW v \in Visits, visit[v].pc = "unlink", visit'[v].pc # "unlink"
  PROVE  \E a \in ProviderAccounts : unlinkIdentity(v, a)
<1> DEFINE Elsewhere(w) == visit[w].pc # "unlink" /\ \E r : visit' = [visit EXCEPT ![w] = r]
<1>1. visit \in [Visits -> Request]
  BY DEF AccountsInv
<1>2. ASSUME NEW w \in Visits, Elsewhere(w) PROVE FALSE
  <2>1. PICK r : visit' = [visit EXCEPT ![w] = r]
    BY <1>2
  <2>2. w # v
    BY <1>2
  <2>3. QED
    BY <1>1, <2>1, <2>2
<1>3. visit' # visit
  OBVIOUS
<1>4. ASSUME NEW w \in Visits, registerByCode(w) \/ login(w) \/ exchange(w) \/ CodeSpent(w) PROVE Elsewhere(w)
  BY <1>4 DEF registerByCode, login, exchange, CodeSpent, VisitAt, Begin
<1>5. ASSUME NEW w \in Visits, codeSignsIn(w) PROVE Elsewhere(w)
  BY <1>5 DEF codeSignsIn, VisitAt, Begin
<1>6. ASSUME NEW w \in Visits, NEW t \in tokens, NEW op, authenticate(w, t, op) PROVE Elsewhere(w)
  BY <1>6 DEF authenticate, VisitAt, Begin
<1>7. ASSUME NEW w \in Visits, grantAdmin(w) \/ GrantEnds(w) PROVE Elsewhere(w)
  BY <1>7 DEF grantAdmin, GrantEnds, VisitAt, Granted
<1>8. ASSUME NEW w \in Visits, issueToken(w) \/ changePassword(w) \/ confirmEmail(w) \/ resetPassword(w) PROVE Elsewhere(w)
  BY <1>8 DEF issueToken, changePassword, confirmEmail, resetPassword, VisitAt, VisitEnds
<1>9. ASSUME NEW w \in Visits, LinkBegins(w) \/ ResetChecks(w) PROVE Elsewhere(w)
  BY <1>9 DEF LinkBegins, ResetChecks, VisitAt
<1>10. ASSUME NEW w \in Visits, CountMethods(w) PROVE Elsewhere(w)
  <2>1. visit[w].pc = "granted"
    BY <1>10 DEF CountMethods, VisitAt
  <2>2. visit' = [visit EXCEPT ![w] = [visit[w] EXCEPT !.pc = IF Cardinality(links) + (IF user.has THEN 1 ELSE 0) <= 1 THEN "refused" ELSE "unlink"]]
    BY <1>10 DEF CountMethods
  <2>3. QED
    BY <2>1, <2>2
<1>11. ASSUME NEW w \in Visits, MarkEmailVerified(w) PROVE Elsewhere(w)
  BY <1>11 DEF MarkEmailVerified, VisitAt, VisitEnds
<1>12. ASSUME NEW w \in Visits, NEW a, link(w, a) PROVE Elsewhere(w)
  BY <1>12 DEF link, VisitAt, VisitEnds
<1>13. ASSUME NEW w \in Visits, NEW a \in ProviderAccounts, unlinkIdentity(w, a) PROVE w = v
  BY <1>1, <1>13 DEF unlinkIdentity, VisitEnds
<1>14. ~ \E vouched \in BOOLEAN : createUser(vouched)
  BY <1>3 DEF createUser
<1>15. ~ \E a \in ProviderAccounts : resolveNew(a) \/ resolveAssumed(a) \/ resolveJoin(a)
  BY <1>3 DEF resolveNew, resolveAssumed, resolveJoin
<1>16. ~ ((\E active \in BOOLEAN : SetActive(active)) \/ (\E roles \in SUBSET OtherRoles : SetRoles(roles)) \/ ResetPassword \/ RevokeTokens)
  BY <1>3 DEF SetActive, SetRoles, ResetPassword, RevokeTokens
<1>17. ~ UNCHANGED accountVars
  BY <1>3 DEF accountVars
<1> HIDE DEF Elsewhere
<1>18. PICK w \in Visits :
         \/ registerByCode(w) \/ login(w) \/ exchange(w) \/ CodeSpent(w) \/ codeSignsIn(w)
         \/ \E t \in tokens, op \in {"refresh", "change", "confirm", "link", "unlink"} : authenticate(w, t, op)
         \/ grantAdmin(w) \/ GrantEnds(w) \/ issueToken(w) \/ changePassword(w) \/ confirmEmail(w)
         \/ LinkBegins(w) \/ CountMethods(w)
         \/ \E a \in ProviderAccounts : link(w, a) \/ unlinkIdentity(w, a)
         \/ ResetChecks(w) \/ resetPassword(w) \/ MarkEmailVerified(w)
  BY <1>14, <1>15, <1>16, <1>17 DEF AccountsNext
<1>19. \E a \in ProviderAccounts : unlinkIdentity(w, a)
  BY <1>2, <1>4, <1>5, <1>6, <1>7, <1>8, <1>9, <1>10, <1>11, <1>12, <1>18
<1>20. QED
  BY <1>13, <1>19

\* An unlink never takes the account's last way in, whatever ran between its
\* count and its delete (unlinkIdentity under GetForUpdate).
THEOREM AccountsUnlink == AccountsSpec => UnlinkLeavesAWayIn
<1>1. AccountsInit => AccountsInv
  BY AccountsInitInv
<1>2. AccountsInv /\ [AccountsNext]_accountVars => AccountsInv'
  BY AccountsStepInv
<1>3. AccountsInv /\ [AccountsNext]_accountVars
        => [\A v \in Visits : VisitAt(v, "unlink") /\ ~ VisitAt(v, "unlink")' => user.has \/ links' # {}]_accountVars
  <2>1. SUFFICES ASSUME AccountsInv, [AccountsNext]_accountVars, NEW v \in Visits, visit[v].pc = "unlink", visit'[v].pc # "unlink"
                 PROVE  user.has \/ links' # {}
    BY DEF VisitAt
  <2>2. PICK a \in ProviderAccounts : unlinkIdentity(v, a)
    BY <2>1, OnlyUnlinkEnds
  <2>3. links' = links \ {a}
    BY <2>1, <2>2 DEF unlinkIdentity, VisitAt
  <2>4. user.has \/ links \ {a} # {}
    BY <2>1 DEF AccountsInv, LockInv
  <2>5. QED
    BY <2>3, <2>4
<1>4. QED
  BY <1>1, <1>2, <1>3, PTL DEF AccountsSpec, UnlinkLeavesAWayIn
=============================================================================
