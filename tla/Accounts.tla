------------------------------ MODULE Accounts ------------------------------
(***************************************************************************)
(* One account of identity: its row in users and its links to providers,   *)
(* under registration, logins, sessions, password changes and resets,      *)
(* mailed codes, OAuth sign-ins, links and unlinks, and what an operator   *)
(* does through UserService (routes.go, authn.go, users.go, admins.go,     *)
(* oauth.go).  A request reads the row, works on its copy and writes       *)
(* later; only grantAdmin's write is conditional on the version it read.   *)
(* A transaction is one step, except an unlink's, which holds the row's    *)
(* lock from its first statement to its last.  Codes and their expiry are  *)
(* in LoginCodes, a sign-in's way through the provider in OAuthSessions.   *)
(***************************************************************************)
EXTENDS Integers, FiniteSets

CONSTANTS
  Visits,      \* concurrent requests
  Assuming,    \* provider accounts whose address is only implied verified (Facebook)
  Stating,     \* provider accounts whose provider states the address
  LinkByEmail, \* Config.LinkByEmail
  OtherRoles,  \* the roles an operator hands out; auth.admins grants "admin"
  GrantTries,  \* grantTries
  MaxWrites    \* bound: writes of the row

ASSUME AccountsAssumption ==
  /\ Assuming \cap Stating = {} /\ LinkByEmail \in BOOLEAN /\ {GrantTries, MaxWrites} \subseteq Nat
  /\ "none" \notin Visits

VARIABLES
  user,      \* the row of the address, which auth.admins lists
  links,     \* provider accounts linked to it
  lock,      \* the visit that holds the row's lock, or NoVisit
  visit,     \* visit -> where it is, and the copy of the row it read
  tokens,    \* the access tokens issued that have the row's password_version, which only grows
  asked      \* the roles the operator set last

accountVars == <<user, links, lock, visit, tokens, asked>>

ProviderAccounts == Assuming \cup Stating
NoVisit == "none"
Absent == [exists |-> FALSE, verified |-> FALSE, assumed |-> FALSE, password |-> 0, has |-> FALSE,
           pv |-> 0, roles |-> {}, active |-> FALSE, version |-> 0]
NoRequest == [pc |-> "idle", op |-> "none", copy |-> Absent, tries |-> 0, shown |-> 0, via |-> "none"]

AccountsInit ==
  /\ user = Absent /\ links = {} /\ lock = NoVisit
  /\ visit = [v \in Visits |-> NoRequest]
  /\ tokens = {} /\ asked = {}

emailProven(u) == u.verified /\ ~ u.assumed
Writable == lock = NoVisit /\ user.exists /\ user.version < MaxWrites
VisitAt(v, pc) == visit[v].pc = pc
VisitEnds(v) == visit' = [visit EXCEPT ![v] = NoRequest]

(* The store's update moves the version on; a new password is named by the *)
(* version that set it.                                                    *)
update(u) ==
  /\ user' = [u EXCEPT !.version = @ + 1]
  /\ tokens' = {t \in tokens : t.pv = u.pv}
passwordColumns(u) == [u EXCEPT !.password = user.version + 1, !.has = TRUE, !.pv = @ + 1]

(* verifyEmail and takeOver decide by the copy and write the row; a first  *)
(* proof unlinks every provider in the same transaction.                   *)
verifyEmail(copy, u) ==
  /\ update([u EXCEPT !.verified = TRUE, !.assumed = FALSE])
  /\ links' = IF emailProven(copy) THEN links ELSE {}
takeOver(copy) ==
  LET u == [user EXCEPT !.pv = @ + 1]
  IN  verifyEmail(copy, IF copy.has THEN [u EXCEPT !.password = 0, !.has = FALSE] ELSE u)

-----------------------------------------------------------------------------
(* Accounts come about by register, UserService.Create, a mailed code and  *)
(* a provider.                                                             *)

New(u) == user' = [u EXCEPT !.exists = TRUE, !.active = TRUE, !.version = 1]

createUser(vouched) ==
  /\ ~ user.exists
  /\ New([Absent EXCEPT !.verified = vouched, !.password = 1, !.has = TRUE])
  /\ UNCHANGED <<links, lock, visit, tokens, asked>>

registerByCode(v) ==
  /\ VisitAt(v, "code") /\ ~ user.exists
  /\ New([Absent EXCEPT !.verified = TRUE])
  /\ visit' = [visit EXCEPT ![v] = [NoRequest EXCEPT !.pc = "grant", !.op = "code", !.via = "code", !.copy = user']]
  /\ UNCHANGED <<links, lock, tokens, asked>>

(* resolve: a link that is there, an account to join, or a new one.  The   *)
(* address is listed, so an assumed one makes no account of it.            *)
resolveNew(a) ==
  /\ ~ user.exists /\ a \in Stating
  /\ New([Absent EXCEPT !.verified = TRUE])
  /\ links' = {a}
  /\ UNCHANGED <<lock, visit, tokens, asked>>

(* An account Facebook's word made before auth.admins listed the address.  *)
resolveAssumed(a) ==
  /\ ~ user.exists /\ a \in Assuming
  /\ New([Absent EXCEPT !.verified = TRUE, !.assumed = TRUE])
  /\ links' = {a}
  /\ UNCHANGED <<lock, visit, tokens, asked>>

resolveJoin(a) ==
  /\ LinkByEmail /\ a \in Stating \ links /\ user.verified
  /\ IF user.assumed
     THEN /\ Writable
          /\ update([user EXCEPT !.pv = @ + 1, !.assumed = FALSE, !.has = FALSE, !.password = IF user.has THEN 0 ELSE @])
          /\ links' = {a}
     ELSE links' = links \cup {a} /\ UNCHANGED <<user, tokens>>
  /\ UNCHANGED <<lock, visit, asked>>

-----------------------------------------------------------------------------
(* Requests.  A login, a provider's sign-in or a session's token brings a  *)
(* copy of the row; grantAdmin may change it; then the request goes on.    *)

Begin(v, op, copy, shown, via) ==
  visit' = [visit EXCEPT ![v] = [NoRequest EXCEPT !.pc = "grant", !.op = op, !.copy = copy, !.shown = shown, !.via = via]]

login(v) ==
  /\ VisitAt(v, "idle") /\ user.exists /\ user.active /\ user.has
  /\ Begin(v, "login", user, user.password, "password")
  /\ UNCHANGED <<user, links, lock, tokens, asked>>

exchange(v) ==
  /\ VisitAt(v, "idle") /\ user.exists /\ user.active /\ links # {}
  /\ Begin(v, "login", user, 0, "provider")
  /\ UNCHANGED <<user, links, lock, tokens, asked>>

(* passwordlessVerify, once the code is spent: it may find no account.     *)
CodeSpent(v) ==
  /\ VisitAt(v, "idle")
  /\ visit' = [visit EXCEPT ![v] = [NoRequest EXCEPT !.pc = "code", !.op = "code", !.copy = user]]
  /\ UNCHANGED <<user, links, lock, tokens, asked>>

(* An unproven address is taken over, and the row read again.              *)
codeSignsIn(v) ==
  /\ VisitAt(v, "code") /\ user.exists
  /\ LET copy == IF visit[v].copy.exists THEN visit[v].copy ELSE user
     IN  IF emailProven(copy)
         THEN Begin(v, "code", copy, 0, "code") /\ UNCHANGED <<user, links, tokens>>
         ELSE Writable /\ takeOver(copy) /\ Begin(v, "code", user', 0, "code")
  /\ UNCHANGED <<lock, asked>>

authenticate(v, t, op) ==
  /\ VisitAt(v, "idle") /\ user.exists /\ user.active /\ t.pv = user.pv
  /\ IF op = "refresh" THEN Begin(v, op, user, t.shown, t.via) ELSE Begin(v, op, user, 0, "none")
  /\ UNCHANGED <<user, links, lock, tokens, asked>>

(* What a request still needs of its copy once it is past grantAdmin: the  *)
(* password_version of the token it issues, or what its handler looks at.  *)
Granted(v, u) ==
  LET op == visit[v].op
      needed == CASE op \in {"login", "code", "refresh"} -> [Absent EXCEPT !.pv = u.pv]
                  [] op = "change" -> [Absent EXCEPT !.has = u.has]
                  [] op = "confirm" -> [Absent EXCEPT !.verified = emailProven(u)]
                  [] OTHER -> Absent
  IN  visit' = [visit EXCEPT ![v] = [visit[v] EXCEPT !.pc = "granted", !.tries = 0, !.copy = needed]]

(* grantAdmin: a write conditional on the version; a conflict reads the    *)
(* row again and tries anew.                                               *)
Grants(v) ==
  LET u == visit[v].copy
  IN  emailProven(u) /\ "admin" \notin u.roles /\ visit[v].tries < GrantTries

grantAdmin_AnyVersion(v) ==
  /\ VisitAt(v, "grant") /\ Grants(v) /\ Writable
  /\ update([user EXCEPT !.roles = visit[v].copy.roles \cup {"admin"}])
  /\ Granted(v, user')
  /\ UNCHANGED <<links, lock, asked>>
grantAdmin(v) ==
  /\ VisitAt(v, "grant") /\ Grants(v) /\ Writable
  /\ IF user.version = visit[v].copy.version
     THEN /\ update([user EXCEPT !.roles = visit[v].copy.roles \cup {"admin"}])
          /\ Granted(v, user')
     ELSE /\ visit' = [visit EXCEPT ![v] = [visit[v] EXCEPT !.copy = user, !.tries = @ + 1, !.via = "conflict"]]
          /\ UNCHANGED <<user, tokens>>
  /\ UNCHANGED <<links, lock, asked>>

(* Nothing to grant, tries used up, or a failure, which is only logged.    *)
GrantEnds(v) ==
  /\ VisitAt(v, "grant")
  /\ Granted(v, visit[v].copy)
  /\ UNCHANGED <<user, links, lock, tokens, asked>>

issueToken(v) ==
  /\ VisitAt(v, "granted") /\ visit[v].op \in {"login", "code", "refresh"}
  /\ tokens' = tokens \cup {t \in {[pv |-> visit[v].copy.pv, shown |-> visit[v].shown, via |-> visit[v].via]} : t.pv = user.pv}
  /\ VisitEnds(v)
  /\ UNCHANGED <<user, links, lock, asked>>

(* changePassword compares the old password with the copy.                 *)
changePassword(v) ==
  /\ VisitAt(v, "granted") /\ visit[v].op = "change" /\ visit[v].copy.has /\ Writable
  /\ update(passwordColumns(user))
  /\ VisitEnds(v)
  /\ UNCHANGED <<links, lock, asked>>

(* confirmEmail, its code spent: the account stays as it is.               *)
confirmEmail(v) ==
  /\ VisitAt(v, "granted") /\ visit[v].op = "confirm" /\ Writable
  /\ IF emailProven(visit[v].copy) THEN UNCHANGED <<user, tokens>> ELSE update([user EXCEPT !.verified = TRUE, !.assumed = FALSE])
  /\ VisitEnds(v)
  /\ UNCHANGED <<links, lock, asked>>

(* link, at the callback of a link begun in a session: its transaction     *)
(* reads the row, then writes.                                             *)
LinkBegins(v) ==
  /\ VisitAt(v, "granted") /\ visit[v].op = "link" /\ user.verified
  /\ visit' = [visit EXCEPT ![v] = [visit[v] EXCEPT !.pc = "link", !.copy = [Absent EXCEPT !.assumed = user.assumed]]]
  /\ UNCHANGED <<user, links, lock, tokens, asked>>

link(v, a) ==
  /\ VisitAt(v, "link") /\ a \notin links
  /\ links' = links \cup {a}
  /\ IF visit[v].copy.assumed /\ a \in Stating
     THEN Writable /\ update([user EXCEPT !.assumed = FALSE])
     ELSE UNCHANGED <<user, tokens>>
  /\ VisitEnds(v)
  /\ UNCHANGED <<lock, asked>>

(* unlinkIdentity: GetForUpdate and the count, then the delete.            *)
CountMethods_Unlocked(v) ==
  /\ VisitAt(v, "granted") /\ visit[v].op = "unlink"
  /\ visit' = [visit EXCEPT ![v].pc = IF Cardinality(links) + (IF user.has THEN 1 ELSE 0) <= 1 THEN "refused" ELSE "unlink"]
  /\ UNCHANGED <<user, links, lock, tokens, asked>>
CountMethods(v) ==
  /\ VisitAt(v, "granted") /\ visit[v].op = "unlink" /\ lock = NoVisit
  /\ lock' = v
  /\ visit' = [visit EXCEPT ![v].pc = IF Cardinality(links) + (IF user.has THEN 1 ELSE 0) <= 1 THEN "refused" ELSE "unlink"]
  /\ UNCHANGED <<user, links, tokens, asked>>

unlinkIdentity(v, a) ==
  /\ \/ VisitAt(v, "unlink") /\ a \in links /\ links' = links \ {a}
     \/ VisitAt(v, "refused") /\ UNCHANGED links
  /\ lock' = NoVisit
  /\ VisitEnds(v)
  /\ UNCHANGED <<user, tokens, asked>>

(* forgotPassword mails a token bound to password_version, which           *)
(* resetPassword checks against its copy of the row; then it writes.       *)
ResetChecks(v) ==
  /\ VisitAt(v, "idle") /\ user.exists /\ user.active
  /\ visit' = [visit EXCEPT ![v] = [NoRequest EXCEPT !.pc = "reset", !.copy = [Absent EXCEPT !.verified = emailProven(user)]]]
  /\ UNCHANGED <<user, links, lock, tokens, asked>>

resetPassword(v) ==
  /\ VisitAt(v, "reset") /\ Writable
  /\ verifyEmail(visit[v].copy, passwordColumns(user))
  /\ VisitEnds(v)
  /\ UNCHANGED <<lock, asked>>

(* UserService.                                                            *)
SetActive(active) ==
  /\ Writable
  /\ update([user EXCEPT !.active = active, !.pv = @ + 1])
  /\ UNCHANGED <<links, lock, visit, asked>>

SetRoles(roles) ==
  /\ Writable
  /\ update([user EXCEPT !.roles = roles, !.pv = @ + 1])
  /\ asked' = roles
  /\ UNCHANGED <<links, lock, visit>>

ResetPassword ==
  /\ Writable
  /\ update(passwordColumns(user))
  /\ UNCHANGED <<links, lock, visit, asked>>

RevokeTokens ==
  /\ Writable
  /\ update([user EXCEPT !.pv = @ + 1])
  /\ UNCHANGED <<links, lock, visit, asked>>

MarkEmailVerified(v) ==
  /\ \/ /\ VisitAt(v, "idle") /\ user.exists /\ ~ user.verified
        /\ visit' = [visit EXCEPT ![v] = [NoRequest EXCEPT !.pc = "mark"]]
        /\ UNCHANGED <<user, links, tokens>>
     \/ /\ VisitAt(v, "mark") /\ Writable
        /\ verifyEmail(visit[v].copy, user)
        /\ VisitEnds(v)
  /\ UNCHANGED <<lock, asked>>

AccountsNext ==
  \/ \E vouched \in BOOLEAN : createUser(vouched)
  \/ \E a \in ProviderAccounts : resolveNew(a) \/ resolveAssumed(a) \/ resolveJoin(a)
  \/ \E v \in Visits :
       \/ registerByCode(v) \/ login(v) \/ exchange(v) \/ CodeSpent(v) \/ codeSignsIn(v)
       \/ \E t \in tokens, op \in {"refresh", "change", "confirm", "link", "unlink"} : authenticate(v, t, op)
       \/ grantAdmin(v) \/ GrantEnds(v) \/ issueToken(v) \/ changePassword(v) \/ confirmEmail(v)
       \/ LinkBegins(v) \/ CountMethods(v)
       \/ \E a \in ProviderAccounts : link(v, a) \/ unlinkIdentity(v, a)
       \/ ResetChecks(v) \/ resetPassword(v) \/ MarkEmailVerified(v)
  \/ \E active \in BOOLEAN : SetActive(active)
  \/ \E roles \in SUBSET OtherRoles : SetRoles(roles)
  \/ ResetPassword \/ RevokeTokens

AccountsSpec == AccountsInit /\ [][AccountsNext]_accountVars

-----------------------------------------------------------------------------
(* Two unlinks at once, or an unlink and anything else that runs beside    *)
(* it, never leave the account without a way in: an unlink ends with a     *)
(* password or a provider left.                                            *)
UnlinkLeavesAWayIn ==
  [][ \A v \in Visits : VisitAt(v, "unlink") /\ ~ VisitAt(v, "unlink")' => user.has \/ links' # {} ]_accountVars

(* The roles are the operator's: a grant by auth.admins that races a       *)
(* SetRoles never brings back roles the operator replaced, it adds the     *)
(* admin role alone, and only to an address proven by then.                *)
RolesAreTheOperators ==
  /\ user.roles \ {"admin"} = asked \ {"admin"}
  /\ "admin" \in user.roles => emailProven(user) \/ "admin" \in asked

(* A token that a password opened stops working with that password,        *)
(* however late it was issued; unless a version conflict had grantAdmin    *)
(* read the row, and its new password_version, again in between.           *)
OldPasswordsDie ==
  \A t \in tokens : (t.via = "password" /\ t.pv = user.pv) => t.shown = user.password

(* What was decided last holds against writes still in flight: the roles   *)
(* an operator set, and a password that replaced another.                  *)
DecisionsHold == RolesAreTheOperators /\ OldPasswordsDie
=============================================================================
