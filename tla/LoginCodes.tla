------------------------------ MODULE LoginCodes ------------------------------
(***************************************************************************)
(* Codes mailed to an address: passwordless sign-in (passwordless.go) and  *)
(* the confirmation of a signed-in user's address (confirm.go).  An        *)
(* address, or a user, has one row of auth_login_codes at most.  Every     *)
(* statement a request sends is a step of its own, and may fail; between   *)
(* two of them other requests, resends and the sweep take theirs.  What    *)
(* the throttle counts is in LoginLimiter, what a sign-in does to the      *)
(* account in Accounts.                                                    *)
(***************************************************************************)
EXTENDS Integers, FiniteSets

CONSTANTS
  Requests,     \* concurrent requests
  CodeTTL,      \* Passwordless.CodeTTL
  ResendAfter,  \* Passwordless.ResendAfter
  MaxAttempts,  \* Passwordless.MaxAttempts
  MaxTime,      \* bound: the clock
  MaxCodes      \* bound: codes drawn

ASSUME LoginCodesAssumption ==
  /\ {CodeTTL, ResendAfter, MaxAttempts} \subseteq Nat \ {0}
  /\ {MaxTime, MaxCodes} \subseteq Nat

VARIABLES
  route,      \* the requests are all passwordless's, or all confirm-email's: their rows never meet
  now,
  row,        \* the address's row, or None
  drawn,      \* codes drawn so far: each stored code has a number of its own
  request,    \* request -> where it is and what it read
  stored,     \* codes a start stored
  compared,   \* history: comparisons made
  signedIn    \* code -> the requests it let in

codeVars == <<route, now, row, drawn, request, stored, compared, signedIn>>

None == [id |-> 0, code |-> 0, attempts |-> 0, created |-> 0]
Fresh == [pc |-> "idle", by |-> "code", read |-> None, code |-> 0, now |-> 0]

CodesInit ==
  /\ route \in {"passwordless", "confirm"}
  /\ now = 0 /\ row = None /\ drawn = 0
  /\ request = [r \in Requests |-> Fresh]
  /\ stored = {}
  /\ compared = 0
  /\ signedIn = [c \in 1..MaxCodes |-> 0]

-----------------------------------------------------------------------------
(* Requests.                                                               *)

At(r, pc) == request[r].pc = pc
To(r, pc) == request' = [request EXCEPT ![r].pc = pc]
End(r) == request' = [request EXCEPT ![r] = Fresh]

(* passwordlessStart and confirmEmailStart, once the throttle let them     *)
(* pass: a new code, and the time it is made.                              *)
Start(r) ==
  /\ At(r, "idle") /\ drawn < MaxCodes
  /\ drawn' = drawn + 1
  /\ request' = [request EXCEPT ![r] = [Fresh EXCEPT !.pc = "update", !.code = drawn + 1, !.now = now]]
  /\ UNCHANGED <<route, now, row, stored, compared, signedIn>>

(* saveLoginCode: the UPDATE of a row old enough keeps its id; without one *)
(* the INSERT yields to a row that is there.                               *)
Written(r, id) == [id |-> id, code |-> request[r].code, attempts |-> 0, created |-> request[r].now]

saveUpdate(r) ==
  /\ At(r, "update")
  /\ IF row # None /\ row.created <= request[r].now - ResendAfter
     THEN row' = Written(r, row.id) /\ stored' = stored \cup {request[r].code} /\ End(r)
     ELSE To(r, "insert") /\ UNCHANGED <<row, stored>>
  /\ UNCHANGED <<route, now, drawn, compared, signedIn>>

saveInsert(r) ==
  /\ At(r, "insert")
  /\ IF row = None
     THEN row' = Written(r, request[r].code) /\ stored' = stored \cup {request[r].code}
     ELSE UNCHANGED <<row, stored>>
  /\ End(r)
  /\ UNCHANGED <<route, now, drawn, compared, signedIn>>

(* passwordlessVerify and confirmEmail: with a code for the address, right *)
(* or wrong, or with the magic link's token of a stored code.              *)
Verify(r, by, code) ==
  /\ At(r, "idle")
  /\ by = "token" => route = "passwordless" /\ code \in stored
  /\ request' = [request EXCEPT ![r] = [Fresh EXCEPT !.pc = "read", !.by = by, !.code = code]]
  /\ UNCHANGED <<route, now, row, drawn, stored, compared, signedIn>>

Read(r) ==
  /\ At(r, "read")
  /\ LET found == row # None /\ (request[r].by = "token" => row.code = request[r].code)
         good == found /\ now < row.created + CodeTTL /\ row.attempts < MaxAttempts
     IN  request' = [request EXCEPT ![r] =
           IF good THEN [@ EXCEPT !.pc = IF request[r].by = "code" THEN "claim" ELSE "account", !.read = row, !.now = now] ELSE Fresh]
  /\ UNCHANGED <<route, now, row, drawn, stored, compared, signedIn>>

(* The row read, by id; its expiry against the time the row was read.      *)
Same(r) == row # None /\ row.id = request[r].read.id /\ row.created + CodeTTL > request[r].now

claimAttempt_Unconditional(r) ==
  /\ At(r, "claim")
  /\ IF Same(r)
     THEN row' = [row EXCEPT !.attempts = @ + 1] /\ To(r, "compare")
     ELSE End(r) /\ UNCHANGED row
  /\ UNCHANGED <<route, now, drawn, stored, compared, signedIn>>
claimAttempt(r) ==
  /\ At(r, "claim")
  /\ IF Same(r) /\ row.attempts < MaxAttempts
     THEN row' = [row EXCEPT !.attempts = @ + 1] /\ To(r, "compare")
     ELSE End(r) /\ UNCHANGED row
  /\ UNCHANGED <<route, now, drawn, stored, compared, signedIn>>

(* The code is compared with the row as it was read.                       *)
Compare(r) ==
  /\ At(r, "compare")
  /\ compared' = compared + 1
  /\ IF request[r].code = request[r].read.code THEN To(r, "account") ELSE End(r)
  /\ UNCHANGED <<route, now, row, drawn, stored, signedIn>>

(* The account of the address: to sign in or to make, none and none to     *)
(* make, or disabled.  confirmEmail has its user already.                  *)
Account(r) ==
  /\ At(r, "account")
  /\ \/ To(r, "spend")
     \/ route = "passwordless" /\ End(r)
  /\ UNCHANGED <<route, now, row, drawn, stored, compared, signedIn>>

spendCode(r) ==
  /\ At(r, "spend")
  /\ IF Same(r)
     THEN row' = None /\ signedIn' = [signedIn EXCEPT ![request[r].read.code] = @ + 1] /\ End(r)
     ELSE End(r) /\ UNCHANGED <<row, signedIn>>
  /\ UNCHANGED <<route, now, drawn, stored, compared>>

(* A statement fails: the request answers the error, and counts nothing.   *)
Errs(r) ==
  /\ request[r].pc \in {"update", "insert", "read", "claim", "account", "spend"}
  /\ End(r)
  /\ UNCHANGED <<route, now, row, drawn, stored, compared, signedIn>>

sweepLoginCodes ==
  /\ row # None /\ row.created + CodeTTL < now
  /\ row' = None
  /\ UNCHANGED <<route, now, drawn, request, stored, compared, signedIn>>

Passes ==
  /\ now < MaxTime
  /\ now' = now + 1
  /\ UNCHANGED <<route, row, drawn, request, stored, compared, signedIn>>

CodesNext ==
  \/ \E r \in Requests :
       \/ Start(r) \/ saveUpdate(r) \/ saveInsert(r)
       \/ \E code \in 0..drawn : Verify(r, "code", code)
       \/ \E code \in stored : Verify(r, "token", code)
       \/ Read(r) \/ claimAttempt(r) \/ Compare(r) \/ Account(r) \/ spendCode(r) \/ Errs(r)
  \/ sweepLoginCodes
  \/ Passes

CodesSpec == CodesInit /\ [][CodesNext]_codeVars

-----------------------------------------------------------------------------
(* Concurrent guesses get no more than MaxAttempts comparisons out of each *)
(* code stored: claimAttempt counts before the code is compared.  A guess  *)
(* in flight across a resend takes its comparison of the old code from the *)
(* new one's attempts, so the bound is on all the codes together.          *)
GuessesBounded == compared <= MaxAttempts * Cardinality(stored)

(* A code, or its magic link, is good once: of two requests with it one    *)
(* deletes the row, and a resend, which keeps the row's id, does not let   *)
(* the code it replaced delete the new one and sign in as well.            *)
SignsInOnce == \A c \in 1..MaxCodes : signedIn[c] <= 1 /\ (signedIn[c] = 1 => c \in stored)

(* A code is worth a bounded number of guesses and one sign-in.            *)
CodesBounded == GuessesBounded /\ SignsInOnce
=============================================================================
