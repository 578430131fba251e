---------------------------- MODULE SignInProofs ----------------------------
(***************************************************************************)
(* Proofs about the two ways to sign in that do not need a password: a     *)
(* mailed code (LoginCodes), for any number of concurrent requests and     *)
(* codes and any lifetime, resend interval and number of attempts, and a   *)
(* provider (OAuthSessions), for any number of sign-ins, browsers and      *)
(* concurrent requests, any capacity of the store and any lifetimes; and   *)
(* about the throttle in front of both (LoginLimiter), for any keys,       *)
(* callers, limits, window and capacity of its table.                      *)
(***************************************************************************)
EXTENDS LoginCodes, OAuthSessions, LoginLimiter, FiniteSetTheorems, TLAPS

-----------------------------------------------------------------------------
(* Mailed codes.                                                           *)

\* A row, or what a request read of one; times are times of the clock.
RowRecord == [id : Nat, code : Nat, attempts : Nat, created : Nat]

\* A request.
RequestRecord ==
  [pc : {"idle", "update", "insert", "read", "claim", "compare", "account", "spend"}, by : {"code", "token"},
   read : RowRecord, code : Nat, now : Nat]

\* The types of the state.
CodesTypeOK ==
  /\ route \in {"passwordless", "confirm"} /\ now \in Nat /\ drawn \in Nat /\ drawn <= MaxCodes
  /\ row \in RowRecord
  /\ request \in [Requests -> RequestRecord]
  /\ stored \in SUBSET (1..drawn) /\ IsFiniteSet(stored)
  /\ compared \in Nat
  /\ signedIn \in [1..MaxCodes -> Nat]

\* A start whose code is not stored yet, a verify that has read a row, and
\* the requests whose attempt is claimed and not yet compared.
Pending(r) == request[r].pc \in {"update", "insert"}
HasRead(r) == request[r].pc \in {"claim", "compare", "account", "spend"}
Comparing == {r \in Requests : request[r].pc = "compare"}

\* Codes waiting to be stored are new, and each is one request's.
PendingInv ==
  \A r \in Requests : Pending(r) =>
    /\ request[r].code \in 1..drawn /\ request[r].code \notin stored
    /\ \A q \in Requests : Pending(q) /\ request[q].code = request[r].code => q = r

\* The row is of stored codes, within its attempts, and has let no one in.
RowInv ==
  row # None => /\ row.id \in stored /\ row.code \in stored
                /\ row.attempts <= MaxAttempts /\ signedIn[row.code] = 0

\* Whoever has read a code knows the id of its row, and once the code has let
\* someone in the row under that id is gone for good: a resend keeps the id
\* only of a row that is there.
ReadInv ==
  \A r \in Requests : HasRead(r) =>
    /\ request[r].read.id \in stored /\ request[r].read.code \in stored
    /\ row # None /\ row.code = request[r].read.code => row.id = request[r].read.id
    /\ signedIn[request[r].read.code] > 0 => row = None \/ row.id # request[r].read.id
    /\ \A q \in Requests :
         HasRead(q) /\ request[q].read.code = request[r].read.code => request[q].read.id = request[r].read.id

\* Every comparison, made or claimed, was counted against a stored code, and
\* the row's attempts not yet claimed are still to come.
GuessesInv ==
  /\ IsFiniteSet(Comparing)
  /\ compared + Cardinality(Comparing) + (IF row # None THEN MaxAttempts - row.attempts ELSE 0)
       <= MaxAttempts * Cardinality(stored)

\* The inductive invariant.
CodesInv == CodesTypeOK /\ PendingInv /\ RowInv /\ ReadInv /\ GuessesInv /\ SignsInOnce

-----------------------------------------------------------------------------
\* The invariant bounds the guesses: what is claimed or left is not negative.
LEMMA CodesInvBounds == CodesInv => CodesBounded
<1> SUFFICES ASSUME CodesInv PROVE GuessesBounded
  BY DEF CodesBounded, CodesInv
<1>1. Cardinality(Comparing) \in Nat /\ Cardinality(stored) \in Nat
  BY FS_CardinalityType DEF CodesInv, GuessesInv, CodesTypeOK
<1>2. (IF row # None THEN MaxAttempts - row.attempts ELSE 0) \in Nat
  BY LoginCodesAssumption DEF CodesInv, RowInv, CodesTypeOK, RowRecord
<1>3. compared \in Nat /\ MaxAttempts * Cardinality(stored) \in Nat
  BY <1>1, LoginCodesAssumption DEF CodesInv, CodesTypeOK
<1>4. QED
  BY <1>1, <1>2, <1>3 DEF CodesInv, GuessesInv, GuessesBounded

\* No code is stored and no request is on its way.
LEMMA CodesInitInv == CodesInit => CodesInv
<1> SUFFICES ASSUME CodesInit PROVE CodesInv
  OBVIOUS
<1> USE LoginCodesAssumption DEF CodesInit, Fresh, None
<1>1. CodesTypeOK
  BY FS_EmptySet DEF CodesTypeOK, RequestRecord, RowRecord
<1>2. PendingInv /\ RowInv /\ ReadInv
  BY DEF PendingInv, RowInv, ReadInv, Pending, HasRead
<1>3. Comparing = {}
  BY DEF Comparing
<1>4. GuessesInv
  BY <1>3, FS_EmptySet DEF GuessesInv
<1>5. SignsInOnce
  BY DEF SignsInOnce
<1>6. QED
  BY <1>1, <1>2, <1>4, <1>5 DEF CodesInv

\* A request that has nothing claimed leaves the count of claimed comparisons.
LEMMA ComparingSame ==
  ASSUME NEW r \in Requests, \A q \in Requests : q # r => request'[q] = request[q],
         request[r].pc # "compare", request'[r].pc # "compare"
  PROVE  Comparing' = Comparing
  BY DEF Comparing

\* The request of r is over, or is a new one that has neither read a row nor
\* drawn a code: the rest of the state is untouched.
LEMMA QuietStepInv ==
  ASSUME NEW r \in Requests, CodesInv, UNCHANGED <<route, row, stored, compared, signedIn, drawn>>, now' \in Nat,
         request' \in [Requests -> RequestRecord],
         \A q \in Requests : q # r => request'[q] = request[q],
         request[r].pc # "compare", request'[r].pc \in {"idle", "read"}
  PROVE  CodesInv'
<1> USE DEF CodesInv
<1>1. CodesTypeOK'
  BY DEF CodesTypeOK
<1>2. PendingInv'
  BY DEF PendingInv, Pending
<1>3. RowInv'
  BY DEF RowInv
<1>4. ReadInv'
  BY DEF ReadInv, HasRead
<1>5. Comparing' = Comparing
  BY ComparingSame
<1>6. GuessesInv'
  BY <1>5 DEF GuessesInv
<1>7. SignsInOnce'
  BY DEF SignsInOnce
<1>8. QED
  BY <1>1, <1>2, <1>3, <1>4, <1>6, <1>7

\* What a request's own moves are: it goes to another statement, or it ends.
LEMMA ToMoves ==
  ASSUME CodesTypeOK, NEW r \in Requests, To(r, "insert") \/ To(r, "compare") \/ To(r, "account") \/ To(r, "spend")
  PROVE  /\ request' \in [Requests -> RequestRecord]
         /\ request'[r].read = request[r].read /\ request'[r].code = request[r].code
         /\ \A pc : To(r, pc) => request'[r].pc = pc
         /\ \A q \in Requests : q # r => request'[q] = request[q]
<1>1. PICK pc \in {"insert", "compare", "account", "spend"} : To(r, pc)
  OBVIOUS
<1>2. request[r] \in RequestRecord
  BY DEF CodesTypeOK
<1>3. [request[r] EXCEPT !.pc = pc] \in RequestRecord
  BY <1>2 DEF RequestRecord
<1>4. request'[r] = [request[r] EXCEPT !.pc = pc]
  BY <1>1 DEF To, CodesTypeOK
<1>5. request' \in [Requests -> RequestRecord]
  BY <1>1, <1>3 DEF To, CodesTypeOK
<1>6. \A x : To(r, x) => request'[r].pc = x
  BY <1>2 DEF To, CodesTypeOK, RequestRecord
<1>7. QED
  BY <1>1, <1>2, <1>4, <1>5, <1>6 DEF To, CodesTypeOK, RequestRecord

\* A request that ends is fresh.
LEMMA EndMoves ==
  ASSUME CodesTypeOK, NEW r \in Requests, End(r)
  PROVE  /\ request' \in [Requests -> RequestRecord] /\ request'[r].pc = "idle"
         /\ \A q \in Requests : q # r => request'[q] = request[q]
  BY DEF End, Fresh, None, CodesTypeOK, RequestRecord, RowRecord

\* A statement fails and the request answers the error.
LEMMA ErrsInv ==
  ASSUME NEW r \in Requests, CodesInv, Errs(r)
  PROVE  CodesInv'
<1>1. /\ request' \in [Requests -> RequestRecord] /\ request'[r].pc = "idle"
      /\ \A q \in Requests : q # r => request'[q] = request[q]
  BY EndMoves DEF Errs, CodesInv
<1>2. QED
  BY <1>1, QuietStepInv DEF Errs, CodesInv, CodesTypeOK

\* A verify arrives.
LEMMA VerifyInv ==
  ASSUME NEW r \in Requests, NEW by \in {"code", "token"}, NEW code \in Nat, CodesInv, Verify(r, by, code)
  PROVE  CodesInv'
<1>1. /\ request' \in [Requests -> RequestRecord] /\ request'[r].pc = "read" /\ request[r].pc = "idle"
      /\ \A q \in Requests : q # r => request'[q] = request[q]
  BY DEF Verify, At, Fresh, None, CodesInv, CodesTypeOK, RequestRecord, RowRecord
<1>2. QED
  BY <1>1, QuietStepInv DEF Verify, CodesInv, CodesTypeOK

\* A start draws a code no one else has.
LEMMA StartInv ==
  ASSUME NEW r \in Requests, CodesInv, Start(r)
  PROVE  CodesInv'
<1> USE LoginCodesAssumption DEF CodesInv
<1>1. /\ drawn' = drawn + 1 /\ drawn < MaxCodes /\ drawn \in Nat
      /\ UNCHANGED <<route, now, row, stored, compared, signedIn>>
  BY DEF Start, CodesTypeOK
<1>2. /\ request' \in [Requests -> RequestRecord]
      /\ request[r].pc = "idle" /\ request'[r].pc = "update" /\ request'[r].code = drawn + 1
      /\ \A q \in Requests : q # r => request'[q] = request[q]
  <2> DEFINE q == [Fresh EXCEPT !.pc = "update", !.code = drawn + 1, !.now = now]
  <2>1. q \in RequestRecord /\ q.pc = "update" /\ q.code = drawn + 1
    <3>1. drawn + 1 \in Nat /\ now \in Nat
      BY <1>1 DEF CodesTypeOK
    <3>2. Fresh \in RequestRecord
      BY DEF Fresh, None, RequestRecord, RowRecord
    <3> HIDE DEF CodesInv
    <3>3. QED
      BY <3>1, <3>2 DEF RequestRecord
  <2>2. request' = [request EXCEPT ![r] = q] /\ request[r].pc = "idle"
    BY DEF Start, At
  <2> HIDE DEF q
  <2>3. QED
    BY <2>1, <2>2 DEF CodesTypeOK
<1>3. CodesTypeOK'
  BY <1>1, <1>2 DEF CodesTypeOK
<1>4. PendingInv'
  <2>1. drawn + 1 \notin stored
    BY <1>1 DEF CodesTypeOK
  <2>2. QED
    BY <1>1, <1>2, <2>1 DEF PendingInv, Pending
<1>5. RowInv' /\ ReadInv'
  BY <1>1, <1>2 DEF RowInv, ReadInv, HasRead
<1>6. Comparing' = Comparing
  BY <1>2, ComparingSame
<1>7. GuessesInv' /\ SignsInOnce'
  BY <1>1, <1>6 DEF GuessesInv, SignsInOnce
<1>8. QED
  BY <1>3, <1>4, <1>5, <1>7

\* What storing a code does, by the UPDATE of a row or by an INSERT: the code
\* is new, nobody has read it, and it brings MaxAttempts comparisons.
LEMMA StoreInv ==
  ASSUME NEW r \in Requests, CodesInv, Pending(r), NEW id \in Nat,
         id = request[r].code \/ (row # None /\ id = row.id), id # request[r].code => row # None,
         id = request[r].code => row = None,
         row' = Written(r, id), stored' = stored \cup {request[r].code}, End(r),
         UNCHANGED <<route, now, drawn, compared, signedIn>>
  PROVE  CodesInv'
<1> USE LoginCodesAssumption DEF CodesInv
<1> DEFINE c == request[r].code
<1>1. c \in 1..drawn /\ c \notin stored /\ drawn \in Nat /\ drawn <= MaxCodes
  BY DEF PendingInv, CodesTypeOK
<1>2. /\ request' \in [Requests -> RequestRecord] /\ request'[r].pc = "idle"
      /\ \A q \in Requests : q # r => request'[q] = request[q]
  BY DEF End, Fresh, None, CodesTypeOK, RequestRecord, RowRecord
<1>3. /\ row' \in RowRecord /\ row'.id = id /\ row'.code = c /\ row'.attempts = 0
      /\ row' # None
  BY <1>1, SMTT(30) DEF Written, None, CodesTypeOK, RequestRecord, RowRecord
<1>4. IsFiniteSet(stored') /\ Cardinality(stored') = Cardinality(stored) + 1 /\ Cardinality(stored) \in Nat
  BY <1>1, FS_AddElement, FS_CardinalityType DEF CodesTypeOK
<1>5. id \in stored'
  BY <1>1 DEF RowInv
<1>6. signedIn[c] = 0 /\ signedIn[c] \in Nat
  BY <1>1 DEF SignsInOnce, CodesTypeOK
<1> HIDE DEF c
<1>7. CodesTypeOK'
  BY <1>1, <1>2, <1>3, <1>4 DEF CodesTypeOK, c
<1>8. PendingInv'
  BY <1>1, <1>2 DEF PendingInv, Pending, c
<1>9. RowInv'
  BY <1>3, <1>5, <1>6 DEF RowInv, c
<1>10. ReadInv'
  <2>1. ASSUME NEW q \in Requests, HasRead(q)'
        PROVE  /\ q # r /\ HasRead(q) /\ request'[q] = request[q]
               /\ request[q].read.code \in stored /\ request[q].read.id \in stored
               /\ request[q].read.code # c
               /\ signedIn[request[q].read.code] > 0 => id # request[q].read.id
    BY <1>1, <1>2, <2>1 DEF ReadInv, HasRead, c
  <2>2. QED
    BY <1>3, <2>1 DEF ReadInv
<1>11. Comparing' = Comparing
  BY <1>2, ComparingSame DEF Pending
<1>12. GuessesInv'
  <2>1. Cardinality(Comparing) \in Nat /\ compared \in Nat /\ MaxAttempts \in Nat
    BY FS_CardinalityType DEF GuessesInv, CodesTypeOK
  <2>2. MaxAttempts * Cardinality(stored') = MaxAttempts * Cardinality(stored) + MaxAttempts
    BY <1>4, <2>1
  <2>3. (IF row # None THEN MaxAttempts - row.attempts ELSE 0) \in Nat
    BY DEF RowInv, CodesTypeOK, RowRecord
  <2>4. MaxAttempts * Cardinality(stored) \in Nat
    BY <1>4, <2>1
  <2>5. QED
    BY <1>3, <1>11, <2>1, <2>2, <2>3, <2>4 DEF GuessesInv, CodesTypeOK
<1>13. SignsInOnce'
  BY DEF SignsInOnce
<1>14. QED
  BY <1>7, <1>8, <1>9, <1>10, <1>12, <1>13

\* The UPDATE of saveLoginCode stores the code under the row's id, or finds no
\* row old enough and leaves it to the INSERT.
LEMMA SaveUpdateInv ==
  ASSUME NEW r \in Requests, CodesInv, saveUpdate(r)
  PROVE  CodesInv'
<1> USE DEF CodesInv
<1>1. CASE row # None /\ row.created <= request[r].now - ResendAfter
  <2>1. row.id # request[r].code /\ row.id \in Nat
    BY <1>1 DEF saveUpdate, At, PendingInv, Pending, RowInv, CodesTypeOK, RowRecord
  <2>2. QED
    BY <1>1, <2>1, StoreInv DEF saveUpdate, At, Pending
<1>2. CASE ~ (row # None /\ row.created <= request[r].now - ResendAfter)
  <2>1. UNCHANGED <<route, now, row, drawn, stored, compared, signedIn>>
    BY <1>2 DEF saveUpdate
  <2>2. /\ request' \in [Requests -> RequestRecord]
        /\ request[r].pc = "update" /\ request'[r].pc = "insert" /\ request'[r].code = request[r].code
        /\ \A q \in Requests : q # r => request'[q] = request[q]
    BY <1>2, ToMoves DEF saveUpdate, At
  <2>3. CodesTypeOK' /\ PendingInv'
    BY <2>1, <2>2 DEF CodesTypeOK, PendingInv, Pending
  <2>4. RowInv' /\ ReadInv'
    BY <2>1, <2>2 DEF RowInv, ReadInv, HasRead
  <2>5. GuessesInv' /\ SignsInOnce'
    BY <2>1, <2>2, ComparingSame DEF GuessesInv, SignsInOnce
  <2>6. QED
    BY <2>3, <2>4, <2>5
<1>3. QED
  BY <1>1, <1>2

\* The INSERT stores the code under an id of its own, or yields to a row.
LEMMA SaveInsertInv ==
  ASSUME NEW r \in Requests, CodesInv, saveInsert(r)
  PROVE  CodesInv'
<1> USE DEF CodesInv
<1>1. CASE row = None
  <2>1. request[r].code \in Nat
    BY DEF CodesTypeOK, RequestRecord
  <2>2. QED
    BY <1>1, <2>1, StoreInv DEF saveInsert, At, Pending
<1>2. CASE row # None
  <2>1. /\ request' \in [Requests -> RequestRecord] /\ request'[r].pc = "idle" /\ request[r].pc = "insert"
        /\ \A q \in Requests : q # r => request'[q] = request[q]
    BY EndMoves DEF saveInsert, At
  <2>2. QED
    BY <1>2, <2>1, QuietStepInv DEF saveInsert, CodesTypeOK
<1>3. QED
  BY <1>1, <1>2

\* A verify reads the row: a code that is still stored and has let no one in.
LEMMA ReadRowInv ==
  ASSUME NEW r \in Requests, CodesInv, Read(r)
  PROVE  CodesInv'
<1> USE DEF CodesInv
<1> DEFINE found == row # None /\ (request[r].by = "token" => row.code = request[r].code)
           good == found /\ now < row.created + CodeTTL /\ row.attempts < MaxAttempts
<1>1. request[r].pc = "read" /\ UNCHANGED <<route, now, row, drawn, stored, compared, signedIn>>
  BY DEF Read, At
<1>2. \A q \in Requests : q # r => request'[q] = request[q]
  BY DEF Read, CodesTypeOK
<1>3. CASE good
  <2>1. request'[r] = [request[r] EXCEPT !.pc = IF request[r].by = "code" THEN "claim" ELSE "account", !.read = row, !.now = now]
    BY <1>3 DEF Read, CodesTypeOK
  <2>2. request[r] \in RequestRecord /\ row \in RowRecord /\ now \in Nat /\ row # None
    BY <1>3 DEF CodesTypeOK
  <2>3. /\ request'[r] \in RequestRecord /\ request'[r].pc \in {"claim", "account"}
        /\ request'[r].read = row
    BY <2>1, <2>2 DEF RequestRecord
  <2>4. request' \in [Requests -> RequestRecord]
    BY <2>3 DEF Read, CodesTypeOK
  <2> HIDE DEF good, found
  <2>5. CodesTypeOK'
    BY <1>1, <2>4 DEF CodesTypeOK
  <2>6. PendingInv' /\ RowInv'
    BY <1>1, <1>2, <2>3 DEF PendingInv, Pending, RowInv
  <2>7. ReadInv'
    <3>1. row.id \in stored /\ row.code \in stored /\ signedIn[row.code] = 0
      BY <2>2 DEF RowInv
    <3>2. \A q \in Requests : q # r => (HasRead(q)' <=> HasRead(q))
      BY <1>2 DEF HasRead
    <3>3. ASSUME NEW q \in Requests, q # r, HasRead(q)
          PROVE  request[q].read.code = row.code => request[q].read.id = row.id
      BY <2>2, <3>3 DEF ReadInv
    <3>4. QED
      BY <1>1, <1>2, <2>2, <2>3, <3>1, <3>2, <3>3 DEF ReadInv
  <2>8. GuessesInv' /\ SignsInOnce'
    BY <1>1, <1>2, <2>3, ComparingSame DEF GuessesInv, SignsInOnce
  <2>9. QED
    BY <2>5, <2>6, <2>7, <2>8
<1>4. CASE ~ good
  <2>1. request'[r] = Fresh
    BY <1>4 DEF Read, CodesTypeOK
  <2>2. Fresh \in RequestRecord /\ Fresh.pc = "idle"
    BY DEF Fresh, None, RequestRecord, RowRecord
  <2>3. request' \in [Requests -> RequestRecord]
    BY <2>1, <2>2 DEF Read, CodesTypeOK
  <2>4. QED
    BY <1>1, <1>2, <2>1, <2>2, <2>3, QuietStepInv DEF CodesTypeOK
<1>5. QED
  BY <1>3, <1>4

\* claimAttempt counts the attempt before the code is compared, and only while
\* the row has one left.
LEMMA ClaimAttemptInv ==
  ASSUME NEW r \in Requests, CodesInv, claimAttempt(r)
  PROVE  CodesInv'
<1> USE LoginCodesAssumption DEF CodesInv
<1>1. request[r].pc = "claim" /\ UNCHANGED <<route, now, drawn, stored, compared, signedIn>>
  BY DEF claimAttempt, At
<1>2. CASE Same(r) /\ row.attempts < MaxAttempts
  <2>1. row' = [row EXCEPT !.attempts = @ + 1] /\ row # None
    BY <1>2 DEF claimAttempt, Same
  <2>2. /\ row' \in RowRecord /\ row'.id = row.id /\ row'.code = row.code /\ row'.attempts = row.attempts + 1
        /\ row.attempts \in Nat
    BY <2>1, SMTT(30) DEF CodesTypeOK, RowRecord
  <2>3. row' # None
    BY <2>2 DEF None
  <2>4. /\ request' \in [Requests -> RequestRecord] /\ request'[r].pc = "compare" /\ request'[r].read = request[r].read
        /\ \A q \in Requests : q # r => request'[q] = request[q]
    BY <1>2, ToMoves DEF claimAttempt
  <2>5. CodesTypeOK'
    BY <1>1, <2>2, <2>4 DEF CodesTypeOK
  <2>6. PendingInv' /\ RowInv'
    BY <1>1, <1>2, <2>1, <2>2, <2>4 DEF PendingInv, Pending, RowInv
  <2>7. ReadInv'
    <3>1. \A q \in Requests : (HasRead(q)' <=> HasRead(q)) /\ request'[q].read = request[q].read
      BY <1>1, <2>4 DEF HasRead
    <3>2. QED
      BY <1>1, <2>1, <2>2, <2>3, <3>1 DEF ReadInv
  <2>8. Comparing' = Comparing \cup {r} /\ r \notin Comparing
    BY <1>1, <2>4 DEF Comparing
  <2>9. /\ IsFiniteSet(Comparing') /\ Cardinality(Comparing') = Cardinality(Comparing) + 1
        /\ Cardinality(Comparing) \in Nat /\ Cardinality(stored) \in Nat
    BY <2>8, FS_AddElement, FS_CardinalityType DEF GuessesInv, CodesTypeOK
  <2>10. GuessesInv'
    BY <1>1, <2>1, <2>2, <2>3, <2>9, SMTT(30) DEF GuessesInv, CodesTypeOK
  <2>11. SignsInOnce'
    BY <1>1 DEF SignsInOnce
  <2>12. QED
    BY <2>5, <2>6, <2>7, <2>10, <2>11
<1>3. CASE ~ (Same(r) /\ row.attempts < MaxAttempts)
  <2>1. /\ request' \in [Requests -> RequestRecord] /\ request'[r].pc = "idle" /\ UNCHANGED row
        /\ \A q \in Requests : q # r => request'[q] = request[q]
    BY <1>3, EndMoves DEF claimAttempt
  <2>2. QED
    BY <1>1, <2>1, QuietStepInv DEF CodesTypeOK
<1>4. QED
  BY <1>2, <1>3

\* A comparison uses up the attempt claimed for it.
LEMMA CompareInv ==
  ASSUME NEW r \in Requests, CodesInv, Compare(r)
  PROVE  CodesInv'
<1> USE LoginCodesAssumption DEF CodesInv
<1>1. /\ request[r].pc = "compare" /\ compared' = compared + 1 /\ compared \in Nat
      /\ UNCHANGED <<route, now, row, drawn, stored, signedIn>>
  BY DEF Compare, At, CodesTypeOK
<1>2. /\ request' \in [Requests -> RequestRecord] /\ request'[r].pc \in {"account", "idle"}
      /\ \A q \in Requests : q # r => request'[q] = request[q]
  <2>1. CASE request[r].code = request[r].read.code
    BY <2>1, ToMoves DEF Compare
  <2>2. CASE request[r].code # request[r].read.code
    BY <2>2, EndMoves DEF Compare
  <2>3. QED
    BY <2>1, <2>2
<1>3. request'[r].pc = "account" => request'[r].read = request[r].read
  BY ToMoves, EndMoves DEF Compare
<1>4. CodesTypeOK'
  BY <1>1, <1>2 DEF CodesTypeOK
<1>5. PendingInv' /\ RowInv'
  BY <1>1, <1>2 DEF PendingInv, Pending, RowInv
<1>6. ReadInv'
  <2>1. \A q \in Requests : HasRead(q)' => HasRead(q) /\ request'[q].read = request[q].read
    BY <1>1, <1>2, <1>3 DEF HasRead
  <2>2. QED
    BY <1>1, <2>1 DEF ReadInv
<1>7. Comparing' = Comparing \ {r} /\ r \in Comparing
  BY <1>1, <1>2 DEF Comparing
<1>8. /\ IsFiniteSet(Comparing') /\ Cardinality(Comparing') = Cardinality(Comparing) - 1
      /\ Cardinality(Comparing) \in Nat /\ Cardinality(stored) \in Nat
  BY <1>7, FS_RemoveElement, FS_CardinalityType DEF GuessesInv, CodesTypeOK
<1>9. GuessesInv'
  <2>1. compared' + Cardinality(Comparing') = compared + Cardinality(Comparing)
    BY <1>1, <1>8
  <2>2. QED
    BY <1>1, <1>8, <2>1 DEF GuessesInv
<1>10. SignsInOnce'
  BY <1>1 DEF SignsInOnce
<1>11. QED
  BY <1>4, <1>5, <1>6, <1>9, <1>10

\* The account is looked up; the request goes on or ends.
LEMMA AccountInv ==
  ASSUME NEW r \in Requests, CodesInv, Account(r)
  PROVE  CodesInv'
<1> USE DEF CodesInv
<1>1. request[r].pc = "account" /\ UNCHANGED <<route, now, row, drawn, stored, compared, signedIn>>
  BY DEF Account, At
<1>2. CASE To(r, "spend")
  <2>1. /\ request' \in [Requests -> RequestRecord] /\ request'[r].pc = "spend" /\ request'[r].read = request[r].read
        /\ \A q \in Requests : q # r => request'[q] = request[q]
    BY <1>2 DEF To, CodesTypeOK, RequestRecord
  <2>2. CodesTypeOK' /\ PendingInv' /\ RowInv'
    BY <1>1, <2>1 DEF CodesTypeOK, PendingInv, Pending, RowInv
  <2>3. ReadInv'
    <3>1. \A q \in Requests : (HasRead(q)' <=> HasRead(q)) /\ request'[q].read = request[q].read
      BY <1>1, <2>1 DEF HasRead
    <3>2. QED
      BY <1>1, <3>1 DEF ReadInv
  <2>4. GuessesInv' /\ SignsInOnce'
    BY <1>1, <2>1, ComparingSame DEF GuessesInv, SignsInOnce
  <2>5. QED
    BY <2>2, <2>3, <2>4
<1>3. CASE End(r)
  <2>1. /\ request' \in [Requests -> RequestRecord] /\ request'[r].pc = "idle"
        /\ \A q \in Requests : q # r => request'[q] = request[q]
    BY <1>3, EndMoves
  <2>2. QED
    BY <1>1, <2>1, QuietStepInv DEF CodesTypeOK
<1>4. QED
  BY <1>2, <1>3 DEF Account

\* spendCode deletes the row by the id that was read: the code read has let no
\* one in yet, and from here on no row with that id comes back.
LEMMA SpendCodeInv ==
  ASSUME NEW r \in Requests, CodesInv, spendCode(r)
  PROVE  CodesInv'
<1> USE LoginCodesAssumption DEF CodesInv
<1>1. request[r].pc = "spend" /\ UNCHANGED <<route, now, drawn, stored, compared>>
  BY DEF spendCode, At
<1>2. /\ request' \in [Requests -> RequestRecord] /\ request'[r].pc = "idle"
      /\ \A q \in Requests : q # r => request'[q] = request[q]
  BY EndMoves DEF spendCode
<1>3. CASE Same(r)
  <2> DEFINE c == request[r].read.code
  <2>1. c \in stored /\ c \in 1..MaxCodes
    <3>1. c \in stored /\ stored \subseteq 1..drawn /\ drawn \in Nat /\ drawn <= MaxCodes
      BY <1>1 DEF ReadInv, HasRead, CodesTypeOK
    <3>2. MaxCodes \in Nat
      OBVIOUS
    <3> HIDE DEF c
    <3>3. QED
      BY <3>1, <3>2
  <2>2. ~ (signedIn[c] > 0)
    BY <1>1, <1>3 DEF ReadInv, HasRead, Same
  <2>3. row' = None /\ signedIn' = [signedIn EXCEPT ![c] = @ + 1]
    BY <1>3 DEF spendCode
  <2> HIDE DEF c
  <2>4. signedIn[c] = 0 /\ signedIn'[c] = 1 /\ \A d \in 1..MaxCodes : d # c => signedIn'[d] = signedIn[d]
    BY <2>1, <2>2, <2>3 DEF CodesTypeOK
  <2>5. None \in RowRecord
    BY DEF None, RowRecord
  <2>6. CodesTypeOK'
    BY <1>1, <1>2, <2>1, <2>3, <2>5 DEF CodesTypeOK
  <2>7. PendingInv' /\ RowInv'
    BY <1>1, <1>2, <2>3 DEF PendingInv, Pending, RowInv
  <2>8. ReadInv'
    BY <1>1, <1>2, <2>3 DEF ReadInv, HasRead
  <2>9. GuessesInv'
    <3>1. Comparing' = Comparing
      BY <1>1, <1>2, ComparingSame
    <3>2. row # None /\ MaxAttempts - row.attempts \in Nat
      BY <1>3 DEF Same, RowInv, CodesTypeOK, RowRecord
    <3>3. /\ Cardinality(Comparing) \in Nat /\ compared \in Nat
          /\ MaxAttempts * Cardinality(stored) \in Nat
      BY FS_CardinalityType DEF GuessesInv, CodesTypeOK
    <3>4. QED
      BY <1>1, <2>3, <3>1, <3>2, <3>3 DEF GuessesInv
  <2>10. SignsInOnce'
    BY <1>1, <2>1, <2>4 DEF SignsInOnce
  <2>11. QED
    BY <2>6, <2>7, <2>8, <2>9, <2>10
<1>4. CASE ~ Same(r)
  BY <1>1, <1>2, <1>4, QuietStepInv DEF spendCode, CodesTypeOK
<1>5. QED
  BY <1>3, <1>4

\* The sweep deletes the row, and time passes: no request moves.
LEMMA SweepInv ==
  ASSUME CodesInv, sweepLoginCodes \/ Passes
  PROVE  CodesInv'
<1> USE LoginCodesAssumption DEF CodesInv
<1>1. /\ UNCHANGED <<route, drawn, request, stored, compared, signedIn>> /\ now' \in Nat
      /\ row' = None \/ row' = row
  BY DEF sweepLoginCodes, Passes, CodesTypeOK
<1>2. None \in RowRecord
  BY DEF None, RowRecord
<1>3. CodesTypeOK'
  BY <1>1, <1>2 DEF CodesTypeOK
<1>4. PendingInv' /\ RowInv' /\ ReadInv'
  BY <1>1 DEF PendingInv, Pending, RowInv, ReadInv, HasRead
<1>5. GuessesInv'
  <2>1. Comparing' = Comparing
    BY <1>1 DEF Comparing
  <2>2. row # None => MaxAttempts - row.attempts \in Nat
    BY DEF RowInv, CodesTypeOK, RowRecord
  <2>3. /\ Cardinality(Comparing) \in Nat /\ compared \in Nat
        /\ MaxAttempts * Cardinality(stored) \in Nat
    BY FS_CardinalityType DEF GuessesInv, CodesTypeOK
  <2>4. QED
    BY <1>1, <2>1, <2>2, <2>3 DEF GuessesInv
<1>6. SignsInOnce'
  BY <1>1 DEF SignsInOnce
<1>7. QED
  BY <1>3, <1>4, <1>5, <1>6

-----------------------------------------------------------------------------
\* Every step keeps the inductive invariant.
LEMMA CodesNextInv == CodesInv /\ [CodesNext]_codeVars => CodesInv'
<1> SUFFICES ASSUME CodesInv, [CodesNext]_codeVars PROVE CodesInv'
  OBVIOUS
<1>1. ASSUME NEW r \in Requests, NEW code \in 0..drawn, Verify(r, "code", code) PROVE CodesInv'
  <2>1. code \in Nat
    BY DEF CodesInv, CodesTypeOK
  <2>2. QED
    BY <1>1, <2>1, VerifyInv
<1>2. ASSUME NEW r \in Requests, NEW code \in stored, Verify(r, "token", code) PROVE CodesInv'
  <2>1. code \in Nat
    BY DEF CodesInv, CodesTypeOK
  <2>2. QED
    BY <1>2, <2>1, VerifyInv
<1>3. CASE CodesNext
  BY <1>1, <1>2, <1>3, StartInv, SaveUpdateInv, SaveInsertInv, ReadRowInv, ClaimAttemptInv, CompareInv, AccountInv, SpendCodeInv,
     ErrsInv, SweepInv DEF CodesNext
<1>4. CASE UNCHANGED codeVars
  BY <1>4 DEF codeVars, CodesInv, CodesTypeOK, PendingInv, Pending, RowInv, ReadInv, HasRead, GuessesInv, Comparing, SignsInOnce
<1>5. QED
  BY <1>3, <1>4

\* All the codes stored get no more than MaxAttempts comparisons each, and each
\* lets one request in at most: for any number of requests that guess, resend
\* and follow the link at once.
THEOREM CodesAreBounded == CodesSpec => []CodesBounded
<1>1. CodesInit => CodesInv
  BY CodesInitInv
<1>2. CodesInv /\ [CodesNext]_codeVars => CodesInv'
  BY CodesNextInv
<1>3. CodesInv => CodesBounded
  BY CodesInvBounds
<1>4. QED
  BY <1>1, <1>2, <1>3, PTL DEF CodesSpec

-----------------------------------------------------------------------------
(* Sign-ins through a provider.                                            *)

\* An entry of the store.
Entry == [key : [kind : {"session", "code"}, signIn : SignIns], expires : Nat, place : Nat]

\* A request.
HitRecord ==
  [pc : {"idle", "begins", "callback", "completes", "exchange"}, browser : Browsers \cup {"none"},
   provider : Providers \cup {"none"}, carries : SignIns \cup {0}, names : SignIns \cup {0}]

\* The types of the flow's state.
OAuthTypeOK ==
  /\ span \in Nat /\ IsFiniteSet(lru)
  /\ \A e \in lru : e \in Entry
  /\ sessionOf \in [Browsers -> SignIns \cup {0}] /\ bindingOf \in [Browsers -> SignIns \cup {0}]
  /\ begun \in [SignIns -> [browser : Browsers \cup {"none"}, provider : Providers \cup {"none"}, linking : BOOLEAN]]
  /\ hit \in [Hits -> HitRecord]
  /\ completed \in [SignIns -> Nat]
  /\ traded \in Seq([signIn : SignIns, browser : Browsers])

\* The store keeps an entry under this key.
Kept(kind, s) == \E e \in lru : e.key = Key(kind, s)

\* A token was issued for the sign-in.
Traded(s) == \E i \in DOMAIN traded : traded[i].signIn = s

\* A session is kept only for a sign-in that has begun and that no callback
\* has completed.
SessionsInv ==
  \A s \in SignIns :
    /\ completed[s] \in {0, 1}
    /\ Kept("session", s) => begun[s].browser # "none" /\ completed[s] = 0
    /\ completed[s] = 1 => begun[s].browser # "none"

\* A request past its session belongs to the browser that began the sign-in,
\* and it is the only one that completes it.
HitsInv ==
  \A h \in Hits :
    /\ hit[h].pc # "idle" => hit[h].browser \in Browsers /\ hit[h].names \in SignIns
    /\ hit[h].pc = "callback" => hit[h].carries \in SignIns
    /\ hit[h].pc \in {"callback", "completes"} => begun[hit[h].names].browser = hit[h].browser
    /\ hit[h].pc = "completes" => completed[hit[h].names] = 1
    /\ \A g \in Hits : hit[h].pc = "completes" /\ hit[g].pc = "completes" /\ hit[g].names = hit[h].names => g = h
    /\ hit[h].pc = "exchange" => /\ hit[h].carries \in SignIns
                                 /\ begun[hit[h].carries].browser = hit[h].browser
                                 /\ ~ begun[hit[h].carries].linking

\* A code is left by the one completion, which is over, and the binding cookie
\* is in the browser the sign-in began in; a traded sign-in has no code left.
TradesInv ==
  /\ \A s \in SignIns :
       /\ Kept("code", s) \/ Traded(s) => completed[s] = 1 /\ ~ begun[s].linking
       /\ Kept("code", s) \/ Traded(s) => \A h \in Hits : hit[h].pc = "completes" => hit[h].names # s
       /\ ~ (Kept("code", s) /\ Traded(s))
  /\ \A b \in Browsers : bindingOf[b] # 0 => begun[bindingOf[b]].browser = b /\ ~ begun[bindingOf[b]].linking

\* The inductive invariant.
OAuthInv == OAuthTypeOK /\ SessionsInv /\ HitsInv /\ TradesInv /\ SignInsBound

-----------------------------------------------------------------------------
(* The store.                                                              *)

\* What the order of use does to the entries that stay: it renumbers them.
LEMMA InOrderKeeps ==
  ASSUME NEW S, IsFiniteSet(S), \A e \in S : e \in Entry
  PROVE  /\ IsFiniteSet(InOrder(S))
         /\ \A e \in InOrder(S) : e \in Entry /\ \E f \in S : f.key = e.key
<1> DEFINE Nth(e) == [e EXCEPT !.place = Cardinality({f \in S : f.place <= e.place})]
<1>1. InOrder(S) = {Nth(e) : e \in S}
  BY DEF InOrder
<1>2. IsFiniteSet(InOrder(S))
  <2> DEFINE f == [e \in S |-> Nth(e)]
  <2>1. f \in Surjection(S, InOrder(S))
    BY <1>1 DEF Surjection
  <2>2. QED
    BY <2>1, FS_Surjection
<1>3. ASSUME NEW e \in S PROVE Nth(e) \in Entry /\ Nth(e).key = e.key
  <2>1. Cardinality({f \in S : f.place <= e.place}) \in Nat
    BY FS_Subset, FS_CardinalityType
  <2>2. QED
    BY <2>1 DEF Entry
<1>4. QED
  BY <1>1, <1>2, <1>3

\* An element of a sequence is of the sequence's type.
LEMMA SeqElement == ASSUME NEW S, NEW q \in Seq(S) PROVE \A i \in DOMAIN q : q[i] \in S
  OBVIOUS

\* The store's part of the type invariant.
StoreTypeOK == IsFiniteSet(lru) /\ \A e \in lru : e \in Entry

\* put keeps what was there, or all but the oldest, and adds one entry.
LEMMA StorePutKeeps ==
  ASSUME OAuthTypeOK, NEW kind \in {"session", "code"}, NEW s \in SignIns, NEW ttl \in Nat, storePut(kind, s, ttl)
  PROVE  /\ StoreTypeOK'
         /\ \A k, t : Kept(k, t)' => Kept(k, t) \/ (k = kind /\ t = s)
<1> DEFINE kept == IF Cardinality(lru) >= Capacity THEN {e \in lru : e.place # 1} ELSE lru
           new == [key |-> Key(kind, s), expires |-> span + ttl, place |-> Cardinality(kept) + 1]
<1>1. IsFiniteSet(kept) /\ kept \subseteq lru
  BY FS_Subset DEF OAuthTypeOK, HitRecord
<1>2. lru' = InOrder(kept) \cup {new}
  BY DEF storePut
<1> HIDE DEF kept
<1>3. Cardinality(kept) \in Nat
  BY <1>1, FS_CardinalityType
<1>4. new \in Entry
  BY <1>3 DEF OAuthTypeOK, HitRecord, Entry, Key
<1>5. new.key = Key(kind, s)
  OBVIOUS
<1> HIDE DEF new
<1>6. /\ IsFiniteSet(InOrder(kept))
      /\ \A e \in InOrder(kept) : e \in Entry /\ \E f \in kept : f.key = e.key
  BY <1>1, InOrderKeeps DEF OAuthTypeOK, HitRecord
<1>7. StoreTypeOK'
  BY <1>2, <1>4, <1>6, FS_AddElement DEF StoreTypeOK
<1>8. \A k, t : Kept(k, t)' => Kept(k, t) \/ (k = kind /\ t = s)
  BY <1>1, <1>2, <1>5, <1>6 DEF Kept, Key
<1>9. QED
  BY <1>7, <1>8

\* take removes its entry and no other.
LEMMA StoreTakeKeeps ==
  ASSUME OAuthTypeOK, NEW kind, NEW s, storeTake(kind, s)
  PROVE  /\ StoreTypeOK'
         /\ \A k, t : Kept(k, t)' => Kept(k, t) /\ ~ (k = kind /\ t = s)
<1> DEFINE kept == {e \in lru : e.key # Key(kind, s)}
<1>1. IsFiniteSet(kept) /\ kept \subseteq lru
  BY FS_Subset DEF OAuthTypeOK, HitRecord
<1>2. lru' = InOrder(kept)
  BY DEF storeTake
<1>3. \A e \in kept : e.key # Key(kind, s)
  OBVIOUS
<1> HIDE DEF kept
<1>4. /\ IsFiniteSet(InOrder(kept))
      /\ \A e \in InOrder(kept) : e \in Entry /\ \E f \in kept : f.key = e.key
  BY <1>1, InOrderKeeps DEF OAuthTypeOK, HitRecord
<1>5. QED
  BY <1>1, <1>2, <1>3, <1>4 DEF StoreTypeOK, Kept

\* The sweep only removes.
LEMMA SweepKeeps ==
  ASSUME OAuthTypeOK, sweep
  PROVE  /\ StoreTypeOK'
         /\ \A k, t : Kept(k, t)' => Kept(k, t)
<1> DEFINE kept == {e \in lru : ~ e.expires < span}
<1>1. IsFiniteSet(kept) /\ kept \subseteq lru
  BY FS_Subset DEF OAuthTypeOK, HitRecord
<1>2. lru' = InOrder(kept)
  BY DEF sweep
<1> HIDE DEF kept
<1>3. /\ IsFiniteSet(InOrder(kept))
      /\ \A e \in InOrder(kept) : e \in Entry /\ \E f \in kept : f.key = e.key
  BY <1>1, InOrderKeeps DEF OAuthTypeOK, HitRecord
<1>4. QED
  BY <1>1, <1>2, <1>3 DEF StoreTypeOK, Kept

-----------------------------------------------------------------------------
(* One lemma per action.                                                   *)

\* Nothing has begun.
LEMMA OAuthInitInv == OAuthInit => OAuthInv
<1> SUFFICES ASSUME OAuthInit PROVE OAuthInv
  OBVIOUS
<1> USE OAuthAssumption DEF OAuthInit, NotBegun, NoHit
<1>1. OAuthTypeOK
  BY FS_EmptySet DEF OAuthTypeOK, HitRecord
<1>2. SessionsInv
  BY DEF SessionsInv, Kept
<1>3. HitsInv
  BY DEF HitsInv
<1>4. TradesInv
  BY DEF TradesInv, Kept, Traded
<1>5. SignInsBound
  BY DEF SignInsBound, UsedOnce, SignedInWhereBegun
<1>6. QED
  BY <1>1, <1>2, <1>3, <1>4, <1>5 DEF OAuthInv

\* Time and the sweep only take sessions and codes away.
LEMMA ClockInv ==
  ASSUME OAuthInv, sweep \/ SpanPasses
  PROVE  OAuthInv'
<1> USE DEF OAuthInv
<1>1. StoreTypeOK' /\ \A k, t : Kept(k, t)' => Kept(k, t)
  BY SweepKeeps DEF SpanPasses, StoreTypeOK, OAuthTypeOK, HitRecord, Kept
<1>2. UNCHANGED <<sessionOf, bindingOf, begun, hit, completed, traded>> /\ span' \in Nat
  BY DEF sweep, SpanPasses, OAuthTypeOK, HitRecord
<1>3. OAuthTypeOK'
  BY <1>1, <1>2 DEF OAuthTypeOK, HitRecord, StoreTypeOK
<1>4. SessionsInv' /\ HitsInv' /\ TradesInv'
  BY <1>1, <1>2 DEF SessionsInv, HitsInv, TradesInv, Traded
<1>5. SignInsBound'
  BY <1>2 DEF SignInsBound, UsedOnce, SignedInWhereBegun
<1>6. QED
  BY <1>3, <1>4, <1>5

\* start begins a sign-in that nothing else in the flow names yet.
LEMMA BeginsInv ==
  ASSUME NEW h \in Hits, NEW s \in SignIns, NEW b \in Browsers, NEW p \in Providers, NEW linking \in BOOLEAN,
         OAuthInv, start(h, s, b, p, linking)
  PROVE  OAuthInv'
<1> USE OAuthAssumption DEF OAuthInv
<1>1. StoreTypeOK' /\ \A k, t : Kept(k, t)' => Kept(k, t) \/ (k = "session" /\ t = s)
  BY StorePutKeeps DEF start
<1>2. /\ begun[s].browser = "none" /\ begun'[s].browser = b
      /\ \A t \in SignIns : t # s => begun'[t] = begun[t]
  BY DEF start, NotBegun, OAuthTypeOK, HitRecord
<1>3. /\ hit'[h].pc = "begins" /\ hit'[h].browser = b /\ hit'[h].names = s
      /\ \A g \in Hits : g # h => hit'[g] = hit[g]
  BY DEF start, NoHit, OAuthTypeOK, HitRecord
<1>4. UNCHANGED <<span, sessionOf, bindingOf, completed, traded>>
  BY DEF start
<1>5. completed[s] = 0 /\ b # "none"
  BY <1>2 DEF SessionsInv
<1>6. OAuthTypeOK'
  BY <1>1, <1>4 DEF OAuthTypeOK, HitRecord, StoreTypeOK, start, NoHit
<1>7. SessionsInv'
  BY <1>1, <1>2, <1>4, <1>5 DEF SessionsInv
<1>8. HitsInv'
  <2>1. \A g \in Hits : hit[g].pc # "idle" => hit[g].names \in SignIns
    BY DEF HitsInv
  <2>2. ASSUME NEW g \in Hits, g # h
        PROVE  /\ hit[g].pc \in {"callback", "completes"} => begun'[hit[g].names] = begun[hit[g].names]
               /\ hit[g].pc = "exchange" => begun'[hit[g].carries] = begun[hit[g].carries]
    BY <1>2 DEF HitsInv
  <2>3. QED
    BY <1>3, <1>4, <2>2 DEF HitsInv
<1>9. TradesInv'
  <2>1. \A t \in SignIns : completed[t] = 1 => begun'[t] = begun[t]
    BY <1>2, <1>5
  <2>2. \A c \in Browsers : bindingOf[c] # 0 => bindingOf[c] \in SignIns
    BY DEF OAuthTypeOK, HitRecord
  <2>3. \A c \in Browsers : bindingOf[c] # 0 => begun'[bindingOf[c]] = begun[bindingOf[c]]
    BY <1>2, <2>2 DEF TradesInv
  <2>4. QED
    BY <1>1, <1>3, <1>4, <2>1, <2>3 DEF TradesInv, Traded
<1>10. SignInsBound'
  <2>1. \A i \in DOMAIN traded : traded[i].signIn \in SignIns /\ traded[i].browser # "none"
    <3>1. \A i \in DOMAIN traded : traded[i] \in [signIn : SignIns, browser : Browsers]
      BY SeqElement DEF OAuthTypeOK, HitRecord
    <3>2. QED
      BY <3>1
  <2>2. \A i \in DOMAIN traded : begun'[traded[i].signIn] = begun[traded[i].signIn]
    BY <1>2, <2>1 DEF SignInsBound, SignedInWhereBegun
  <2>3. QED
    BY <1>4, <2>2 DEF SignInsBound, UsedOnce, SignedInWhereBegun
<1>11. QED
  BY <1>6, <1>7, <1>8, <1>9, <1>10

\* BeginAuth sets the session cookie, or takes back the session it cannot use.
LEMMA BeginAuthInv ==
  ASSUME NEW h \in Hits, OAuthInv, BeginAuth(h)
  PROVE  OAuthInv'
<1> USE DEF OAuthInv
<1>1. StoreTypeOK' /\ \A k, t : Kept(k, t)' => Kept(k, t)
  BY StoreTakeKeeps DEF BeginAuth, StoreTypeOK, OAuthTypeOK, HitRecord, Kept
<1>2. UNCHANGED <<span, bindingOf, begun, completed, traded>>
  BY DEF BeginAuth
<1>3. hit'[h].pc = "idle" /\ \A g \in Hits : g # h => hit'[g] = hit[g]
  BY DEF BeginAuth, HitEnds, NoHit, OAuthTypeOK, HitRecord
<1>4. OAuthTypeOK'
  BY <1>1, <1>2 DEF OAuthTypeOK, HitRecord, StoreTypeOK, BeginAuth, HitEnds, NoHit, HitsInv, HitAt
<1>5. SessionsInv'
  BY <1>1, <1>2 DEF SessionsInv
<1>6. HitsInv' /\ TradesInv'
  BY <1>1, <1>2, <1>3 DEF HitsInv, TradesInv, Traded
<1>7. SignInsBound'
  BY <1>2 DEF SignInsBound, UsedOnce, SignedInWhereBegun
<1>8. QED
  BY <1>4, <1>5, <1>6, <1>7

\* A callback arrives with the cookie its browser held.
LEMMA ReturnInv ==
  ASSUME NEW h \in Hits, NEW b \in Browsers, NEW s \in SignIns, OAuthInv, Return(h, b, s)
  PROVE  OAuthInv'
<1> USE DEF OAuthInv
<1>1. UNCHANGED <<span, lru, sessionOf, bindingOf, begun, completed, traded>>
  BY DEF Return
<1>2. /\ hit'[h].pc = "callback" /\ hit'[h].browser = b /\ hit'[h].names = s /\ hit'[h].carries \in SignIns
      /\ begun[s].browser = b
      /\ \A g \in Hits : g # h => hit'[g] = hit[g]
  BY DEF Return, OAuthTypeOK, HitRecord
<1>3. OAuthTypeOK'
  BY <1>1 DEF OAuthTypeOK, HitRecord, Return
<1>4. SessionsInv'
  BY <1>1 DEF SessionsInv, Kept
<1>5. HitsInv'
  BY <1>1, <1>2 DEF HitsInv
<1>6. TradesInv' /\ SignInsBound'
  BY <1>1, <1>2 DEF TradesInv, Kept, Traded, SignInsBound, UsedOnce, SignedInWhereBegun
<1>7. QED
  BY <1>3, <1>4, <1>5, <1>6

\* The callback takes the session whatever comes of it; only the one that found
\* it, of the same sign-in, goes on.
LEMMA HandleCallbackInv ==
  ASSUME NEW h \in Hits, OAuthInv, handleCallback(h)
  PROVE  OAuthInv'
<1> USE DEF OAuthInv
<1> DEFINE sid == hit[h].carries
           ok == Good("session", sid) /\ begun[sid].provider = hit[h].provider /\ hit[h].names = sid
<1>1. StoreTypeOK' /\ \A k, t : Kept(k, t)' => Kept(k, t) /\ ~ (k = "session" /\ t = sid)
  BY StoreTakeKeeps DEF handleCallback
<1>2. UNCHANGED <<span, bindingOf, begun, traded>>
  BY DEF handleCallback
<1>3. sid \in SignIns /\ hit[h].pc = "callback" /\ hit[h].browser \in Browsers
  BY DEF handleCallback, HitAt, HitsInv
<1>4. sessionOf' \in [Browsers -> SignIns \cup {0}]
  BY <1>3 DEF handleCallback, OAuthTypeOK, HitRecord
<1>5. CASE ok
  <2>1. hit' = [hit EXCEPT ![h].pc = "completes"] /\ completed' = [completed EXCEPT ![sid] = @ + 1]
    BY <1>5 DEF handleCallback
  <2>2. completed[sid] = 0 /\ completed'[sid] = 1 /\ \A t \in SignIns : t # sid => completed'[t] = completed[t]
    <3>1. Kept("session", sid)
      BY <1>5 DEF Good, Kept
    <3>2. completed[sid] = 0
      BY <1>3, <3>1 DEF SessionsInv
    <3> HIDE DEF sid
    <3>3. QED
      BY <1>3, <2>1, <3>2 DEF OAuthTypeOK, HitRecord
  <2>3. /\ hit'[h].pc = "completes" /\ hit'[h].names = sid /\ hit'[h].browser = hit[h].browser
        /\ \A g \in Hits : g # h => hit'[g] = hit[g]
    BY <1>5, <2>1 DEF OAuthTypeOK, HitRecord
  <2>4. OAuthTypeOK'
    <3>0. hit[h] \in HitRecord
      BY DEF OAuthTypeOK, HitRecord
    <3>1. [hit[h] EXCEPT !.pc = "completes"] \in HitRecord
      BY <3>0 DEF HitRecord
    <3>2. hit' \in [Hits -> HitRecord]
      BY <2>1, <3>1 DEF OAuthTypeOK, HitRecord
    <3> HIDE DEF sid, ok
    <3>3. completed' \in [SignIns -> Nat]
      BY <1>3, <2>1 DEF OAuthTypeOK, HitRecord
    <3>4. QED
      BY <1>1, <1>2, <1>4, <3>2, <3>3 DEF OAuthTypeOK, HitRecord, StoreTypeOK
  <2>5. begun[sid].browser = hit[h].browser
    BY <1>3, <1>5 DEF HitsInv
  <2>6. begun[sid].browser # "none"
    BY <1>3, <2>5, OAuthAssumption
  <2> HIDE DEF sid, ok
  <2>7. SessionsInv'
    BY <1>1, <1>2, <1>3, <2>2, <2>6 DEF SessionsInv
  <2>8. HitsInv'
    BY <1>2, <1>3, <2>2, <2>3, <2>5 DEF HitsInv
  <2>9. TradesInv'
    BY <1>1, <1>2, <2>2, <2>3 DEF TradesInv, Traded
  <2>10. SignInsBound'
    BY <1>2, <1>3, <2>2 DEF SignInsBound, UsedOnce, SignedInWhereBegun
  <2>11. QED
    BY <2>4, <2>7, <2>8, <2>9, <2>10
<1>6. CASE ~ ok
  <2>1. HitEnds(h) /\ UNCHANGED completed
    BY <1>6 DEF handleCallback
  <2>2. hit'[h].pc = "idle" /\ \A g \in Hits : g # h => hit'[g] = hit[g]
    BY <2>1 DEF HitEnds, NoHit, OAuthTypeOK, HitRecord
  <2>3. OAuthTypeOK'
    BY <1>1, <1>2, <1>4, <2>1 DEF OAuthTypeOK, HitRecord, StoreTypeOK, HitEnds, NoHit
  <2> HIDE DEF sid, ok
  <2>4. SessionsInv'
    BY <1>1, <1>2, <2>1 DEF SessionsInv
  <2>5. HitsInv' /\ TradesInv'
    BY <1>1, <1>2, <2>1, <2>2 DEF HitsInv, TradesInv, Traded
  <2>6. SignInsBound'
    BY <1>2, <2>1 DEF SignInsBound, UsedOnce, SignedInWhereBegun
  <2>7. QED
    BY <2>3, <2>4, <2>5, <2>6
<1>7. QED
  BY <1>5, <1>6

\* A completion ends, and leaves a code only where it was not a link; no other
\* request is completing the same sign-in.
LEMMA CompleteAuthInv ==
  ASSUME NEW h \in Hits, OAuthInv, CompleteAuth(h)
  PROVE  OAuthInv'
<1> USE OAuthAssumption DEF OAuthInv
<1> DEFINE s == hit[h].names
           b == hit[h].browser
<1>1. /\ s \in SignIns /\ b \in Browsers /\ begun[s].browser = b /\ completed[s] = 1
      /\ hit[h].pc = "completes"
  BY DEF CompleteAuth, HitAt, HitsInv
<1>2. /\ UNCHANGED <<span, sessionOf, begun, completed, traded>>
      /\ hit'[h].pc = "idle" /\ \A g \in Hits : g # h => hit'[g] = hit[g]
  BY DEF CompleteAuth, HitEnds, NoHit, OAuthTypeOK, HitRecord
<1>3. ~ Kept("code", s) /\ ~ Traded(s) /\ ~ Kept("session", s)
  BY <1>1 DEF TradesInv, SessionsInv
<1>4. \A g \in Hits : hit'[g].pc = "completes" => hit'[g].names # s
  BY <1>1, <1>2 DEF HitsInv
<1>5. hit' \in [Hits -> HitRecord]
  BY DEF CompleteAuth, HitEnds, NoHit, OAuthTypeOK, HitRecord
<1>6. HitsInv'
  BY <1>2 DEF HitsInv
<1>7. SignInsBound'
  BY <1>2 DEF SignInsBound, UsedOnce, SignedInWhereBegun
<1>8. CASE ~ begun[s].linking /\ storePut("code", s, ExchangeTTL) /\ bindingOf' = [bindingOf EXCEPT ![b] = s]
  <2>1. StoreTypeOK' /\ \A k, t : Kept(k, t)' => Kept(k, t) \/ (k = "code" /\ t = s)
    BY <1>1, <1>8, StorePutKeeps
  <2>2. OAuthTypeOK'
    BY <1>1, <1>2, <1>5, <1>8, <2>1 DEF OAuthTypeOK, HitRecord, StoreTypeOK
  <2>3. bindingOf'[b] = s /\ \A c \in Browsers : c # b => bindingOf'[c] = bindingOf[c]
    BY <1>1, <1>8 DEF OAuthTypeOK, HitRecord
  <2> HIDE DEF s, b
  <2>4. SessionsInv'
    BY <1>2, <2>1 DEF SessionsInv
  <2>5. TradesInv'
    BY <1>1, <1>2, <1>3, <1>4, <1>8, <2>1, <2>3 DEF TradesInv, Traded
  <2>6. QED
    BY <1>6, <1>7, <2>2, <2>4, <2>5
<1>9. CASE UNCHANGED <<lru, bindingOf>>
  <2>1. OAuthTypeOK'
    BY <1>2, <1>5, <1>9 DEF OAuthTypeOK, HitRecord
  <2>2. SessionsInv' /\ TradesInv'
    BY <1>2, <1>9 DEF SessionsInv, TradesInv, Kept, Traded
  <2>3. QED
    BY <1>6, <1>7, <2>1, <2>2
<1>10. QED
  BY <1>8, <1>9 DEF CompleteAuth

\* An exchange arrives with the binding its browser held and any code.
LEMMA SendExchangeInv ==
  ASSUME NEW h \in Hits, NEW b \in Browsers, NEW s \in SignIns, OAuthInv, SendExchange(h, b, s)
  PROVE  OAuthInv'
<1> USE DEF OAuthInv
<1>1. UNCHANGED <<span, lru, sessionOf, bindingOf, begun, completed, traded>>
  BY DEF SendExchange
<1>2. /\ hit'[h].pc = "exchange" /\ hit'[h].browser = b /\ hit'[h].names = s /\ hit'[h].carries = bindingOf[b]
      /\ bindingOf[b] \in SignIns
      /\ \A g \in Hits : g # h => hit'[g] = hit[g]
  BY DEF SendExchange, NoHit, OAuthTypeOK, HitRecord
<1>3. OAuthTypeOK'
  BY <1>1 DEF OAuthTypeOK, HitRecord, SendExchange, NoHit
<1>4. SessionsInv'
  BY <1>1 DEF SessionsInv, Kept
<1>5. HitsInv'
  <2>1. begun[hit'[h].carries].browser = b /\ ~ begun[hit'[h].carries].linking
    BY <1>2, OAuthAssumption DEF TradesInv, SendExchange
  <2>2. QED
    BY <1>1, <1>2, <2>1 DEF HitsInv
<1>6. TradesInv' /\ SignInsBound'
  BY <1>1, <1>2 DEF TradesInv, Kept, Traded, SignInsBound, UsedOnce, SignedInWhereBegun
<1>7. QED
  BY <1>3, <1>4, <1>5, <1>6

\* The exchange takes the code, which no later exchange finds, and issues a
\* token only for the sign-in its browser is bound to.
LEMMA HandleExchangeInv ==
  ASSUME NEW h \in Hits, OAuthInv, handleExchange(h)
  PROVE  OAuthInv'
<1> USE OAuthAssumption DEF OAuthInv
<1> DEFINE s == hit[h].names
           b == hit[h].browser
<1>1. /\ s \in SignIns /\ b \in Browsers /\ hit[h].carries \in SignIns
      /\ begun[hit[h].carries].browser = b /\ ~ begun[hit[h].carries].linking
  BY DEF handleExchange, HitAt, HitsInv
<1>2. /\ UNCHANGED <<span, sessionOf, begun, completed>>
      /\ hit'[h].pc = "idle" /\ \A g \in Hits : g # h => hit'[g] = hit[g]
  BY DEF handleExchange, HitEnds, NoHit, OAuthTypeOK, HitRecord
<1>3. StoreTypeOK' /\ \A k, t : Kept(k, t)' => Kept(k, t) /\ ~ (k = "code" /\ t = s)
  BY StoreTakeKeeps DEF handleExchange
<1>4. hit' \in [Hits -> HitRecord]
  BY DEF handleExchange, HitEnds, NoHit, OAuthTypeOK, HitRecord
<1>5. HitsInv'
  BY <1>2 DEF HitsInv
<1>6. CASE /\ Good("code", s) /\ hit[h].carries = s
           /\ traded' = Append(traded, [signIn |-> s, browser |-> b])
           /\ bindingOf' = [bindingOf EXCEPT ![b] = 0]
  <2> DEFINE token == [signIn |-> s, browser |-> b]
  <2>1. token \in [signIn : SignIns, browser : Browsers] /\ token.signIn = s /\ token.browser = b
    BY <1>1
  <2>2. Kept("code", s)
    BY <1>6 DEF Good, Kept
  <2>3. traded' = Append(traded, token)
    BY <1>6
  <2>4. OAuthTypeOK'
    BY <1>1, <1>2, <1>3, <1>4, <1>6, <2>1 DEF OAuthTypeOK, HitRecord, StoreTypeOK
  <2>5. \A c \in Browsers : bindingOf'[c] # 0 => bindingOf'[c] = bindingOf[c]
    BY <1>6 DEF OAuthTypeOK, HitRecord
  <2>6. begun[s].browser = b /\ ~ begun[s].linking
    BY <1>1, <1>6
  <2> HIDE DEF s, b, token
  <2>7. /\ DOMAIN traded' = 1 .. Len(traded) + 1 /\ DOMAIN traded = 1 .. Len(traded)
        /\ traded'[Len(traded) + 1] = token
        /\ \A i \in DOMAIN traded : traded'[i] = traded[i]
    BY <2>1, <2>3 DEF OAuthTypeOK, HitRecord
  <2>8. Len(traded) \in Nat
    BY DEF OAuthTypeOK, HitRecord
  <2>9. \A t : Traded(t)' => Traded(t) \/ t = s
    BY <2>1, <2>7, <2>8 DEF Traded
  <2>10. SessionsInv'
    BY <1>2, <1>3 DEF SessionsInv
  <2>11. TradesInv'
    BY <1>2, <1>3, <2>2, <2>5, <2>9 DEF TradesInv
  <2>12. UsedOnce'
    <3>1. ASSUME NEW i \in DOMAIN traded', NEW j \in DOMAIN traded', i # j
          PROVE  traded'[i].signIn # traded'[j].signIn
      BY <1>1, <2>1, <2>2, <2>7, <2>8, <3>1 DEF TradesInv, Traded, SignInsBound, UsedOnce
    <3>2. QED
      BY <1>2, <3>1 DEF SignInsBound, UsedOnce
  <2>13. SignedInWhereBegun'
    BY <1>2, <2>1, <2>6, <2>7, <2>8 DEF SignInsBound, SignedInWhereBegun
  <2>14. QED
    BY <1>5, <2>4, <2>10, <2>11, <2>12, <2>13 DEF SignInsBound
<1>7. CASE UNCHANGED <<traded, bindingOf>>
  <2>1. OAuthTypeOK'
    BY <1>2, <1>3, <1>4, <1>7 DEF OAuthTypeOK, HitRecord, StoreTypeOK
  <2> HIDE DEF s, b
  <2>2. SessionsInv' /\ TradesInv'
    BY <1>2, <1>3, <1>7 DEF SessionsInv, TradesInv, Traded
  <2>3. SignInsBound'
    BY <1>2, <1>7 DEF SignInsBound, UsedOnce, SignedInWhereBegun
  <2>4. QED
    BY <1>5, <2>1, <2>2, <2>3
<1>8. QED
  BY <1>6, <1>7 DEF handleExchange

-----------------------------------------------------------------------------
\* Every step keeps the inductive invariant.
LEMMA OAuthNextInv == OAuthInv /\ [OAuthNext]_oauthVars => OAuthInv'
<1> SUFFICES ASSUME OAuthInv, [OAuthNext]_oauthVars PROVE OAuthInv'
  OBVIOUS
<1>1. CASE OAuthNext
  BY <1>1, BeginsInv, ReturnInv, SendExchangeInv, BeginAuthInv, HandleCallbackInv, CompleteAuthInv, HandleExchangeInv, ClockInv
     DEF OAuthNext
<1>2. CASE UNCHANGED oauthVars
  BY <1>2 DEF oauthVars, OAuthInv, OAuthTypeOK, HitRecord, SessionsInv, HitsInv, TradesInv, SignInsBound, UsedOnce, SignedInWhereBegun, Kept, Traded
<1>3. QED
  BY <1>1, <1>2

\* A session completes one callback, a code is traded for one token, and the
\* token goes to the browser the sign-in began in, never for a link: for any
\* number of tabs and double submissions and whatever the store evicts.
THEOREM OAuthBindsSignIns == OAuthSpec => []SignInsBound
<1>1. OAuthInit => OAuthInv
  BY OAuthInitInv
<1>2. OAuthInv /\ [OAuthNext]_oauthVars => OAuthInv'
  BY OAuthNextInv
<1>3. OAuthInv => SignInsBound
  BY DEF OAuthInv
<1>4. QED
  BY <1>1, <1>2, <1>3, PTL DEF OAuthSpec

-----------------------------------------------------------------------------
(* The throttle.                                                           *)

\* The attempts of a time are numbered from 1 on, so that another one is new.
Numbered(set) ==
  /\ set \subseteq Nat \X Nat /\ IsFiniteSet(set)
  /\ \A a \in set : a[2] \in 1..Cardinality({b \in set : b[1] = a[1]})

\* What is kept of a key and still counts is what counted against it.
EntryOK(e) ==
  /\ e = [attempts |-> e.attempts, passed |-> e.passed]
  /\ Numbered(e.attempts) /\ Numbered(e.passed) /\ Recent(e.attempts) = Recent(e.passed)

TableOK(es) ==
  /\ es = [k \in Keys |-> es[k]]
  /\ \A k \in Keys : EntryOK(es[k]) /\ (~ counted(k) => es[k].passed = {})

Count(es, k) == Cardinality(Recent(es[k].passed))

\* The callers that passed the check of a key and may still record.
Holding(k) == {c \in Callers : caller[c].pc = "checked" /\ k \in Range(caller[c].keys)}

\* The inductive invariant.  What counts against a key and who may still add
\* to it are together below the bound: a check adds a caller only below the
\* limit, and a record turns one into the other.
LimiterInv ==
  /\ watch \in Nat /\ TableOK(entries)
  /\ caller = [c \in Callers |-> caller[c]]
  /\ \A c \in Callers : caller[c] = [pc |-> caller[c].pc, keys |-> caller[c].keys] /\ (caller[c].pc = "checked" => caller[c].keys \in KeyLists)
  /\ \A k \in Keys : counted(k) => Count(entries, k) + Cardinality(Holding(k)) <= limit(k) + Cardinality(Callers) - 1

-----------------------------------------------------------------------------
LEMMA CallersFinite == Cardinality(Callers) \in Nat /\ Cardinality(Callers) >= 1
<1>1. Cardinality(Callers) \in Nat /\ Cardinality(Callers) # 0
  BY LimiterAssumption, FS_CardinalityType, FS_EmptySet
<1>2. QED
  BY <1>1

\* The limit of a key that counts is positive.
LEMMA LimitFacts ==
  ASSUME NEW k \in Keys
  PROVE  limit(k) \in Nat /\ (counted(k) => limit(k) >= 1)
  BY LimiterAssumption DEF limit, counted, Keys

LEMMA RecentFacts ==
  ASSUME watch \in Nat, NEW set, Numbered(set)
  PROVE  /\ Recent(set) \subseteq set /\ IsFiniteSet(Recent(set)) /\ Cardinality(Recent(set)) \in Nat
         /\ \A a \in set : a[1] \in Nat /\ a[2] \in Nat /\ a = <<a[1], a[2]>>
         /\ \A a \in set : a[1] = watch => a \in Recent(set)
<1>1. Recent(set) \in SUBSET set
  BY DEF Recent
<1>2. IsFiniteSet(Recent(set))
  BY <1>1, FS_Subset DEF Numbered
<1>3. Cardinality(Recent(set)) \in Nat
  BY <1>2, FS_CardinalityType
<1>4. \A a \in set : a[1] \in Nat /\ a[2] \in Nat /\ a = <<a[1], a[2]>>
  BY DEF Numbered
<1>5. Window \in Nat /\ Window > 0
  BY LimiterAssumption
<1>6. QED
  BY <1>1, <1>2, <1>3, <1>4, <1>5 DEF Recent

\* An attempt counts: it is new among those of its key.
LEMMA AttemptCounts ==
  ASSUME watch \in Nat, NEW set, Numbered(set)
  PROVE  /\ Numbered(Attempted(set)) /\ Recent(Attempted(set)) = Attempted(set)
         /\ Cardinality(Attempted(set)) = Cardinality(Recent(set)) + 1
<1>0. PICK these, n, new : these = {a \in set : a[1] = watch} /\ n = Cardinality(these) /\ new = <<watch, n + 1>>
  OBVIOUS
<1>1. /\ Recent(set) \subseteq set /\ IsFiniteSet(Recent(set)) /\ Cardinality(Recent(set)) \in Nat
      /\ \A a \in set : a[1] \in Nat /\ a[2] \in Nat /\ a = <<a[1], a[2]>>
      /\ \A a \in set : a[1] = watch => a \in Recent(set)
  BY RecentFacts
<1>2. IsFiniteSet(these) /\ n \in Nat
  BY <1>0, FS_Subset, FS_CardinalityType DEF Numbered
<1>3. new \in Nat \X Nat /\ new[1] = watch /\ new[2] = n + 1
  BY <1>0, <1>2
<1>4. Attempted(set) = Recent(set) \cup {new}
  BY <1>0 DEF Attempted
<1>5. new \notin set
  <2>1. SUFFICES ASSUME new \in set PROVE FALSE
    OBVIOUS
  <2>2. new[2] \in 1..n
    BY <2>1, <1>0, <1>3 DEF Numbered
  <2>3. QED
    BY <2>2, <1>2, <1>3
<1>6. /\ IsFiniteSet(Attempted(set)) /\ Cardinality(Attempted(set)) = Cardinality(Recent(set)) + 1
      /\ Attempted(set) \subseteq Nat \X Nat
  BY <1>1, <1>3, <1>4, <1>5, FS_AddElement DEF Numbered
<1>7. Recent(Attempted(set)) = Attempted(set)
  <2>1. Window \in Nat /\ Window > 0
    BY LimiterAssumption
  <2>2. \A a \in Attempted(set) : a[1] > watch - Window
    BY <2>1, <1>3, <1>4 DEF Recent
  <2>3. QED
    BY <2>2 DEF Recent
<1>8. {b \in Attempted(set) : b[1] = watch} = these \cup {new}
  BY <1>0, <1>1, <1>3, <1>4
<1>9. Cardinality(these \cup {new}) = n + 1
  BY <1>0, <1>2, <1>5, FS_AddElement
<1>10. ASSUME NEW a \in Attempted(set) PROVE a[2] \in 1..Cardinality({b \in Attempted(set) : b[1] = a[1]})
  <2>1. CASE a[1] = watch
    <3>1. a = new \/ a \in these
      BY <2>1, <1>8
    <3>2. a \in these => a[2] \in 1..n
      BY <2>1, <1>0 DEF Numbered
    <3>3. a[2] \in 1..(n + 1)
      BY <3>1, <3>2, <1>2, <1>3
    <3>4. {b \in Attempted(set) : b[1] = a[1]} = these \cup {new}
      BY <2>1, <1>8
    <3>5. QED
      BY <3>3, <3>4, <1>9
  <2>2. CASE a[1] # watch
    <3>1. a \in Recent(set)
      BY <2>2, <1>3, <1>4
    <3>2. {b \in Attempted(set) : b[1] = a[1]} = {b \in set : b[1] = a[1]}
      BY <2>2, <3>1, <1>1, <1>3, <1>4 DEF Recent
    <3>3. QED
      BY <3>1, <3>2, <1>1 DEF Numbered
  <2>3. QED
    BY <2>1, <2>2
<1>11. QED
  BY <1>6, <1>7, <1>10 DEF Numbered

LEMMA SameAttempt ==
  ASSUME watch \in Nat, NEW set, NEW other, Numbered(set), Numbered(other), Recent(set) = Recent(other)
  PROVE  Attempted(set) = Attempted(other)
<1>1. \A a \in set : a[1] = watch => a \in Recent(set)
  BY RecentFacts
<1>2. \A a \in other : a[1] = watch => a \in Recent(other)
  BY RecentFacts
<1>3. {a \in set : a[1] = watch} = {a \in other : a[1] = watch}
  BY <1>1, <1>2 DEF Recent
<1>4. QED
  BY <1>3 DEF Attempted

LEMMA NoEntryFacts == NoEntry.attempts = {} /\ NoEntry.passed = {} /\ EntryOK(NoEntry) /\ Recent({}) = {} /\ Cardinality({}) = 0
<1>1. NoEntry.attempts = {} /\ NoEntry.passed = {} /\ NoEntry = [attempts |-> NoEntry.attempts, passed |-> NoEntry.passed]
  BY DEF NoEntry
<1>2. Numbered({}) /\ Recent({}) = {} /\ Cardinality({}) = 0
  BY FS_EmptySet DEF Numbered, Recent
<1>3. QED
  BY <1>1, <1>2 DEF EntryOK

\* One more attempt of one key, and possibly the eviction of another.
LEMMA RecordOne ==
  ASSUME watch \in Nat, NEW es, TableOK(es), NEW key \in Keys, NEW after \in RecordKey(es, key)
  PROVE  /\ TableOK(after)
         /\ \A k \in Keys : /\ Count(es, k) \in Nat /\ Count(after, k) \in Nat
                            /\ Count(after, k) <= Count(es, k) + (IF k = key THEN 1 ELSE 0)
<1>1. ASSUME NEW table, TableOK(table), NEW k \in Keys PROVE Count(table, k) \in Nat
  BY <1>1, RecentFacts DEF Count, TableOK, EntryOK
<1>2. CASE ~ counted(key)
  <2>1. after = es
    BY <1>2 DEF RecordKey
  <2>2. QED
    BY <2>1, <1>1
<1>3. CASE counted(key)
  <2>1. PICK f : /\ f = es \/ \E k \in Tracked(es) : f = [es EXCEPT ![k] = NoEntry]
                 /\ after = [f EXCEPT ![key] = [attempts |-> Attempted(f[key].attempts), passed |-> Attempted(f[key].passed)]]
    BY <1>3 DEF RecordKey, recordLocked, evictOldestLocked
  <2>2. TableOK(f) /\ \A k \in Keys : Count(f, k) <= Count(es, k)
    <3>1. CASE f = es
      BY <3>1, <1>1
    <3>2. ASSUME NEW gone \in Tracked(es), f = [es EXCEPT ![gone] = NoEntry]
          PROVE  TableOK(f) /\ \A k \in Keys : Count(f, k) <= Count(es, k)
      <4>1. f = [k \in Keys |-> f[k]] /\ \A k \in Keys : f[k] = IF k = gone THEN NoEntry ELSE es[k]
        BY <3>2 DEF TableOK
      <4>2. TableOK(f)
        BY <4>1, NoEntryFacts DEF TableOK
      <4>3. ASSUME NEW k \in Keys PROVE Count(f, k) <= Count(es, k)
        <5>1. Count(es, k) \in Nat
          BY <1>1
        <5>2. f[k] = NoEntry => Count(f, k) = 0
          BY NoEntryFacts DEF Count
        <5>3. f[k] = es[k] => Count(f, k) = Count(es, k)
          BY DEF Count
        <5>4. QED
          BY <4>1, <5>1, <5>2, <5>3
      <4>4. QED
        BY <4>2, <4>3
    <3>3. QED
      BY <2>1, <3>1, <3>2
  <2>3. PICK e : e = [attempts |-> Attempted(f[key].attempts), passed |-> Attempted(f[key].passed)]
    OBVIOUS
  <2>4. /\ e.attempts = Attempted(f[key].attempts) /\ e.passed = Attempted(f[key].passed)
        /\ e = [attempts |-> e.attempts, passed |-> e.passed]
    BY <2>3
  <2>5. EntryOK(f[key])
    BY <2>2 DEF TableOK
  <2>6. EntryOK(e) /\ Cardinality(Recent(e.passed)) = Count(f, key) + 1
    <3>1. Numbered(f[key].attempts) /\ Numbered(f[key].passed) /\ Recent(f[key].attempts) = Recent(f[key].passed)
      BY <2>5 DEF EntryOK
    <3>2. Numbered(e.attempts) /\ Numbered(e.passed) /\ e.attempts = e.passed
      BY <3>1, <2>4, AttemptCounts, SameAttempt
    <3>3. Recent(e.passed) = e.passed /\ Cardinality(e.passed) = Cardinality(Recent(f[key].passed)) + 1
      BY <3>1, <2>4, AttemptCounts
    <3>4. QED
      BY <2>4, <3>2, <3>3 DEF EntryOK, Count
  <2>7. after = [k \in Keys |-> after[k]] /\ \A k \in Keys : after[k] = IF k = key THEN e ELSE f[k]
    BY <2>1, <2>2, <2>3 DEF TableOK
  <2>8. TableOK(after)
    BY <1>3, <2>2, <2>6, <2>7 DEF TableOK
  <2>9. ASSUME NEW k \in Keys
        PROVE  /\ Count(es, k) \in Nat /\ Count(after, k) \in Nat
               /\ Count(after, k) <= Count(es, k) + (IF k = key THEN 1 ELSE 0)
    <3>1. Count(es, k) \in Nat /\ Count(f, k) \in Nat /\ Count(after, k) \in Nat /\ Count(f, k) <= Count(es, k)
      BY <1>1, <2>2, <2>8
    <3>2. CASE k = key
      <4>1. Count(after, k) = Count(f, k) + 1
        BY <2>6, <2>7, <3>2 DEF Count
      <4>2. QED
        BY <3>1, <3>2, <4>1
    <3>3. CASE k # key
      <4>1. Count(after, k) = Count(f, k)
        BY <2>7, <3>3 DEF Count
      <4>2. QED
        BY <3>1, <3>3, <4>1
    <3>4. QED
      BY <3>2, <3>3
  <2>10. QED
    BY <2>8, <2>9
<1>4. QED
  BY <1>2, <1>3

LEMMA RecordAll ==
  ASSUME watch \in Nat, NEW es, TableOK(es), NEW keys \in KeyLists, NEW after \in RecordKeys(es, keys)
  PROVE  /\ TableOK(after)
         /\ \A k \in Keys : /\ Count(es, k) \in Nat /\ Count(after, k) \in Nat
                            /\ Count(after, k) <= Count(es, k) + (IF k \in Range(keys) THEN 1 ELSE 0)
<1>1. keys \in Seq(Keys) /\ Len(keys) \in {1, 2} /\ IsInjective(keys)
  BY LimiterAssumption
<1>2. CASE Len(keys) = 1
  <2>1. keys[1] \in Keys /\ Range(keys) = {keys[1]} /\ after \in RecordKey(es, keys[1])
    BY <1>1, <1>2 DEF RecordKeys, Range
  <2>2. QED
    BY <2>1, RecordOne
<1>3. CASE Len(keys) = 2
  <2>1. keys[1] \in Keys /\ keys[2] \in Keys /\ keys[1] # keys[2] /\ Range(keys) = {keys[1], keys[2]}
    BY <1>1, <1>3, SMTT(30) DEF Range, IsInjective
  <2>2. PICK f \in RecordKey(es, keys[1]) : after \in RecordKey(f, keys[2])
    BY <1>3 DEF RecordKeys
  <2>3. /\ TableOK(f)
        /\ \A k \in Keys : /\ Count(es, k) \in Nat /\ Count(f, k) \in Nat
                           /\ Count(f, k) <= Count(es, k) + (IF k = keys[1] THEN 1 ELSE 0)
    BY <2>1, RecordOne
  <2>4. /\ TableOK(after)
        /\ \A k \in Keys : /\ Count(f, k) \in Nat /\ Count(after, k) \in Nat
                           /\ Count(after, k) <= Count(f, k) + (IF k = keys[2] THEN 1 ELSE 0)
    BY <2>1, <2>2, <2>3, RecordOne
  <2>5. ASSUME NEW k \in Keys PROVE Count(after, k) <= Count(es, k) + (IF k \in Range(keys) THEN 1 ELSE 0)
    <3>1. /\ Count(es, k) \in Nat /\ Count(f, k) \in Nat /\ Count(after, k) \in Nat
          /\ Count(f, k) <= Count(es, k) + (IF k = keys[1] THEN 1 ELSE 0)
          /\ Count(after, k) <= Count(f, k) + (IF k = keys[2] THEN 1 ELSE 0)
      BY <2>3, <2>4
    <3>2. CASE k = keys[1]
      BY <3>1, <3>2, <2>1
    <3>3. CASE k # keys[1]
      BY <3>1, <3>3, <2>1
    <3>4. QED
      BY <3>2, <3>3
  <2>6. QED
    BY <2>3, <2>4, <2>5
<1>4. QED
  BY <1>1, <1>2, <1>3

-----------------------------------------------------------------------------
LEMMA HoldingFacts ==
  ASSUME NEW k
  PROVE  IsFiniteSet(Holding(k)) /\ Cardinality(Holding(k)) \in Nat /\ Cardinality(Holding(k)) <= Cardinality(Callers)
<1>1. Holding(k) \in SUBSET Callers
  BY DEF Holding
<1>2. QED
  BY <1>1, LimiterAssumption, FS_Subset, FS_CardinalityType

LEMMA HoldingFactsNext ==
  ASSUME NEW k
  PROVE  /\ IsFiniteSet(Holding(k)') /\ Cardinality(Holding(k)') \in Nat /\ Cardinality(Holding(k)') <= Cardinality(Callers)
         /\ Cardinality(Holding(k))' = Cardinality(Holding(k)')
<1>1. Holding(k)' \in SUBSET Callers
  BY DEF Holding
<1>2. QED
  BY <1>1, LimiterAssumption, FS_Subset, FS_CardinalityType

\* What the invariant says of the table holds of one with less against each key.
LEMMA CountFacts ==
  ASSUME LimiterInv, NEW k \in Keys
  PROVE  Count(entries, k) \in Nat
  BY RecentFacts DEF LimiterInv, Count, TableOK, EntryOK

\* A caller that is let go holds no key any more.
LEMMA LetGo ==
  ASSUME LimiterInv, NEW c \in Callers, NEW job, caller' = [caller EXCEPT ![c] = job],
         job = [pc |-> job.pc, keys |-> job.keys], job.pc # "checked"
  PROVE  /\ (caller = [d \in Callers |-> caller[d]])'
         /\ \A d \in Callers : caller'[d] = [pc |-> caller'[d].pc, keys |-> caller'[d].keys] /\ (caller'[d].pc = "checked" => caller'[d].keys \in KeyLists)
         /\ \A k : Holding(k)' = Holding(k) \ {c}
<1>1. caller' = [d \in Callers |-> caller'[d]] /\ \A d \in Callers : caller'[d] = IF d = c THEN job ELSE caller[d]
  BY DEF LimiterInv
<1>2. QED
  BY <1>1 DEF LimiterInv, Holding

LEMMA CheckStep ==
  ASSUME LimiterInv, NEW c \in Callers, NEW keys \in KeyLists, check(c, keys)
  PROVE  LimiterInv'
<1>0. PICK job : job = [pc |-> "checked", keys |-> keys]
  OBVIOUS
<1>1. /\ \A key \in Range(keys) : counted(key) => Cardinality(Recent(entries[key].attempts)) < limit(key)
      /\ caller' = [caller EXCEPT ![c] = job] /\ watch' = watch /\ entries' = entries
      /\ job.pc = "checked" /\ job.keys = keys /\ job = [pc |-> job.pc, keys |-> job.keys]
  BY <1>0 DEF check
<1>2. caller' = [d \in Callers |-> caller'[d]] /\ \A d \in Callers : caller'[d] = IF d = c THEN job ELSE caller[d]
  BY <1>1 DEF LimiterInv
<1>3. ASSUME NEW k \in Keys, counted(k)
      PROVE  Count(entries, k) + Cardinality(Holding(k)') <= limit(k) + Cardinality(Callers) - 1
  <2>1. Count(entries, k) \in Nat /\ limit(k) \in Nat
    BY CountFacts, LimitFacts
  <2>2. Cardinality(Holding(k)') \in Nat /\ Cardinality(Holding(k)') <= Cardinality(Callers) /\ Cardinality(Callers) \in Nat
    BY HoldingFactsNext, CallersFinite
  <2>3. CASE k \in Range(keys)
    <3>1. Count(entries, k) < limit(k)
      BY <1>1, <1>3, <2>3 DEF Count, LimiterInv, TableOK, EntryOK
    <3>2. QED
      BY <2>1, <2>2, <3>1
  <2>4. CASE k \notin Range(keys)
    <3>1. Holding(k)' \in SUBSET Holding(k)
      BY <1>1, <1>2, <2>4 DEF Holding
    <3>2. Cardinality(Holding(k)') <= Cardinality(Holding(k)) /\ Cardinality(Holding(k)) \in Nat
      BY <3>1, HoldingFacts, FS_Subset
    <3>3. Count(entries, k) + Cardinality(Holding(k)) <= limit(k) + Cardinality(Callers) - 1
      BY <1>3 DEF LimiterInv
    <3>4. QED
      BY <2>1, <2>2, <3>2, <3>3
  <2>5. QED
    BY <2>3, <2>4
<1>4. TableOK(entries)' /\ \A k \in Keys : Count(entries, k)' = Count(entries, k)
  BY <1>1 DEF LimiterInv, TableOK, EntryOK, Recent, Count
<1>5. \A d \in Callers : caller'[d] = [pc |-> caller'[d].pc, keys |-> caller'[d].keys] /\ (caller'[d].pc = "checked" => caller'[d].keys \in KeyLists)
  BY <1>1, <1>2 DEF LimiterInv
<1>6. QED
  BY <1>1, <1>2, <1>3, <1>4, <1>5 DEF LimiterInv, counted, limit

LEMMA RecordStep ==
  ASSUME LimiterInv, NEW c \in Callers, record(c)
  PROVE  LimiterInv'
<1>0. PICK keys : keys = caller[c].keys
  OBVIOUS
<1>1. caller[c].pc = "checked" /\ entries' \in RecordKeys(entries, keys) /\ watch' = watch /\ keys \in KeyLists /\ watch \in Nat /\ TableOK(entries)
  BY <1>0 DEF record, LimiterInv
<1>2. PICK job : caller' = [caller EXCEPT ![c] = job] /\ job = [pc |-> job.pc, keys |-> job.keys] /\ job.pc # "checked"
  <2>1. /\ NoCall = [pc |-> NoCall.pc, keys |-> NoCall.keys] /\ NoCall.pc # "checked"
        /\ caller' = [caller EXCEPT ![c] = NoCall] \/ caller' = [caller EXCEPT ![c] = [pc |-> "launch", keys |-> <<>>]]
    BY DEF record, NoCall
  <2>2. PICK gone : gone = [pc |-> "launch", keys |-> <<>>]
    OBVIOUS
  <2>3. gone = [pc |-> gone.pc, keys |-> gone.keys] /\ gone.pc # "checked"
    BY <2>2
  <2>4. QED
    BY <2>1, <2>2, <2>3
<1>3. /\ (caller = [d \in Callers |-> caller[d]])'
      /\ \A d \in Callers : caller'[d] = [pc |-> caller'[d].pc, keys |-> caller'[d].keys] /\ (caller'[d].pc = "checked" => caller'[d].keys \in KeyLists)
      /\ \A k : Holding(k)' = Holding(k) \ {c}
  BY <1>2, LetGo
<1>4. PICK after : after = entries'
  OBVIOUS
<1>5. /\ TableOK(after)
      /\ \A k \in Keys : /\ Count(entries, k) \in Nat /\ Count(after, k) \in Nat
                         /\ Count(after, k) <= Count(entries, k) + (IF k \in Range(keys) THEN 1 ELSE 0)
  BY <1>1, <1>4, RecordAll
<1>6. TableOK(entries)' /\ \A k \in Keys : Count(entries, k)' = Count(after, k)
  BY <1>1, <1>4, <1>5 DEF TableOK, EntryOK, Recent, Count
<1>7. ASSUME NEW k \in Keys, counted(k)
      PROVE  Count(after, k) + Cardinality(Holding(k)') <= limit(k) + Cardinality(Callers) - 1
  <2>1. /\ Cardinality(Holding(k)) \in Nat /\ Cardinality(Callers) \in Nat /\ limit(k) \in Nat
        /\ Count(entries, k) + Cardinality(Holding(k)) <= limit(k) + Cardinality(Callers) - 1
    BY <1>7, HoldingFacts, CallersFinite, LimitFacts DEF LimiterInv
  <2>2. Cardinality(Holding(k)') = IF c \in Holding(k) THEN Cardinality(Holding(k)) - 1 ELSE Cardinality(Holding(k))
    BY <1>3, HoldingFacts, FS_RemoveElement
  <2>3. c \in Holding(k) <=> k \in Range(keys)
    BY <1>0, <1>1 DEF Holding
  <2>4. /\ Count(entries, k) \in Nat /\ Count(after, k) \in Nat
        /\ Count(after, k) <= Count(entries, k) + (IF k \in Range(keys) THEN 1 ELSE 0)
    BY <1>5
  <2>5. QED
    BY <2>1, <2>2, <2>3, <2>4
<1>8. QED
  BY <1>1, <1>3, <1>6, <1>7 DEF LimiterInv, counted, limit

LEMMA GoStep ==
  ASSUME LimiterInv, NEW c \in Callers, caller' = [caller EXCEPT ![c] = NoCall], watch' = watch, entries' = entries
  PROVE  LimiterInv'
<1>1. NoCall = [pc |-> NoCall.pc, keys |-> NoCall.keys] /\ NoCall.pc # "checked"
  BY DEF NoCall
<1>2. /\ (caller = [d \in Callers |-> caller[d]])'
      /\ \A d \in Callers : caller'[d] = [pc |-> caller'[d].pc, keys |-> caller'[d].keys] /\ (caller'[d].pc = "checked" => caller'[d].keys \in KeyLists)
      /\ \A k : Holding(k)' = Holding(k) \ {c}
  BY <1>1, LetGo
<1>3. ASSUME NEW k \in Keys, counted(k)
      PROVE  Count(entries, k) + Cardinality(Holding(k)') <= limit(k) + Cardinality(Callers) - 1
  <2>1. /\ Cardinality(Holding(k)) \in Nat /\ Cardinality(Callers) \in Nat /\ limit(k) \in Nat /\ Count(entries, k) \in Nat
        /\ Count(entries, k) + Cardinality(Holding(k)) <= limit(k) + Cardinality(Callers) - 1
    BY <1>3, HoldingFacts, CallersFinite, LimitFacts, CountFacts DEF LimiterInv
  <2>2. Cardinality(Holding(k)') = IF c \in Holding(k) THEN Cardinality(Holding(k)) - 1 ELSE Cardinality(Holding(k))
    BY <1>2, HoldingFacts, FS_RemoveElement
  <2>3. QED
    BY <2>1, <2>2
<1>4. TableOK(entries)' /\ \A k \in Keys : Count(entries, k)' = Count(entries, k)
  BY DEF LimiterInv, TableOK, EntryOK, Recent, Count
<1>5. QED
  BY <1>2, <1>3, <1>4 DEF LimiterInv, counted, limit

\* A cleanup leaves what counts.
LEMMA CleanupStep ==
  ASSUME LimiterInv, runCleanup
  PROVE  LimiterInv'
<1>1. entries' = cleanupLocked(entries) /\ watch' = watch /\ caller' = caller
  BY DEF runCleanup
<1>2. ASSUME NEW k \in Keys
      PROVE  EntryOK(entries[k])' /\ entries'[k].passed = entries[k].passed
  <2>1. /\ entries[k] = [attempts |-> entries[k].attempts, passed |-> entries[k].passed]
        /\ Numbered(entries[k].attempts) /\ Numbered(entries[k].passed) /\ Recent(entries[k].attempts) = Recent(entries[k].passed)
    BY DEF LimiterInv, TableOK, EntryOK
  <2>2. PICK left : left = IF Recent(entries[k].attempts) # {} THEN entries[k].attempts ELSE {}
    OBVIOUS
  <2>3. entries'[k] = [attempts |-> left, passed |-> entries[k].passed]
    BY <1>1, <2>1, <2>2 DEF cleanupLocked
  <2>4. Numbered(left) /\ Recent(left) = Recent(entries[k].attempts)
    BY <2>1, <2>2, FS_EmptySet DEF Numbered, Recent
  <2>5. QED
    BY <1>1, <2>1, <2>3, <2>4 DEF EntryOK, Recent
<1>3. entries' = [k \in Keys |-> entries'[k]]
  BY <1>1 DEF cleanupLocked
<1>4. TableOK(entries)' /\ \A k \in Keys : Count(entries, k)' = Count(entries, k)
  BY <1>1, <1>2, <1>3 DEF LimiterInv, TableOK, Count, Recent, counted
<1>5. \A k : Holding(k)' = Holding(k)
  BY <1>1 DEF Holding
<1>6. QED
  BY <1>1, <1>4, <1>5 DEF LimiterInv, counted, limit

\* With time, less counts.
LEMMA TickStep ==
  ASSUME LimiterInv, WatchTicks
  PROVE  LimiterInv'
<1>1. watch' = watch + 1 /\ entries' = entries /\ caller' = caller /\ watch \in Nat
  BY DEF WatchTicks, LimiterInv
<1>2. ASSUME NEW k \in Keys
      PROVE  /\ EntryOK(entries[k])' /\ Count(entries, k)' \in Nat /\ Count(entries, k)' <= Count(entries, k)
  <2>1. /\ entries[k] = [attempts |-> entries[k].attempts, passed |-> entries[k].passed]
        /\ Numbered(entries[k].attempts) /\ Numbered(entries[k].passed) /\ Recent(entries[k].attempts) = Recent(entries[k].passed)
    BY DEF LimiterInv, TableOK, EntryOK
  <2>2. PICK kept, counts : kept = entries[k].attempts /\ counts = entries[k].passed
    OBVIOUS
  <2>3. Window \in Nat /\ \A a \in kept \cup counts : a[1] \in Nat
    BY <2>1, <2>2, LimiterAssumption DEF Numbered
  <2>4. /\ Recent(kept)' = {a \in Recent(kept) : a[1] > watch + 1 - Window}
        /\ Recent(counts)' = {a \in Recent(counts) : a[1] > watch + 1 - Window}
    BY <1>1, <2>3 DEF Recent
  <2>5. Recent(kept)' = Recent(counts)' /\ Recent(counts)' \in SUBSET Recent(counts)
    BY <2>1, <2>2, <2>4
  <2>6. IsFiniteSet(Recent(counts)) /\ Cardinality(Recent(counts)) \in Nat
    BY <1>1, <2>1, <2>2, RecentFacts
  <2>7. Cardinality(Recent(counts)') \in Nat /\ Cardinality(Recent(counts)') <= Cardinality(Recent(counts))
    BY <2>5, <2>6, FS_Subset, FS_CardinalityType
  <2>8. EntryOK(entries[k])'
    BY <1>1, <2>1, <2>2, <2>5 DEF EntryOK, Recent
  <2>9. Count(entries, k)' = Cardinality(Recent(counts)') /\ Count(entries, k) = Cardinality(Recent(counts))
    BY <1>1, <2>2 DEF Count, Recent
  <2>10. QED
    BY <2>7, <2>8, <2>9
<1>3. \A k : Holding(k)' = Holding(k)
  BY <1>1 DEF Holding
<1>4. TableOK(entries)'
  BY <1>1, <1>2 DEF LimiterInv, TableOK, counted
<1>5. ASSUME NEW k \in Keys, counted(k)
      PROVE  Count(entries, k)' + Cardinality(Holding(k)') <= limit(k) + Cardinality(Callers) - 1
  <2>1. /\ Cardinality(Holding(k)) \in Nat /\ Cardinality(Callers) \in Nat /\ limit(k) \in Nat /\ Count(entries, k) \in Nat
        /\ Count(entries, k) + Cardinality(Holding(k)) <= limit(k) + Cardinality(Callers) - 1
    BY <1>5, HoldingFacts, CallersFinite, LimitFacts, CountFacts DEF LimiterInv
  <2>2. QED
    BY <2>1, <1>2, <1>3
<1>6. QED
  BY <1>1, <1>4, <1>5 DEF LimiterInv, counted, limit

LEMMA LimiterInitially == newLoginLimiter => LimiterInv
<1> SUFFICES ASSUME newLoginLimiter PROVE LimiterInv
  OBVIOUS
<1>1. watch = 0 /\ entries = [k \in Keys |-> NoEntry] /\ caller = [c \in Callers |-> NoCall]
  BY DEF newLoginLimiter
<1>2. TableOK(entries) /\ \A k \in Keys : Count(entries, k) = 0
  BY <1>1, NoEntryFacts DEF TableOK, Count
<1>3. \A c \in Callers : caller[c].pc = "idle" /\ caller[c] = [pc |-> caller[c].pc, keys |-> caller[c].keys]
  BY <1>1 DEF NoCall
<1>4. \A k : Cardinality(Holding(k)) = 0
  BY <1>3, FS_EmptySet DEF Holding
<1>5. \A k \in Keys : counted(k) => 0 <= limit(k) + Cardinality(Callers) - 1
  BY LimitFacts, CallersFinite
<1>6. QED
  BY <1>1, <1>2, <1>3, <1>4, <1>5 DEF LimiterInv

LEMMA LimiterInductive == LimiterInv /\ [LimiterNext]_limiterVars => LimiterInv'
<1> SUFFICES ASSUME LimiterInv, [LimiterNext]_limiterVars PROVE LimiterInv'
  OBVIOUS
<1>1. ASSUME UNCHANGED <<watch, entries, caller>> PROVE LimiterInv'
  <2>1. /\ TableOK(entries)' /\ (\A k \in Keys : Count(entries, k)' = Count(entries, k)) /\ \A k : Holding(k)' = Holding(k)
    BY <1>1 DEF LimiterInv, TableOK, EntryOK, Recent, Count, Holding, counted
  <2>2. QED
    BY <1>1, <2>1 DEF LimiterInv, counted, limit
<1>2. ASSUME NEW c \in Callers, Launch(c) \/ Succeeds(c) PROVE LimiterInv'
  BY <1>2, GoStep DEF Launch, Succeeds
<1>3. ASSUME NEW c \in Callers, record(c) PROVE LimiterInv'
  BY <1>3, RecordStep
<1>4. ASSUME NEW c \in Callers, NEW keys \in KeyLists, check(c, keys) PROVE LimiterInv'
  BY <1>4, CheckStep
<1>5. CASE runCleanup \/ CloseLimiter \/ WatchTicks
  BY <1>1, <1>5, CleanupStep, TickStep DEF CloseLimiter
<1>6. QED
  BY <1>1, <1>2, <1>3, <1>4, <1>5 DEF LimiterNext, limiterVars

\* For any callers, keys, limits, window and capacity: what counts against a key within a window is at most its
\* limit and the callers that were checked at once.
THEOREM ThrottleHeld == LimiterSpec => []ThrottleHolds
<1>1. LimiterInv => ThrottleHolds
  <2>1. SUFFICES ASSUME LimiterInv, NEW k \in Keys PROVE Count(entries, k) <= limit(k) + Cardinality(Callers) - 1
    BY DEF ThrottleHolds, Count
  <2>2. limit(k) \in Nat /\ Cardinality(Callers) \in Nat /\ Cardinality(Callers) >= 1 /\ Count(entries, k) \in Nat
    BY <2>1, LimitFacts, CallersFinite, CountFacts
  <2>3. CASE counted(k)
    BY <2>1, <2>2, <2>3, HoldingFacts DEF LimiterInv
  <2>4. CASE ~ counted(k)
    <3>1. Count(entries, k) = 0
      BY <2>1, <2>4, NoEntryFacts DEF LimiterInv, TableOK, Count
    <3>2. QED
      BY <2>2, <3>1
  <2>5. QED
    BY <2>3, <2>4
<1>2. QED
  BY <1>1, LimiterInitially, LimiterInductive, PTL DEF LimiterSpec
=============================================================================
