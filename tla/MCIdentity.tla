----------------------------- MODULE MCIdentity -----------------------------
(* Sign-in, for TLC: login codes, the login throttle, the OAuth sessions   *)
(* and the account's own row and links.  The parts share no state.  A      *)
(* behaviour is one of one part, named by part, the others resting in one  *)
(* state, so that the run's states are those of all the parts together.    *)
EXTENDS LoginCodes, LoginLimiter, OAuthSessions, Accounts, TLC

VARIABLE part

(* The keys of a login or a verify by code, of a verify by token, and of a *)
(* start, whose key is its own.                                            *)
MCKeyLists == {<<"client_ip", "email">>, <<"client_ip">>, <<"passwordless_ip">>}

(* The actors of all the parts are the same two, and interchangeable.     *)
IdentitySymmetry == Permutations(Requests)

IdentityInit ==
  /\ part \in {"codes", "throttle", "oauth", "accounts"}
  /\ CodesInit /\ newLoginLimiter /\ OAuthInit /\ AccountsInit
  /\ part # "codes" => route = "passwordless"

CodesPart == part = "codes" /\ CodesNext /\ UNCHANGED <<limiterVars, oauthVars, accountVars>>
ThrottlePart == part = "throttle" /\ LimiterNext /\ UNCHANGED <<codeVars, oauthVars, accountVars>>
OAuthPart == part = "oauth" /\ OAuthNext /\ UNCHANGED <<codeVars, limiterVars, accountVars>>
AccountsPart == part = "accounts" /\ AccountsNext /\ UNCHANGED <<codeVars, limiterVars, oauthVars>>

IdentityNext ==
  /\ CodesPart \/ ThrottlePart \/ OAuthPart \/ AccountsPart
  /\ UNCHANGED part

IdentitySpec == IdentityInit /\ [][IdentityNext]_<<part, codeVars, limiterVars, oauthVars, accountVars>>
=============================================================================
