--------------------------------- MODULE Rbac ---------------------------------
(***************************************************************************)
(* Access control on one of several replicas (rbac/engine.go, policy.go,   *)
(* watcher.go).  A replica decides by the policy casbin keeps in memory,   *)
(* loaded from the table.  A change goes to the table, to the memory of    *)
(* the replica it was asked of and, by Redis and with no guarantee, to the *)
(* others, which load the table again; they also do so every               *)
(* reloadInterval.  The replicas meet only in the table and in Redis, so   *)
(* one of them is modelled whole and the others by what they do there.     *)
(* Casbin's SyncedEnforcer makes a change one step, lock to unlock; a load *)
(* reads the table under the read lock and puts the policy in place under  *)
(* the lock, two steps.                                                    *)
(***************************************************************************)
EXTENDS PolicyRows

CONSTANT MaxChanges  \* bound: changes of the table

VARIABLES
  ruleRows,       \* the table
  policy,     \* the rules in memory
  watch,         \* new, loaded, open, closing or closed
  linked,     \* the subscription is up
  inbox,      \* senders of the messages on their way: "self", "peer"
  signal,     \* the reload channel holds a signal
  loading,      \* the load of the loop and of a ReloadPolicy call: idle, asked, or the rules read
  changes,    \* changes of the table so far
  owed,       \* a peer's message, or a new subscription, came in since the loop last read the table
  last        \* the replica's last change: its number, and whether it was announced

rbacVars == <<ruleRows, policy, watch, linked, inbox, signal, loading, changes, owed, last>>

-----------------------------------------------------------------------------
(* Decisions.                                                              *)

globalDomain == "*"
normalizeDomain(d) == IF d = "" THEN globalDomain ELSE d

(* The subjects and domains the rules are about.                           *)
PolicyRules == {Rule("p", <<sub, dom>>) : sub \in {"user", "editor"}, dom \in {globalDomain, "tenant"}}
Bindings == {Rule("g", <<"user", "editor", "tenant">>)}
Rules == PolicyRules \cup Bindings

(* rbacWithDomainsModel's matcher, the object and the action met.          *)
Enforce(rules, sub, dom) ==
  \E p \in {rule \in rules : rule.ptype = "p"} :
    /\ p.v[1] = sub \/ (dom # globalDomain /\ Rule("g", <<sub, p.v[1], dom>>) \in rules)
    /\ p.v[2] \in {dom, globalDomain}

decide(rules, user, roles, dom) ==
  "admin" \in roles \/ \E sub \in {user} \cup roles : Enforce(rules, sub, normalizeDomain(dom))

(* Require (no parameter in the route) and RequireInDomain; UserID "" is   *)
(* no principal, domain "" a path without the parameter.                   *)
require(rules, user, roles, inDomain, dom) ==
  CASE user = "" -> 401
    [] user # "" /\ inDomain /\ dom = "" -> 400
    [] OTHER -> IF decide(rules, user, roles, dom) THEN 200 ELSE 403

Alike(rules, others) ==
  \A user \in {"", "user"}, roles \in SUBSET {"editor", "admin"}, dom \in {"", "tenant", "other"} :
    \A inDomain \in {dom # "", TRUE} :
      require(rules, user, roles, inDomain, dom) = require(others, user, roles, inDomain, dom)

-----------------------------------------------------------------------------
NoLoad == [at |-> "idle", rules |-> {}]

RbacInit ==
  /\ ruleRows = {} /\ policy = {}
  /\ watch = "new" /\ linked = FALSE /\ inbox = {} /\ signal = FALSE
  /\ loading = [loop |-> NoLoad, call |-> NoLoad]
  /\ changes = 0 /\ owed = FALSE /\ last = [number |-> 0, announced |-> TRUE]

(* New: the policy is loaded before the watcher subscribes.                *)
newEngine ==
  /\ watch = "new" /\ Loadable(ruleRows)
  /\ policy' = LoadPolicy(ruleRows) /\ watch' = "loaded"
  /\ UNCHANGED <<ruleRows, linked, inbox, signal, loading, changes, owed, last>>

attachRedisWatcher ==
  /\ watch = "loaded"
  /\ watch' = "open" /\ linked' = TRUE
  /\ UNCHANGED <<ruleRows, policy, inbox, signal, loading, changes, owed, last>>

(* Redis hands a message to a subscription that is up, or loses it.        *)
Update(from) == inbox' \in {inbox, IF linked THEN inbox \cup {from} ELSE inbox}

(* What casbin does with an adapter's answer: nothing if it refused; else  *)
(* it moves its memory on, and tells the watcher if something changed.     *)
Applied(result, after, changed) ==
  /\ watch \notin {"new", "loaded"} /\ changes < MaxChanges /\ ~ result.refused
  /\ ruleRows' = result.rows /\ policy' = after
  /\ changes' = changes + 1
  /\ IF changed /\ watch = "open" THEN Update("self") ELSE UNCHANGED inbox
  /\ last' = [number |-> changes + 1, announced |-> changed]
  /\ UNCHANGED <<watch, linked, signal, loading, owed>>

(* casbin's AddPolicy and AddPolicies ask its memory first, and then the   *)
(* table.                                                                  *)
AddRules(rules) ==
  /\ rules \cap policy = {}
  /\ Applied(AddPolicies(ruleRows, rules), policy \cup rules, TRUE)

RemoveRules(rules) ==
  /\ rules \cap policy # {}
  /\ Applied(RemovePolicies(ruleRows, rules), policy \ rules, TRUE)

(* The rest of the adapter, as casbin's enforcer drives it.                *)
Replace(old, new) ==
  LET found == old \in policy
  IN  Applied(UpdatePolicies(ruleRows, {old}, {new}), IF found THEN (policy \ {old}) \cup {new} ELSE policy, found)

RemoveFiltered(index, values) ==
  LET gone == {rule \in policy : rule.ptype = "p" /\
                 \A i \in 1..Len(values) : values[i] # Empty => rule.v[index + i] = values[i]}
  IN  Applied(RemoveFilteredPolicy(ruleRows, "p", index, values), policy \ gone, gone # {})

ReplaceFiltered(new, index, values) ==
  LET result == UpdateFilteredPolicies(ruleRows, "p", new, index, values)
  IN  Applied(result, (policy \ result.old) \cup new, result.old # {})

Save == Applied(SavePolicy(ruleRows, policy), policy, TRUE)

(* The policy service.                                                     *)
rejectGlobalAsTenant(dom) == dom = globalDomain
rejectGlobalMembership(dom) == dom = "" \/ rejectGlobalAsTenant(dom)

AddUserToRoleInDomain(dom) == ~ rejectGlobalMembership(dom) /\ AddRules({Rule("g", <<"user", "editor", dom>>)})
RemoveUserFromRoleInDomain(dom) == ~ rejectGlobalMembership(dom) /\ RemoveRules({Rule("g", <<"user", "editor", dom>>)})
GrantRoleInDomain(dom) == ~ rejectGlobalAsTenant(dom) /\ AddRules({Rule("p", <<"editor", normalizeDomain(dom)>>)})
RevokeRoleInDomain(dom) == ~ rejectGlobalAsTenant(dom) /\ RemoveRules({Rule("p", <<"editor", normalizeDomain(dom)>>)})
GrantRole == AddRules({Rule("p", <<"editor", globalDomain>>)})
RevokeRole == RemoveRules({Rule("p", <<"editor", globalDomain>>)})
GrantUser == AddRules({Rule("p", <<"user", globalDomain>>)})
RevokeUser == RemoveRules({Rule("p", <<"user", globalDomain>>)})

Change ==
  \/ \E dom \in {"", globalDomain, "tenant"} :
       \/ AddUserToRoleInDomain(dom) \/ RemoveUserFromRoleInDomain(dom)
       \/ GrantRoleInDomain(dom) \/ RevokeRoleInDomain(dom)
  \/ GrantRole \/ RevokeRole \/ GrantUser \/ RevokeUser
  \/ \E rule, other \in PolicyRules : rule # other /\ (AddRules({rule, other}) \/ RemoveRules({rule, other}))
  \/ \E old, new \in PolicyRules : Replace(old, new)
  \/ \E filter \in {<<0, "user">>, <<1, "tenant">>, <<0, Empty>>, <<-1, "user">>, <<Width, "user">>} :
       \/ hasAnyMappedConstraint(filter[1], <<filter[2]>>) /\ RemoveFiltered(filter[1], <<filter[2]>>)
       \/ \E new \in PolicyRules : ReplaceFiltered({new}, filter[1], <<filter[2]>>)
  \/ Save

(* Another replica's change, by a memory that may be behind the table.     *)
PeerChanges ==
  /\ changes < MaxChanges
  /\ \E rule \in Rules : \/ ruleRows' = AddPolicies(ruleRows, {rule}).rows
                         \/ ruleRows' = RemovePolicies(ruleRows, {rule}).rows
  /\ changes' = changes + 1
  /\ Update("peer")
  /\ UNCHANGED <<policy, watch, linked, signal, loading, owed, last>>

-----------------------------------------------------------------------------
(* The watcher's loops.                                                    *)

Disconnect ==
  /\ linked /\ watch = "open"
  /\ linked' = FALSE /\ inbox' = {}
  /\ UNCHANGED <<ruleRows, policy, watch, signal, loading, changes, owed, last>>

signalReload == signal' = TRUE

(* A new subscription signals a reload as a message does.                  *)
Reconnect ==
  /\ ~ linked /\ watch = "open"
  /\ linked' = TRUE /\ signalReload /\ owed' = TRUE
  /\ UNCHANGED <<ruleRows, policy, watch, inbox, loading, changes, last>>

receiveLoop(from) ==
  /\ watch = "open" /\ from \in inbox
  /\ inbox' = inbox \ {from}
  /\ IF from = "self" THEN UNCHANGED <<signal, owed>> ELSE signalReload /\ owed' = TRUE
  /\ UNCHANGED <<ruleRows, policy, watch, linked, loading, changes, last>>

(* A signal or the ticker; a closing watcher starts no load.               *)
reloadLoop_NoTicker(ticked) ==
  /\ watch = "open" /\ loading.loop.at = "idle" /\ signal
  /\ signal' = FALSE
  /\ loading' = [loading EXCEPT !.loop.at = "asked"]
  /\ UNCHANGED <<ruleRows, policy, watch, linked, inbox, changes, owed, last>>
reloadLoop(ticked) ==
  /\ watch = "open" /\ loading.loop.at = "idle" /\ (ticked \/ signal)
  /\ signal' = (ticked /\ signal)
  /\ loading' = [loading EXCEPT !.loop.at = "asked"]
  /\ UNCHANGED <<ruleRows, policy, watch, linked, inbox, changes, owed, last>>

ReloadPolicy ==
  /\ watch \notin {"new", "loaded"} /\ loading.call.at = "idle"
  /\ loading' = [loading EXCEPT !.call.at = "asked"]
  /\ UNCHANGED <<ruleRows, policy, watch, linked, inbox, signal, changes, owed, last>>

(* The read may fail, or run out of its five seconds; the policy in force  *)
(* then stays.                                                             *)
LoadReads(who, fails) ==
  /\ loading[who].at = "asked"
  /\ loading' = [loading EXCEPT ![who] = IF fails THEN NoLoad ELSE [at |-> "read", rules |-> LoadPolicy(ruleRows)]]
  /\ owed' = (owed /\ who = "call")
  /\ UNCHANGED <<ruleRows, policy, watch, linked, inbox, signal, changes, last>>

LoadApplies(who) ==
  /\ loading[who].at = "read"
  /\ policy' = loading[who].rules
  /\ loading' = [loading EXCEPT ![who] = NoLoad]
  /\ UNCHANGED <<ruleRows, watch, linked, inbox, signal, changes, owed, last>>

(* Close cancels the loops and waits for them.                             *)
CloseWatcher ==
  /\ \/ watch = "open" /\ watch' = "closing" /\ linked' = FALSE /\ inbox' = {}
     \/ watch = "closing" /\ loading.loop.at = "idle" /\ watch' = "closed" /\ UNCHANGED <<linked, inbox>>
  /\ UNCHANGED <<ruleRows, policy, signal, loading, changes, owed, last>>

RbacNext ==
  \/ newEngine \/ attachRedisWatcher \/ Change \/ PeerChanges
  \/ Disconnect \/ Reconnect \/ \E from \in inbox : receiveLoop(from)
  \/ reloadLoop(TRUE) \/ reloadLoop(FALSE) \/ ReloadPolicy
  \/ \E who \in {"loop", "call"} : LoadReads(who, TRUE) \/ LoadReads(who, FALSE) \/ LoadApplies(who)
  \/ CloseWatcher

RbacSpec == RbacInit /\ [][RbacNext]_rbacVars

(* The ticker ticks on, and the database, however often it fails, answers  *)
(* in the end; nothing is assumed of Redis.                                *)
RbacFairness ==
  /\ WF_rbacVars(reloadLoop(TRUE)) /\ SF_rbacVars(LoadReads("loop", FALSE))
  /\ WF_rbacVars(LoadApplies("loop"))

-----------------------------------------------------------------------------
(* Once the policies no longer change, the replica decides as the table    *)
(* says, whatever Redis lost, however a load was overtaken by a change or  *)
(* by another load, and although a replica ignores its own messages.       *)
EventuallyCurrent == <>[](watch = "open" => Alike(policy, LoadPolicy(ruleRows)))

(* A notification the replica took in is followed by a read of the table   *)
(* that began after it: the one signal the channel holds stands for every  *)
(* change told of since the last read began.                               *)
LoadedSinceHeard == (watch = "open" /\ owed) => signal \/ loading.loop.at = "asked"

(* A change by a replica whose memory has what the table has leaves them   *)
(* the same, and is announced to the others if it changed the table.       *)
StaysInStep ==
  [][ (last'.number # last.number /\ policy = LoadPolicy(ruleRows)) =>
        policy' = LoadPolicy(ruleRows') /\ (ruleRows' # ruleRows => last'.announced) ]_rbacVars

(* A replica keeps up: its own changes at once, those of others with the   *)
(* next read, which a notification always brings about.                    *)
KeepsUp == StaysInStep /\ []LoadedSinceHeard
=============================================================================
