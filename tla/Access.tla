------------------------------- MODULE Access -------------------------------
(***************************************************************************)
(* Who may do what: accounts and members (auth/provisioning.ts, identity   *)
(* .ts), API keys (api-keys.ts), how a request is let in (resolve-actor.ts,*)
(* web/lib/api/app.ts, rate-limit.ts) and what it is then allowed.         *)
(*                                                                         *)
(* Letting a request in takes several statements in transactions of their  *)
(* own: the key, the owner's role, the count of this minute.  What they say*)
(* is carried into the transaction of the procedure, while people go on    *)
(* changing roles and keys.                                                *)
(*                                                                         *)
(* Data: one organization.  Of its six roles, an owner, an administrator   *)
(* and anybody else are told apart; of the permissions, managing members   *)
(* and keys, and working.  One class of limit.                             *)
(***************************************************************************)
EXTENDS Integers, FiniteSets

CONSTANTS
    Users, ApiKeys, Requests,
    Limit,          \* requests a minute
    LastMinute,     \* bound on the clock
    MaxChanges,     \* bound on changes of roles made through Better Auth
    None

VARIABLES
    form,           \* the setup forms, one per person who sends one
    role,           \* member.role
    apiKey,         \* api_keys
    counter,        \* rate_limits
    minute,         \* the clock
    request,
    let,            \* history: requests let in, by actor and minute
    late,           \* history: actors of whom an earlier minute was counted after a later one
    overlapped,     \* history: two owners were being removed at a time
    changes

members == <<form, role>>
limits  == <<counter, let, late>>
vars    == <<form, role, apiKey, counter, minute, request, let, late, overlapped, changes>>

Roles  == {"owner", "admin", "staff"}
Actors == Users \cup ApiKeys
Asks   == {[op |-> o, on |-> None] : o \in {"work", "create key"}}
          \cup {[op |-> "remove", on |-> u] : u \in Users} \cup {[op |-> "revoke", on |-> k] : k \in ApiKeys}

\* permissionsForRole
PermissionsForRole(r) ==
    CASE r \in {"owner", "admin"} -> {"manage", "work"} [] r = "staff" -> {"work"} [] OTHER -> {}
Required(ask) == IF ask.op = "work" THEN "work" ELSE "manage"

Unsent == [step |-> "unsent", actor |-> None, ask |-> None, scopes |-> {}, permissions |-> {},
           minute |-> 0, roles |-> {}, live |-> FALSE]
NoKey  == [state |-> "absent", user |-> None, scopes |-> {}]

Init ==
    /\ form = [u \in Users |-> "blank"]
    /\ role = [u \in Users |-> None]
    /\ apiKey = [k \in ApiKeys |-> NoKey]
    /\ counter = [a \in Actors |-> [minute |-> 0, count |-> 0]]
    /\ minute = 0
    /\ request = [r \in Requests |-> Unsent]
    /\ let = [a \in Actors |-> [m \in 0..LastMinute |-> 0]]
    /\ late = {} /\ overlapped = FALSE /\ changes = 0

-----------------------------------------------------------------------------
At(r, s)   == request[r].step = s
InFlight   == {"identified", "resolved", "counting", "running", "removing"}
\* The person behind a request: the key's owner, or the actor.
Person(a)  == IF a \in ApiKeys THEN apiKey[a].user ELSE a
Owners     == {u \in Users : role[u] = "owner"}
Installed  == \E u \in Users : form[u] = "done"

Refused == [Unsent EXCEPT !.step = "refused"]
Done(r) == [request EXCEPT ![r].step = "done", ![r].permissions = {}, ![r].minute = 0]

\* An owner goes while another is going.
Overlaps(u) ==
    /\ role[u] = "owner"
    /\ \E r \in Requests : At(r, "removing") /\ role[request[r].ask.on] = "owner"

\* u has this role now: whoever is in flight for u has also had it.
Becomes(u, new, others) ==
    /\ role' = [role EXCEPT ![u] = new]
    /\ request' = [r \in Requests |->
          IF others[r].step \in InFlight /\ Person(others[r].actor) = u
          THEN [others[r] EXCEPT !.roles = @ \cup {new}] ELSE others[r]]

-----------------------------------------------------------------------------
\* Setup and accounts.

\* mutation: two forms are let through at once
FormsAtOnce == TRUE

\* pg_advisory_xact_lock(SETUP_LOCK)
SetupFree == \A u \in Users : form[u] # "checked"

\* completeSetup: no account exists.
SetupCheck(u) ==
    /\ form[u] = "blank" /\ SetupFree /\ ~Installed
    /\ form' = [form EXCEPT ![u] = "checked"]
    /\ UNCHANGED <<role, apiKey, limits, minute, request, overlapped, changes>>

\* ... and then the first, with its organization.
CompleteSetup(u) ==
    /\ form[u] = "checked"
    /\ form' = [form EXCEPT ![u] = "done"]
    /\ Becomes(u, "owner", request)
    /\ UNCHANGED <<apiKey, limits, minute, overlapped, changes>>

\* addMemberAction: only an owner makes an owner.
ProvisionMember(u, new) ==
    /\ Installed /\ role[u] = None /\ form[u] # "checked"
    /\ changes < MaxChanges /\ changes' = changes + 1
    /\ IF new = "owner" THEN Owners # {} ELSE \E v \in Users : role[v] \in {"owner", "admin"}
    /\ Becomes(u, new, request)
    /\ UNCHANGED <<form, apiKey, limits, minute, overlapped>>

\* Better Auth's own endpoint, which keeps an owner.
UpdateMemberRole(u, new) ==
    /\ role[u] \notin {None, new} /\ Owners \ {u} # {}
    /\ changes < MaxChanges /\ changes' = changes + 1
    /\ Becomes(u, new, request)
    /\ overlapped' = (overlapped \/ Overlaps(u))
    /\ UNCHANGED <<form, apiKey, limits, minute>>

-----------------------------------------------------------------------------
\* A request is let in.

\* mutation: a revoked key is still found
FoundRevoked(k) == apiKey[k].state # "absent"

\* verifyApiKey: there, not revoked and not expired.
VerifyApiKey(k) == apiKey[k].state = "live"

Arrives(r, a, ask, scopes) ==
    /\ At(r, "unsent")
    /\ request' = [request EXCEPT ![r] = [Unsent EXCEPT
           !.step = "identified", !.actor = a, !.ask = ask, !.scopes = scopes,
           !.roles = {role[Person(a)]}, !.live = a \in Users \/ apiKey[a].state = "live"]]
    /\ UNCHANGED <<members, apiKey, limits, minute, overlapped, changes>>

ResolveFromSession(r, u, ask) == role[u] # None /\ Arrives(r, u, ask, {"manage", "work"})
ResolveFromApiKey(r, k, ask)  == VerifyApiKey(k) /\ Arrives(r, k, ask, apiKey[k].scopes)

\* mutation: what a key was issued for is what it may do
AsIssued(r) == request[r].scopes

\* The owner's current role, narrowed by the scopes of the key.
Granted(r) == PermissionsForRole(role[Person(request[r].actor)]) \cap request[r].scopes

\* findMemberRole, in a statement of its own.
FindMemberRole(r) ==
    /\ At(r, "identified")
    /\ request' = [request EXCEPT ![r] =
           IF role[Person(request[r].actor)] = None THEN Refused
           ELSE [@ EXCEPT !.step = "resolved", !.permissions = Granted(r)]]
    /\ UNCHANGED <<members, apiKey, limits, minute, overlapped, changes>>

\* The clock is read where the request is served; the statement runs later.
ReadClock(r) ==
    /\ At(r, "resolved")
    /\ request' = [request EXCEPT ![r].step = "counting", ![r].minute = minute]
    /\ UNCHANGED <<members, apiKey, limits, minute, overlapped, changes>>

\* mutation: one more than the limit
AllowsOneMore(count) == count <= Limit + 1

Allowed(count) == count <= Limit

\* consumeRateLimit, one upsert; a minute that is over counts anew.
ConsumeRateLimit(r) ==
    LET q == request[r]
        c == counter[q.actor]
        count == IF c.minute = q.minute THEN c.count + 1 ELSE 1
    IN
    /\ At(r, "counting")
    /\ counter' = [counter EXCEPT ![q.actor] = [minute |-> q.minute, count |-> count]]
    /\ late' = IF q.minute < c.minute THEN late \cup {q.actor} ELSE late
    /\ request' = [request EXCEPT ![r] = IF Allowed(count) THEN [@ EXCEPT !.step = "running"] ELSE Refused]
    /\ let' = IF Allowed(count) THEN [let EXCEPT ![q.actor][q.minute] = @ + 1] ELSE let
    /\ UNCHANGED <<members, apiKey, minute, overlapped, changes>>

\* An hour later: no request of that minute is under way.
PruneRateLimits(a) ==
    /\ counter[a].count > 0 /\ counter[a].minute < minute
    /\ \A r \in Requests : At(r, "counting") => request[r].minute > counter[a].minute
    /\ counter' = [counter EXCEPT ![a].count = 0]
    /\ UNCHANGED <<members, apiKey, let, late, minute, request, overlapped, changes>>

Tick ==
    /\ minute < LastMinute /\ minute' = minute + 1
    /\ UNCHANGED <<members, apiKey, limits, request, overlapped, changes>>

-----------------------------------------------------------------------------
\* The procedure, in a transaction of its own.

Permitted(r, op) == At(r, "running") /\ request[r].ask.op = op /\ Required(request[r].ask) \in request[r].permissions

Work(r) ==
    /\ Permitted(r, "work")
    /\ request' = Done(r)
    /\ UNCHANGED <<members, apiKey, limits, minute, overlapped, changes>>

\* Only a person issues keys, with any scopes: they are narrowed when used.
ApiKeyCreate(r, k, scopes) ==
    /\ Permitted(r, "create key") /\ request[r].actor \in Users
    /\ apiKey[k] = NoKey
    /\ apiKey' = [apiKey EXCEPT ![k] = [state |-> "live", user |-> request[r].actor, scopes |-> scopes]]
    /\ request' = Done(r)
    /\ UNCHANGED <<members, limits, minute, overlapped, changes>>

\* Its day has come; or it is revoked.
ApiKeyExpires(k) ==
    /\ apiKey[k].state = "live"
    /\ apiKey' = [apiKey EXCEPT ![k].state = "expired"]
    /\ UNCHANGED <<members, limits, minute, request, overlapped, changes>>

ApiKeyRevoke(r) ==
    LET k == request[r].ask.on IN
    /\ Permitted(r, "revoke")
    /\ IF apiKey[k].state \in {"live", "expired"}
       THEN apiKey' = [apiKey EXCEPT ![k].state = "revoked"] /\ request' = Done(r)
       ELSE request' = [request EXCEPT ![r] = Refused] /\ UNCHANGED apiKey
    /\ UNCHANGED <<members, limits, minute, overlapped, changes>>

\* mutation: the last owner is counted as one too many
RemovableAnyway(u) == role[u] # None

\* The owners are counted, without a lock.
Removable(u) == role[u] = "owner" => Cardinality(Owners) > 1

MemberRemoveRead(r) ==
    LET u == request[r].ask.on IN
    /\ Permitted(r, "remove") /\ role[u] # None
    /\ request' = [request EXCEPT ![r] = IF Removable(u) THEN [@ EXCEPT !.step = "removing"] ELSE Refused]
    /\ overlapped' = (overlapped \/ Overlaps(u))
    /\ UNCHANGED <<members, apiKey, limits, minute, changes>>

MemberRemove(r) ==
    /\ At(r, "removing")
    /\ Becomes(request[r].ask.on, None, Done(r))
    /\ UNCHANGED <<form, apiKey, limits, minute, overlapped, changes>>

\* Not permitted, or rolled back.
Refuse(r) ==
    /\ request[r].step \in {"running", "removing"}
    /\ request' = [request EXCEPT ![r] = Refused]
    /\ UNCHANGED <<members, apiKey, limits, minute, overlapped, changes>>

-----------------------------------------------------------------------------
LetIn ==
    \/ \E r \in Requests, ask \in Asks :
          \/ \E u \in Users : ResolveFromSession(r, u, ask)
          \/ \E k \in ApiKeys : ResolveFromApiKey(r, k, ask)
    \/ \E r \in Requests : FindMemberRole(r) \/ ReadClock(r) \/ ConsumeRateLimit(r)
    \/ \E a \in Actors : PruneRateLimits(a)
    \/ Tick

Act ==
    \E r \in Requests :
       \/ Work(r) \/ ApiKeyRevoke(r) \/ MemberRemoveRead(r) \/ MemberRemove(r) \/ Refuse(r)
       \/ \E k \in ApiKeys, scopes \in {{"work"}, {"manage", "work"}} : ApiKeyCreate(r, k, scopes)

People ==
    \/ \E u \in Users : SetupCheck(u) \/ CompleteSetup(u)
    \/ \E u \in Users, new \in Roles : ProvisionMember(u, new) \/ UpdateMemberRole(u, new)
    \/ \E k \in ApiKeys : ApiKeyExpires(k)

Next == LetIn \/ Act \/ People

Spec == Init /\ [][Next]_vars

-----------------------------------------------------------------------------
RequestRows ==
    [step : {"unsent", "done", "refused"} \cup InFlight, actor : Actors \cup {None}, ask : Asks \cup {None},
     scopes : SUBSET {"manage", "work"}, permissions : SUBSET {"manage", "work"}, minute : 0..LastMinute,
     roles : SUBSET (Roles \cup {None}), live : BOOLEAN]

\* Rows keep their types; the installation is set up once, by one person, who
\* finds nobody before.
TypeOK ==
    /\ form \in [Users -> {"blank", "checked", "done"}]
    /\ Cardinality({u \in Users : form[u] = "done"}) <= 1
    /\ role \in [Users -> Roles \cup {None}]
    /\ \A u \in Users : role[u] # None => Installed
    /\ DOMAIN apiKey = ApiKeys
    /\ \A k \in ApiKeys : apiKey[k] = NoKey \/ (apiKey[k].user \in Users /\ apiKey[k].scopes # {})
    /\ DOMAIN request = Requests /\ \A r \in Requests : request[r] \in RequestRows
    /\ \A a \in Actors : counter[a].minute \in 0..minute

\* "A key can never exceed what its owner may do, re-evaluated per request":
\* what was done, was permitted to the person by a role held after the request
\* came in, and to the key by its scopes, and the key was good when it came in.
AuthorityHeld ==
    \A r \in Requests : At(r, "done") =>
       /\ request[r].live
       /\ \E had \in request[r].roles : Required(request[r].ask) \in PermissionsForRole(had) \cap request[r].scopes

\* No more than the limit is let through in a minute, however requests race,
\* unless one of an earlier minute is counted after one of a later.
WithinLimit == \A a \in Actors \ late, m \in 0..LastMinute : let[a][m] <= Limit

\* An installation that was set up has an owner, unless two owners were on
\* their way out at once: identity.ts counts them without a lock.
OwnerRemains == Installed /\ ~overlapped => Owners # {}
=============================================================================
