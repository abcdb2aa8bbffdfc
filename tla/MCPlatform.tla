------------------------------ MODULE MCPlatform ------------------------------
\* Small instances of RowLocks, Requests, Access and Tenancy for TLC.  What they have
\* in common is read only, so they are explored side by side: a behaviour is one of
\* the parts'.
EXTENDS RowLocks, TLC

CONSTANTS
    None, Requests, Keys, MaxPrunes, MaxFaults,
    Users, ApiKeys, Limit, LastMinute, MaxChanges,
    Orgs, Connections, Callers, Kept, Empty

VARIABLES
    part,
    request, keyRow, holder, logo, gone, stored, did, unheard, prunes, faults,
    form, role, apiKey, counter, minute, accessRequest, let, late, overlapped, changes,
    row, session, tenancyRequest

Rq == INSTANCE Requests
Ax == INSTANCE Access WITH request <- accessRequest
Tn == INSTANCE Tenancy WITH Requests <- Callers, Rows <- Kept, request <- tenancyRequest

requestsVars ==
    <<request, keyRow, holder, logo, gone, stored, did, unheard, prunes, faults>>
accessVars ==
    <<form, role, apiKey, counter, minute, accessRequest, let, late, overlapped, changes>>
tenancyVars ==
    <<row, session, tenancyRequest>>
allVars == <<part, vars, requestsVars, accessVars, tenancyVars>>

\* A part that is not explored stays as it begins, or is left blank.
NoRequests ==
    /\ request = None /\ keyRow = None /\ holder = None /\ logo = None /\ gone = None
    /\ stored = None /\ did = None /\ unheard = None /\ prunes = None /\ faults = None
NoAccess ==
    /\ form = None /\ role = None /\ apiKey = None /\ counter = None /\ minute = None
    /\ accessRequest = None /\ let = None /\ late = None /\ overlapped = None /\ changes = None
NoTenancy ==
    /\ row = None /\ session = None /\ tenancyRequest = None

AllInit ==
    \/ part = "locks" /\ Init /\ NoRequests /\ NoAccess /\ NoTenancy
    \/ part = "requests" /\ Rq!Init /\ Init /\ NoAccess /\ NoTenancy
    \/ part = "access" /\ Ax!Init /\ Init /\ NoRequests /\ NoTenancy
    \/ part = "tenancy" /\ Tn!Init /\ Init /\ NoRequests /\ NoAccess

LocksNext ==
    part = "locks" /\ Next /\ UNCHANGED <<part, requestsVars, accessVars, tenancyVars>>
RequestsNext ==
    part = "requests" /\ Rq!Next /\ UNCHANGED <<part, vars, accessVars, tenancyVars>>
AccessNext ==
    part = "access" /\ Ax!Next /\ UNCHANGED <<part, vars, requestsVars, tenancyVars>>
TenancyNext ==
    part = "tenancy" /\ Tn!Next /\ UNCHANGED <<part, vars, requestsVars, accessVars>>

AllNext == LocksNext \/ RequestsNext \/ AccessNext \/ TenancyNext
AllSpec == AllInit /\ [][AllNext]_allVars

ASSUME PlatformAssumption ==
    /\ None \notin Orgs \cup Connections \cup Tn!Tables \cup Tn!Ways \cup {Empty, "on"}
    /\ Empty \notin Orgs \cup {"on"}
    /\ None \notin Requests \cup Keys \cup Rq!Parents \cup {"client"} /\ None \notin Rq!Asks
    /\ Users \cap ApiKeys = {} /\ None \notin Users \cup ApiKeys \cup Ax!Roles
    /\ Limit \in Nat /\ LastMinute \in Nat

\* Bounds: when a second minute has begun, two requests at most.
TwoMinutes == minute = 0 \/ \E r \in Requests : accessRequest[r] = Ax!Unsent

\* Bounds: one connection has been used in two ways at most and the other in one
\* since it was opened, one request reads at a time, and two rows are an event and
\* its delivery, two events or two deliveries.
Uses(c) == {k \in DOMAIN session[c] : session[c][k] # None}
UsedLittle ==
    /\ \A c \in Connections : Cardinality(Uses(c)) <= 2
    /\ \E c \in Connections : Cardinality(Uses(c)) <= 1
    /\ \E r \in Callers : tenancyRequest[r].seen = {}
    /\ (\A x \in Kept : row[x] # Tn!NoRow) => \A x \in Kept : row[x].table \in Tn!Outbox

Alike == Permutations(Requests) \cup Permutations(Callers) \cup Permutations(Orgs)

Bounded ==
    /\ part = "access" => TwoMinutes
    /\ part = "tenancy" => UsedLittle

\* requests: under one key, something is done once, and answered the same; a file
\* that a row names is there, and goes with its row.
RequestsOnce == part = "requests" => Rq!TypeOK /\ Rq!OncePerKey /\ Rq!FilesFollowRows

\* access: what was done was permitted when the request came in, or since; no more
\* than the limit is let through in a minute; an owner remains.
\* tenancy: whatever ran on its connection before, a request sees the rows of its
\* own organization, and writes no others.
AccessHeld ==
    /\ part = "access" => Ax!TypeOK /\ Ax!AuthorityHeld /\ Ax!WithinLimit /\ Ax!OwnerRemains
    /\ part = "tenancy" => Tn!TypeOK /\ Tn!Isolated /\ Tn!RowsOfOwner /\ Tn!NeverFails
=============================================================================
