------------------------------ MODULE Tenancy ------------------------------
(***************************************************************************)
(* Organizations share every table, and the connections of one pool.  What *)
(* a statement may see or insert is decided by row-level security          *)
(* (0001_rls_policies.sql, 0004_events_rls.sql) from settings of the       *)
(* connection, set for a transaction by withTenant (tenant.ts),            *)
(* verifyApiKey (api-keys.ts) and withDispatcher (outbox/scope.ts); a      *)
(* statement may also run on a connection as it comes out of the pool      *)
(* (client.ts).                                                            *)
(*                                                                         *)
(* Postgres gives a setting that was never set as NULL; one that was set   *)
(* for a transaction is the empty string once it has ended.                *)
(*                                                                         *)
(* Data: companies stand for the tables that have tenant_isolation alone.  *)
(* Updates and deletions are left out: none moves a row to another         *)
(* organization.                                                           *)
(***************************************************************************)
CONSTANTS
    Orgs, Connections, Requests,
    Rows,           \* bound on rows
    None, Empty     \* a setting never set, and the empty string

VARIABLES
    row,            \* what is committed
    session,        \* the settings of each connection
    request         \* what is under way

vars == <<row, session, request>>

Outbox == {"events", "webhook_deliveries"}
Tables == {"companies", "api_keys"} \cup Outbox
Ways   == {"withTenant", "verifyApiKey", "withDispatcher"}

NoRow == [table |-> None, org |-> None, event |-> None, by |-> None]
Fresh == [org |-> None, lookup |-> None, dispatcher |-> None]
Idle  == [step |-> "idle", as |-> None, org |-> None, on |-> None, before |-> Fresh, seen |-> {},
          new |-> NoRow, failed |-> FALSE]

Init ==
    /\ row = [x \in Rows |-> NoRow]
    /\ session = [c \in Connections |-> Fresh]
    /\ request = [r \in Requests |-> Idle]

-----------------------------------------------------------------------------
\* The policies.

\* mutation: the empty string is cast as it is
CastAsItIs(value) == value

NullIf(value) == IF value = Empty THEN None ELSE value

\* Anything else that is no organization cannot be cast to one.
Castable(s) == NullIf(s.org) \in Orgs \cup {None}

Own(s, org) == org \in Orgs /\ NullIf(s.org) = org

\* Permissive policies widen one another.
Visible(s, x) ==
    \/ Own(s, x.org)
    \/ x.table = "api_keys" /\ s.lookup = "on"
    \/ x.table \in Outbox /\ s.dispatcher = "on"

Insertable(s, x) ==
    \/ Own(s, x.org)
    \/ x.table = "webhook_deliveries" /\ s.dispatcher = "on"

\* mutation: the event may be anybody's
AnyEvent(x) == \E e \in Rows : e = x.event /\ row[e].table = "events"

\* A delivery refers to its event by (organization_id, event_id).
References(x) ==
    IF x.table = "webhook_deliveries"
    THEN \E e \in Rows : e = x.event /\ row[e].table = "events" /\ row[e].org = x.org
    ELSE x.event = None

-----------------------------------------------------------------------------
\* The pool, and a transaction on one of its connections.
Free(c) == \A r \in Requests : request[r].on # c

Begin(r, way, org, c) ==
    /\ request[r] = Idle /\ Free(c)
    /\ request' = [request EXCEPT ![r] = [Idle EXCEPT !.step = "begun", !.as = way, !.on = c,
                                                      !.org = IF way = "withTenant" THEN org ELSE None]]
    /\ UNCHANGED <<row, session>>

\* set_config(name, value, true)
Scoped(s, q) ==
    CASE q.as = "withTenant"     -> [s EXCEPT !.org = q.org]
      [] q.as = "verifyApiKey"   -> [s EXCEPT !.lookup = "on"]
      [] q.as = "withDispatcher" -> [s EXCEPT !.dispatcher = "on"]

SetConfig(r) ==
    LET q == request[r] IN
    /\ q.step = "begun"
    /\ session' = [session EXCEPT ![q.on] = Scoped(@, q)]
    /\ request' = [request EXCEPT ![r].step = "scoped", ![r].before = session[q.on]]
    /\ UNCHANGED row

\* mutation: set for the session, the setting stays
SessionLevel(before, now) == now

\* What a transaction had set is as it was, but that what was not set is empty now.
Reverted(before, now) ==
    [k \in DOMAIN before |-> IF before[k] = None /\ now[k] # None THEN Empty ELSE before[k]]

Unused == {x \in Rows : row[x] = NoRow}
Spare  == CHOOSE x \in Unused : TRUE

Commit(r) ==
    LET q == request[r] IN
    /\ q.step = "scoped" /\ ~q.failed
    /\ \/ q.new = NoRow /\ UNCHANGED row
       \/ q.new # NoRow /\ Unused # {} /\ row' = [row EXCEPT ![Spare] = q.new]
    /\ session' = [session EXCEPT ![q.on] = Reverted(q.before, @)]
    /\ request' = [request EXCEPT ![r] = Idle]

RollBack(r) ==
    LET q == request[r] IN
    /\ q.step \in {"begun", "scoped"}
    /\ session' = [session EXCEPT ![q.on] = IF q.step = "begun" THEN @ ELSE Reverted(q.before, @)]
    /\ request' = [request EXCEPT ![r] = Idle]
    /\ UNCHANGED row

\* The connection breaks; the pool opens another in its place.
Reconnect(c) ==
    /\ session' = [session EXCEPT ![c] = Fresh]
    /\ request' = [r \in Requests |-> IF request[r].on = c THEN Idle ELSE request[r]]
    /\ UNCHANGED row

-----------------------------------------------------------------------------
\* Statements, which may ask for any table.
Stored(t) == {x \in Rows : row[x].table = t}

Answer(q, s, t) ==
    IF Castable(s) THEN [q EXCEPT !.seen = @ \cup {x \in Stored(t) : Visible(s, row[x])}]
                   ELSE [q EXCEPT !.failed = TRUE]

Select(r, t) ==
    LET q == request[r] IN
    /\ q.step = "scoped" /\ ~q.failed
    /\ request' = [request EXCEPT ![r] = Answer(q, session[q.on], t)]
    /\ UNCHANGED <<row, session>>

Insert(r, t, org, event) ==
    LET q == request[r]
        x == [table |-> t, org |-> org, event |-> event, by |-> q.org]
    IN
    /\ q.step = "scoped" /\ ~q.failed /\ q.new = NoRow
    /\ Castable(session[q.on]) /\ Insertable(session[q.on], x) /\ References(x)
    /\ request' = [request EXCEPT ![r].new = x]
    /\ UNCHANGED <<row, session>>

\* A statement of the unscoped handle: no transaction, no setting.
Query(r, t, c) ==
    /\ request[r] = Idle /\ Free(c)
    /\ request' = [request EXCEPT ![r] = Answer([Idle EXCEPT !.step = "answered", !.as = "db"], session[c], t)]
    /\ UNCHANGED <<row, session>>

Answered(r) ==
    /\ request[r].step = "answered"
    /\ request' = [request EXCEPT ![r] = Idle]
    /\ UNCHANGED <<row, session>>

Transaction(r) ==
    \/ \E way \in Ways, org \in Orgs, c \in Connections : Begin(r, way, org, c)
    \/ SetConfig(r) \/ Commit(r) \/ RollBack(r)

Statement(r) ==
    \/ \E t \in Tables : Select(r, t)
    \/ \E t \in Tables, org \in Orgs, event \in Rows \cup {None} : Insert(r, t, org, event)
    \/ \E t \in Tables, c \in Connections : Query(r, t, c)
    \/ Answered(r)

Next ==
    \/ \E r \in Requests : Transaction(r) \/ Statement(r)
    \/ \E c \in Connections : Reconnect(c)

Spec == Init /\ [][Next]_vars

-----------------------------------------------------------------------------
Row == [table : Tables, org : Orgs, event : Rows \cup {None}, by : Orgs \cup {None}] \cup {NoRow}

Session == [org : Orgs \cup {None, Empty}, lookup : {"on", None, Empty}, dispatcher : {"on", None, Empty}]

\* The settings, the rows and the requests have their types.
TypeOK ==
    /\ row \in [Rows -> Row]
    /\ session \in [Connections -> Session]
    /\ request \in [Requests -> [step : {"idle", "begun", "scoped", "answered"}, as : Ways \cup {"db", None},
                                 org : Orgs \cup {None}, on : Connections \cup {None}, before : Session,
                                 seen : SUBSET Rows, new : Row, failed : BOOLEAN]]

Meant(q, x) ==
    CASE q.as = "withTenant"     -> x.org = q.org
      [] q.as = "verifyApiKey"   -> x.table = "api_keys"
      [] q.as = "withDispatcher" -> x.table \in Outbox
      [] OTHER                   -> FALSE

\* Whatever ran on its connection before, and whatever it asks for, a request is
\* shown rows of its own organization only; the two that look across
\* organizations, those of the tables they are for; and one without a scope, none.
Isolated == \A r \in Requests : \A x \in request[r].seen : Meant(request[r], row[x])

\* A row belongs to the organization of the request that wrote it.  The
\* dispatcher writes deliveries only, to the organization of their event.
RowsOfOwner ==
    \A x \in Rows : row[x] # NoRow =>
       \/ row[x].by = row[x].org
       \/ row[x].by = None /\ row[x].table = "webhook_deliveries" /\ row[row[x].event].org = row[x].org

\* No statement fails for what a connection was used for before.
NeverFails == \A r \in Requests : ~request[r].failed
=============================================================================
