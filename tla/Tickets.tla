------------------------------- MODULE Tickets -------------------------------
(***************************************************************************)
(* Tickets and what was promised about them (support/tickets.ts,           *)
(* support/sla.ts, the trigger of migration 0020), and the maintenance     *)
(* plans the promise comes from (maintenance/plans.ts, visits.ts).         *)
(*                                                                         *)
(* Every handler locks the row it changes and is one step, but it is dated *)
(* when its request began, which may be Late before it got the lock.       *)
(*                                                                         *)
(* Data: one client; an hour is a tick; two of the three open statuses     *)
(* and two of the four priorities; plans start and end on two days, and    *)
(* today is the second.                                                    *)
(***************************************************************************)
EXTENDS Integers, FiniteSets

CONSTANTS
    Tickets, Plans,     \* Plans are numbers, in the order of their ids
    Late,               \* how long a request may wait for a row
    LastHour,           \* bound on the clock
    MaxPlanEdits,       \* bound on changes of plans
    None

VARIABLES
    clock,
    ticket,     \* tickets
    replies,    \* ticket_messages: when each reply the client can see was made
    plan,       \* maintenance_plans
    visits,     \* maintenance_visits of each plan
    edits

vars == <<clock, ticket, replies, plan, visits, edits>>

Hours        == 0..LastHour
Days         == 0..1
Today        == 1
OpenStatuses == {"open", "waiting_on_client"}
Done         == {"resolved", "closed"}
Statuses     == OpenStatuses \cup Done
\* SLA_DEFAULTS
SlaDefaults  == [urgent |-> [response |-> 0, resolution |-> 1], normal |-> [response |-> 1, resolution |-> 1]]
Priorities   == DOMAIN SlaDefaults
Terms        == [response : {None, 2}, resolution : {None, 0}]

NoTicket == [status |-> "absent", client |-> FALSE, priority |-> "normal",
             responseDue |-> 0, resolutionDue |-> 0,
             responded |-> None, resolved |-> None, closed |-> None]
NoPlan   == [status |-> "absent", started |-> 0, ended |-> None, terms |-> [response |-> None, resolution |-> None]]

Init ==
    /\ clock = 0
    /\ ticket = [k \in Tickets |-> NoTicket]
    /\ replies = [k \in Tickets |-> {}]
    /\ plan = [p \in Plans |-> NoPlan]
    /\ visits = [p \in Plans |-> 0]
    /\ edits = 0

Tick == /\ clock < LastHour /\ clock' = clock + 1
        /\ UNCHANGED <<ticket, replies, plan, visits, edits>>

Stored(k) == ticket[k].status # "absent"
\* When a request that is served now may have begun.
Begun     == {h \in Hours : h <= clock /\ clock - h <= Late}

-----------------------------------------------------------------------------
\* Plans.

Edited == edits < MaxPlanEdits /\ edits' = edits + 1

MaintenancePlanCreate(p, from, terms) ==
    /\ Edited /\ plan[p].status = "absent"
    /\ plan' = [plan EXCEPT ![p] = [NoPlan EXCEPT !.status = "active", !.started = from, !.terms = terms]]
    /\ UNCHANGED <<clock, ticket, replies, visits>>

\* The database refuses a window that ends before it starts.
MaintenancePlanUpdate(p, from, terms) ==
    /\ Edited /\ plan[p].status # "absent"
    /\ plan[p].ended # None => plan[p].ended >= from
    /\ plan' = [plan EXCEPT ![p].started = from, ![p].terms = terms]
    /\ UNCHANGED <<clock, ticket, replies, visits>>

\* A plan taken up again keeps the day it ended.
MaintenancePlanChangeStatus(p, to, day) ==
    LET ended == IF day # None THEN day
                 ELSE IF to = "ended" /\ plan[p].ended = None THEN Today ELSE plan[p].ended IN
    /\ Edited /\ plan[p].status # "absent"
    /\ plan[p].status # to \/ day # None
    /\ ended # None => ended >= plan[p].started
    /\ plan' = [plan EXCEPT ![p].status = to, ![p].ended = ended]
    /\ UNCHANGED <<clock, ticket, replies, visits>>

\* Its visits go with it.
MaintenancePlanDelete(p) ==
    /\ Edited /\ plan[p].status # "absent"
    /\ plan' = [plan EXCEPT ![p] = NoPlan]
    /\ visits' = [visits EXCEPT ![p] = 0]
    /\ UNCHANGED <<clock, ticket, replies>>

\* Work is logged against a plan whatever its status.
MaintenanceVisitCreate(p) ==
    /\ Edited /\ plan[p].status # "absent"
    /\ visits' = [visits EXCEPT ![p] = @ + 1]
    /\ UNCHANGED <<clock, ticket, replies, plan>>

MaintenanceVisitDelete(p) ==
    /\ Edited /\ visits[p] > 0
    /\ visits' = [visits EXCEPT ![p] = @ - 1]
    /\ UNCHANGED <<clock, ticket, replies, plan>>

-----------------------------------------------------------------------------
\* Tickets.

\* The client's active plan that started last, and of those the newest.
Latest(p) ==
    /\ plan[p].status = "active"
    /\ \A q \in Plans : plan[q].status = "active" /\ q # p =>
          plan[q].started < plan[p].started \/ (plan[q].started = plan[p].started /\ q < p)

\* serviceLevelFor: the plan decides what it sets, the priority the rest.
ServiceLevelFor(client, priority, term) ==
    LET set == {plan[p].terms[term] : p \in {x \in Plans : client /\ Latest(x)}} \ {None} IN
    IF set = {} THEN SlaDefaults[priority][term] ELSE CHOOSE h \in set : TRUE

TicketCreate(k, client, priority, at) ==
    /\ ticket[k].status = "absent" /\ at \in Begun
    /\ ticket' = [ticket EXCEPT ![k] = [NoTicket EXCEPT
                     !.status = "open", !.client = client, !.priority = priority,
                     !.responseDue = at + ServiceLevelFor(client, priority, "response"),
                     !.resolutionDue = at + ServiceLevelFor(client, priority, "resolution")]]
    /\ UNCHANGED <<clock, replies, plan, visits, edits>>

\* mutation: what was promised follows the priority
FieldsAndTarget(t, client, priority) ==
    [t EXCEPT !.client = client, !.priority = priority,
              !.resolutionDue = ServiceLevelFor(client, priority, "resolution")]

\* The targets are stored when the ticket is raised, and never worked out again.
Fields(t, client, priority) == [t EXCEPT !.client = client, !.priority = priority]

TicketUpdate(k, client, priority) ==
    /\ Stored(k) /\ Edited
    /\ ticket' = [ticket EXCEPT ![k] = Fields(@, client, priority)]
    /\ UNCHANGED <<clock, replies, plan, visits>>

\* mutation: closing a ticket resolves it again
RestampedWhenClosed(t, to, at) ==
    [t EXCEPT !.status = to,
              !.resolved = IF to \notin Done THEN None ELSE at,
              !.closed = IF to # "closed" THEN None ELSE IF t.closed = None THEN at ELSE t.closed]

\* mutation: a reopened ticket stays resolved
KeptWhenReopened(t, to, at) ==
    [t EXCEPT !.status = to,
              !.resolved = IF t.resolved = None THEN at ELSE t.resolved,
              !.closed = IF to # "closed" THEN None ELSE IF t.closed = None THEN at ELSE t.closed]

\* Stamps stay while they hold, and go when they do not.
Stamped(t, to, at) ==
    [t EXCEPT !.status = to,
              !.resolved = IF to \notin Done THEN None ELSE IF t.resolved = None THEN at ELSE t.resolved,
              !.closed = IF to # "closed" THEN None ELSE IF t.closed = None THEN at ELSE t.closed]

TicketChangeStatus(k, to, at) ==
    /\ Stored(k) /\ at \in Begun /\ to # ticket[k].status
    /\ ticket' = [ticket EXCEPT ![k] = Stamped(@, to, at)]
    /\ UNCHANGED <<clock, replies, plan, visits, edits>>

\* workloom_ticket_first_response: the first message that is not internal.
FirstResponse(t, internal, at) ==
    IF internal \/ t.responded # None THEN t ELSE [t EXCEPT !.responded = at]

\* ticketMessage.create: a reply may change the status, too.
TicketReply(k, internal, to, at) ==
    /\ Stored(k) /\ at \in Begun
    /\ replies' = [replies EXCEPT ![k] = IF internal THEN @ ELSE @ \cup {at}]
    /\ ticket' = [ticket EXCEPT ![k] =
           LET t == FirstResponse(@, internal, at) IN
           IF to = t.status THEN t ELSE Stamped(t, to, at)]
    /\ UNCHANGED <<clock, plan, visits, edits>>

TicketDelete(k) ==
    /\ Stored(k) /\ Edited
    /\ ticket' = [ticket EXCEPT ![k] = NoTicket]
    /\ replies' = [replies EXCEPT ![k] = {}]
    /\ UNCHANGED <<clock, plan, visits>>

-----------------------------------------------------------------------------
\* What is shown.

\* slaState
SlaState(target, happened) ==
    IF happened # None THEN (IF happened <= target THEN "met" ELSE "breached")
    ELSE IF clock > target THEN "breached" ELSE "due"

\* ticket.list, breached only
ListedBreached(t) ==
    \/ t.responded = None /\ t.responseDue < clock
    \/ t.resolved = None /\ t.resolutionDue < clock
    \/ t.responded # None /\ t.responded > t.responseDue
    \/ t.resolved # None /\ t.resolved > t.resolutionDue

-----------------------------------------------------------------------------
Next ==
    \/ Tick
    \/ \E p \in Plans :
          \/ \E from \in Days, terms \in Terms :
                MaintenancePlanCreate(p, from, terms) \/ MaintenancePlanUpdate(p, from, terms)
          \/ \E to \in {"active", "paused", "ended"}, day \in Days \cup {None} :
                MaintenancePlanChangeStatus(p, to, day)
          \/ MaintenancePlanDelete(p) \/ MaintenanceVisitCreate(p) \/ MaintenanceVisitDelete(p)
    \/ \E k \in Tickets :
          \/ \E client \in BOOLEAN, priority \in Priorities :
                \/ \E at \in Hours : TicketCreate(k, client, priority, at)
                \/ TicketUpdate(k, client, priority)
          \/ \E to \in Statuses, at \in Hours :
                \/ TicketChangeStatus(k, to, at)
                \/ \E internal \in BOOLEAN : TicketReply(k, internal, to, at)
          \/ TicketDelete(k)

Spec == Init /\ [][Next]_vars

-----------------------------------------------------------------------------
ResponseLate(k)   == SlaState(ticket[k].responseDue, ticket[k].responded) = "breached"
ResolutionLate(k) == SlaState(ticket[k].resolutionDue, ticket[k].resolved) = "breached"

\* The checks of the database hold before it is asked: a ticket is resolved
\* and closed exactly when it says when, in both handlers that change its
\* status; a plan does not end before it starts, and one that ended says when.
\* A ticket has a first response exactly when the client was answered, and it
\* is one of the answers.  What is listed as breached is what is shown so.
TypeOK ==
    /\ clock \in Hours
    /\ \A k \in Tickets : Stored(k) =>
         LET t == ticket[k] IN
         /\ t.status \in Statuses /\ t.client \in BOOLEAN /\ t.priority \in Priorities
         /\ t.status \in Done <=> t.resolved # None
         /\ t.status = "closed" <=> t.closed # None
         /\ replies[k] = {} <=> t.responded = None
         /\ t.responded \in replies[k] \cup {None}
         /\ ListedBreached(t) <=> ResponseLate(k) \/ ResolutionLate(k)
    /\ \A p \in Plans :
         /\ plan[p].status = "ended" => plan[p].ended # None
         /\ plan[p].ended # None => plan[p].ended >= plan[p].started
         /\ plan[p].status = "absent" => visits[p] = 0

\* What a step that changes a ticket or the hour leaves of one that stays.
Measured(k) ==
    LET t == ticket[k]
        u == ticket'[k] IN
    /\ u.responseDue = t.responseDue /\ u.resolutionDue = t.resolutionDue
    /\ t.responded # None => u.responded = t.responded
    /\ {t.status, u.status} \subseteq Done => u.resolved = t.resolved
    /\ ResponseLate(k) => ResponseLate(k)' \/ (t.responded = None /\ u.responded < clock)
    /\ ResolutionLate(k) => ResolutionLate(k)' \/ (t.resolved = None /\ u.resolved < clock)

\* A ticket is measured against what was promised when it was raised, by the
\* answer it got first and the time it has been resolved since: a renegotiated
\* plan, another priority, a second answer or closing it moves neither.  What
\* was answered or resolved too late stays so, and what was not done in time
\* has failed for good, unless the request that did it began in time.
MeasuredFairly ==
    [][ ticket' # ticket \/ clock' # clock =>
          \A k \in Tickets : Stored(k) /\ ticket'[k].status # "absent" => Measured(k) ]_vars
=============================================================================
