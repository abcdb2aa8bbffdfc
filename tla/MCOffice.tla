------------------------------- MODULE MCOffice -------------------------------
\* Small instances of Tickets and Crm for TLC.  They share no table, so they are
\* explored side by side: a behaviour is one of the parts'.
EXTENDS Integers

CONSTANTS
    Nothing,
    Tickets, Plans, Late, LastHour, MaxPlanEdits,
    Companies, Contacts, Deals, Leads, Activities, Callers

\* Plans are numbers; Nothing is no row and no hour.
ASSUME OfficeAssumption ==
    /\ Plans \subseteq Int /\ Late \in Nat /\ LastHour \in Nat /\ MaxPlanEdits \in Nat
    /\ Nothing \notin Int \cup Companies \cup Contacts \cup Deals \cup Leads

VARIABLES
    part,
    clock, ticket, replies, plan, visits, edits,
    company, contact, deal, lead, activity, call, excused

Tk == INSTANCE Tickets WITH None <- Nothing
Cr == INSTANCE Crm WITH None <- Nothing, Requests <- Callers, request <- call

ticketsVars ==
    <<clock, ticket, replies, plan, visits, edits>>
crmVars ==
    <<company, contact, deal, lead, activity, call, excused>>
officeVars == <<part, ticketsVars, crmVars>>

\* A part that is not explored is left blank.
NoTickets ==
    /\ clock = Nothing /\ ticket = Nothing /\ replies = Nothing /\ plan = Nothing /\ visits = Nothing
    /\ edits = Nothing
NoCrm ==
    /\ company = Nothing /\ contact = Nothing /\ deal = Nothing /\ lead = Nothing /\ activity = Nothing
    /\ call = Nothing /\ excused = Nothing

OfficeInit ==
    \/ part = "tickets" /\ Tk!Init /\ NoCrm
    \/ part = "crm" /\ Cr!Init /\ NoTickets

TicketsNext ==
    part = "tickets" /\ Tk!Next /\ UNCHANGED <<part, crmVars>>
CrmNext ==
    part = "crm" /\ Cr!Next /\ UNCHANGED <<part, ticketsVars>>

OfficeNext == TicketsNext \/ CrmNext
OfficeSpec == OfficeInit /\ [][OfficeNext]_officeVars

\* tickets: what was promised stays, and was first kept when it is said to have been.
TicketsMeasured == Tk!MeasuredFairly

\* tickets: a ticket is stamped as its status says.
\* crm: what was logged with a lead follows it to what it became, and an archived
\* company has no open deal.
RecordsKept ==
    /\ part = "tickets" => Tk!TypeOK
    /\ part = "crm" => Cr!TypeOK /\ Cr!HistoryFollows /\ Cr!ArchivedIdle
=============================================================================
