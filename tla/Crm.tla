--------------------------------- MODULE Crm ---------------------------------
(***************************************************************************)
(* Companies, contacts, leads, deals and the history kept about them       *)
(* (modules/crm).                                                          *)
(*                                                                         *)
(* A handler locks the row it changes and is one step, but for two that    *)
(* read a row they do not lock and write some statements later: a deal is  *)
(* created or restored for a company that was not archived, and an activity*)
(* is attached to what its lead and its deal named.  Those are requests of *)
(* two steps.  Converting a lead locks it and the company; whoever inserts *)
(* a row that names either waits for it, so that it is one step.           *)
(*                                                                         *)
(* Data: one e-mail address matters, that of the leads; names, amounts,    *)
(* owners and dates are left out, and so are reads.  A former client is a  *)
(* prospect that became a client once.                                     *)
(***************************************************************************)
EXTENDS FiniteSets

CONSTANTS Companies, Contacts, Deals, Leads, Activities, Requests, None

VARIABLES
    company, contact, deal, lead, activity,
    request,    \* what a request of two steps has read
    excused     \* history: deals reopened on an archived company, or created or
                \* restored by a request that read the company before

records == <<company, contact, lead>>
vars == <<company, contact, deal, lead, activity, request, excused>>

NoCompany  == [stage |-> "absent", became |-> FALSE, archived |-> FALSE]
NoContact  == [stored |-> FALSE, company |-> None, mail |-> FALSE, archived |-> FALSE]
NoDeal     == [stage |-> "absent", company |-> None, contact |-> None, archived |-> FALSE]
NoLead     == [status |-> "absent", archived |-> FALSE, company |-> None, contact |-> None, deal |-> None]
NoActivity == [stored |-> FALSE, targets |-> [lead |-> None, deal |-> None, contact |-> None, company |-> None],
               missed |-> FALSE]
Idle       == [op |-> "idle", row |-> None, targets |-> NoActivity.targets, early |-> FALSE]

Init ==
    /\ company = [c \in Companies |-> NoCompany]
    /\ contact = [p \in Contacts |-> NoContact]
    /\ deal = [d \in Deals |-> NoDeal]
    /\ lead = [l \in Leads |-> NoLead]
    /\ activity = [a \in Activities |-> NoActivity]
    /\ request = [r \in Requests |-> Idle]
    /\ excused = {}

\* loadCompany ... loadDeal: rows that exist, and those of them not put away.
StoredC(c)  == company[c].stage # "absent"
StoredD(d)  == deal[d].stage # "absent"
StoredL(l)  == lead[l].status # "absent"
Usable(c)   == StoredC(c) /\ ~company[c].archived
Reachable(p) == contact[p].stored /\ ~contact[p].archived
Open(d)     == deal[d].stage = "open" /\ ~deal[d].archived
\* A restore holds its deal from the read to the write.
Unlocked(d) == \A r \in Requests : ~(request[r].op = "deal.restore" /\ request[r].row = d)
\* contacts_organization_email_key
MailFree(p) == \A q \in Contacts \ {p} : ~(Reachable(q) /\ contact[q].mail)

-----------------------------------------------------------------------------
\* Companies and contacts.

\* mutation: when a company became a client is not kept
ClientUnstamped(x) == [x EXCEPT !.stage = "client"]

AsClient(x) == [x EXCEPT !.stage = "client", !.became = TRUE]

CompanyCreate(c, stage) ==
    /\ ~StoredC(c)
    /\ company' = [company EXCEPT ![c].stage = stage, ![c].became = (stage = "client")]
    /\ UNCHANGED <<contact, deal, lead, activity, request, excused>>

CompanyUpdate(c, stage) ==
    /\ StoredC(c) /\ company[c].stage # stage
    /\ company' = [company EXCEPT ![c] = IF stage = "client" THEN AsClient(@) ELSE [@ EXCEPT !.stage = stage]]
    /\ UNCHANGED <<contact, deal, lead, activity, request, excused>>

\* mutation: only a deal that was put away is in the way
HasArchivedDeal(c) == \E d \in Deals : deal[d].company = c /\ deal[d].archived

HasOpenDeal(c) == \E d \in Deals : deal[d].company = c /\ Open(d)

CompanyArchive(c) ==
    /\ Usable(c) /\ ~HasOpenDeal(c)
    /\ company' = [company EXCEPT ![c].archived = TRUE]
    /\ UNCHANGED <<contact, deal, lead, activity, request, excused>>

CompanyRestore(c) ==
    /\ StoredC(c) /\ company[c].archived
    /\ company' = [company EXCEPT ![c].archived = FALSE]
    /\ excused' = {d \in excused : deal[d].company # c}
    /\ UNCHANGED <<contact, deal, lead, activity, request>>

ContactCreate(p, c, mail) ==
    /\ ~contact[p].stored /\ (c # None => Usable(c)) /\ (mail => MailFree(p))
    /\ contact' = [contact EXCEPT ![p] = [stored |-> TRUE, company |-> c, mail |-> mail, archived |-> FALSE]]
    /\ UNCHANGED <<company, deal, lead, activity, request, excused>>

ContactUpdate(p, c, mail) ==
    /\ contact[p].stored /\ (c \notin {None, contact[p].company} => Usable(c))
    /\ (mail /\ ~contact[p].archived) => MailFree(p)
    /\ contact' = [contact EXCEPT ![p].company = c, ![p].mail = mail]
    /\ contact' # contact
    /\ UNCHANGED <<company, deal, lead, activity, request, excused>>

ContactArchive(p) ==
    /\ Reachable(p)
    /\ contact' = [contact EXCEPT ![p].archived = TRUE]
    /\ UNCHANGED <<company, deal, lead, activity, request, excused>>

ContactRestore(p) ==
    /\ contact[p].stored /\ contact[p].archived /\ (contact[p].mail => MailFree(p))
    /\ contact' = [contact EXCEPT ![p].archived = FALSE]
    /\ UNCHANGED <<company, deal, lead, activity, request, excused>>

-----------------------------------------------------------------------------
\* Deals.

Begin(r, op, row, targets, early) ==
    /\ request[r] = Idle
    /\ request' = [request EXCEPT ![r] = [op |-> op, row |-> row, targets |-> targets, early |-> early]]
    /\ UNCHANGED <<records, deal, activity, excused>>

\* dealCreate has seen a company and a contact in use.
DealCreate(r, c, p) ==
    /\ Usable(c) /\ (p # None => Reachable(p))
    /\ Begin(r, "deal.create", None, [NoActivity.targets EXCEPT !.company = c, !.contact = p], FALSE)

InsertDeal(r, d) ==
    LET c == request[r].targets.company IN
    /\ request[r].op = "deal.create" /\ ~StoredD(d)
    /\ deal' = [deal EXCEPT ![d] = [stage |-> "open", company |-> c, contact |-> request[r].targets.contact, archived |-> FALSE]]
    /\ excused' = IF company[c].archived THEN excused \cup {d} ELSE excused
    /\ request' = [request EXCEPT ![r] = Idle]
    /\ UNCHANGED <<records, activity>>

DealUpdate(d, p) ==
    /\ StoredD(d) /\ Unlocked(d) /\ deal[d].contact # p /\ (p # None => Reachable(p))
    /\ deal' = [deal EXCEPT ![d].contact = p]
    /\ UNCHANGED <<records, activity, request, excused>>

\* Winning a deal makes its company a client; a closed one may be reopened.
DealChangeStage(d, stage) ==
    LET c == deal[d].company IN
    /\ StoredD(d) /\ Unlocked(d) /\ ~deal[d].archived /\ deal[d].stage # stage
    /\ deal' = [deal EXCEPT ![d].stage = stage]
    /\ company' = IF stage = "won" THEN [company EXCEPT ![c] = AsClient(@)] ELSE company
    /\ excused' = IF stage = "open" /\ company[c].archived THEN excused \cup {d} ELSE excused
    /\ UNCHANGED <<contact, lead, activity, request>>

DealArchive(d) ==
    /\ StoredD(d) /\ Unlocked(d) /\ ~deal[d].archived
    /\ deal' = [deal EXCEPT ![d].archived = TRUE]
    /\ UNCHANGED <<records, activity, request, excused>>

DealRestore(r, d) ==
    /\ StoredD(d) /\ Unlocked(d) /\ deal[d].archived /\ ~company[deal[d].company].archived
    /\ Begin(r, "deal.restore", d, NoActivity.targets, FALSE)

Restored(r) ==
    LET d == request[r].row IN
    /\ request[r].op = "deal.restore"
    /\ deal' = [deal EXCEPT ![d].archived = FALSE]
    /\ excused' = IF company[deal[d].company].archived THEN excused \cup {d} ELSE excused
    /\ request' = [request EXCEPT ![r] = Idle]
    /\ UNCHANGED <<records, activity>>

-----------------------------------------------------------------------------
\* Leads.

LeadCreate(l) ==
    /\ ~StoredL(l)
    /\ lead' = [lead EXCEPT ![l].status = "new"]
    /\ UNCHANGED <<company, contact, deal, activity, request, excused>>

LeadChangeStatus(l, status) ==
    /\ lead[l].status \notin {"absent", "converted", status} /\ ~lead[l].archived
    /\ lead' = [lead EXCEPT ![l].status = status]
    /\ UNCHANGED <<company, contact, deal, activity, request, excused>>

LeadArchive(l) ==
    /\ StoredL(l)
    /\ lead' = [lead EXCEPT ![l].archived = TRUE] /\ lead' # lead
    /\ UNCHANGED <<company, contact, deal, activity, request, excused>>

LeadRestore(l) ==
    /\ StoredL(l)
    /\ lead' = [lead EXCEPT ![l].archived = FALSE] /\ lead' # lead
    /\ UNCHANGED <<company, contact, deal, activity, request, excused>>

Or(x, y) == IF x = None THEN y ELSE x

\* mutation: what was said to the lead stays with the company alone
MovedToCompany(t, c, p, d) == [t EXCEPT !.company = Or(@, c)]

\* The history of a lead follows it.
Moved(t, c, p, d) == [t EXCEPT !.company = Or(@, c), !.contact = Or(@, p), !.deal = Or(@, d)]

\* The company is a given one, or a new one; with a deal it is a prospect.
CompanyFor(c, d) ==
    IF StoredC(c)
    THEN /\ Usable(c)
         /\ company' = IF d = None THEN [company EXCEPT ![c] = AsClient(@)] ELSE company
    ELSE company' = [company EXCEPT ![c] = IF d = None THEN AsClient(@) ELSE [@ EXCEPT !.stage = "prospect"]]

\* The contact is a given one, or whoever has the lead's address, or a new one.
ContactFor(how, p, c) ==
    \/ how = "none" /\ p = None /\ UNCHANGED contact
    \/ how = "given" /\ p # None /\ Reachable(p) /\ UNCHANGED contact
    \/ how = "matched" /\ p # None /\ Reachable(p) /\ contact[p].mail
       /\ contact' = [contact EXCEPT ![p].company = Or(@, c)]
    \/ how = "created" /\ p # None /\ ~contact[p].stored /\ MailFree(p)
       /\ contact' = [contact EXCEPT ![p] = [stored |-> TRUE, company |-> c, mail |-> TRUE, archived |-> FALSE]]

LeadConvert(l, c, how, p, d) ==
    /\ lead[l].status = "new" /\ ~lead[l].archived
    /\ CompanyFor(c, d) /\ ContactFor(how, p, c)
    /\ d # None => ~StoredD(d)
    /\ deal' = [x \in Deals |-> IF x = d THEN [stage |-> "open", company |-> c, contact |-> p, archived |-> FALSE] ELSE deal[x]]
    /\ lead' = [lead EXCEPT ![l] = [status |-> "converted", archived |-> FALSE, company |-> c, contact |-> p, deal |-> d]]
    /\ activity' = [a \in Activities |->
           IF activity[a].targets.lead = l THEN [activity[a] EXCEPT !.targets = Moved(@, c, p, d)] ELSE activity[a]]
    /\ UNCHANGED <<request, excused>>

-----------------------------------------------------------------------------
\* Activities.

\* mutation: an activity of a converted lead is attached to the lead alone
LeadAlone(t) == t

FromLead(t) ==
    IF t.lead = None THEN t
    ELSE LET l == lead[t.lead] IN
         [t EXCEPT !.company = Or(@, l.company), !.contact = Or(@, l.contact), !.deal = Or(@, l.deal)]

FromDeal(t) ==
    IF t.deal = None THEN t
    ELSE [t EXCEPT !.company = Or(@, deal[t.deal].company), !.contact = Or(@, deal[t.deal].contact)]

FromContact(t) ==
    IF t.contact = None THEN t ELSE [t EXCEPT !.company = Or(@, contact[t.contact].company)]

ResolveTargets(t) == FromContact(FromDeal(FromLead(t)))

ActivityCreate(r, t) ==
    /\ t # NoActivity.targets
    /\ t.lead # None => StoredL(t.lead)
    /\ t.deal # None => StoredD(t.deal)
    /\ t.contact # None => contact[t.contact].stored
    /\ t.company # None => StoredC(t.company)
    /\ Begin(r, "activity.create", None, ResolveTargets(t), t.lead # None /\ lead[t.lead].status # "converted")

\* The row is inserted, and what it names is stamped.
InsertActivity(r, a) ==
    LET t == request[r].targets IN
    /\ request[r].op = "activity.create" /\ ~activity[a].stored
    /\ t.deal # None => Unlocked(t.deal)
    /\ activity' = [activity EXCEPT ![a] = [stored |-> TRUE, targets |-> t,
           missed |-> request[r].early /\ lead[t.lead].status = "converted"]]
    /\ request' = [request EXCEPT ![r] = Idle]
    /\ UNCHANGED <<records, deal, excused>>

ActivityDelete(a) ==
    /\ activity[a].stored
    /\ activity' = [activity EXCEPT ![a] = NoActivity]
    /\ UNCHANGED <<records, deal, request, excused>>

\* A request may fail, and its transaction with it.
RollBack(r) ==
    /\ request[r] # Idle
    /\ request' = [request EXCEPT ![r] = Idle]
    /\ UNCHANGED <<records, deal, activity, excused>>

-----------------------------------------------------------------------------
Stages == {"prospect", "client"}

Next ==
    \/ \E c \in Companies :
          \/ \E stage \in Stages : CompanyCreate(c, stage) \/ CompanyUpdate(c, stage)
          \/ CompanyArchive(c) \/ CompanyRestore(c)
    \/ \E p \in Contacts :
          \/ \E c \in Companies \cup {None}, mail \in BOOLEAN : ContactCreate(p, c, mail) \/ ContactUpdate(p, c, mail)
          \/ ContactArchive(p) \/ ContactRestore(p)
    \/ \E d \in Deals :
          \/ \E p \in Contacts \cup {None} : DealUpdate(d, p)
          \/ \E stage \in {"open", "won", "lost"} : DealChangeStage(d, stage)
          \/ DealArchive(d)
    \/ \E l \in Leads :
          \/ LeadCreate(l) \/ LeadArchive(l) \/ LeadRestore(l)
          \/ \E status \in {"new", "disqualified"} : LeadChangeStatus(l, status)
          \/ \E c \in Companies, how \in {"none", "given", "matched", "created"},
                p \in Contacts \cup {None}, d \in Deals \cup {None} : LeadConvert(l, c, how, p, d)
    \/ \E a \in Activities : ActivityDelete(a)
    \/ \E r \in Requests :
          \/ \E c \in Companies, p \in Contacts \cup {None} : DealCreate(r, c, p)
          \/ \E d \in Deals : InsertDeal(r, d) \/ DealRestore(r, d)
          \/ \E t \in [lead : Leads \cup {None}, deal : Deals \cup {None},
                       contact : Contacts \cup {None}, company : Companies \cup {None}] : ActivityCreate(r, t)
          \/ \E a \in Activities : InsertActivity(r, a)
          \/ Restored(r) \/ RollBack(r)

Spec == Init /\ [][Next]_vars

-----------------------------------------------------------------------------
\* A client became one; an address is that of one contact in use; what a lead
\* became is named exactly when it was converted, and rows name rows stored.
TypeOK ==
    /\ \A c \in Companies : company[c].stage = "client" => company[c].became
    /\ \A c \in Companies : company[c].archived => StoredC(c)
    /\ \A p, q \in Contacts : Reachable(p) /\ Reachable(q) /\ contact[p].mail /\ contact[q].mail => p = q
    /\ \A l \in Leads :
         /\ lead[l].status = "converted" <=> lead[l].company # None
         /\ lead[l].deal # None => deal[lead[l].deal].company = lead[l].company
    /\ \A d \in Deals : StoredD(d) => StoredC(deal[d].company)
    /\ \A a \in Activities : activity[a].stored => activity[a].targets # NoActivity.targets

\* What was said to a lead is on the record of whatever it became, whether it
\* was said before or after, unless it was being written down meanwhile.
HistoryFollows ==
    \A a \in Activities :
       LET t == activity[a].targets IN
       t.lead # None /\ lead[t.lead].status = "converted" /\ ~activity[a].missed =>
          /\ t.company # None
          /\ lead[t.lead].contact # None => t.contact # None
          /\ lead[t.lead].deal # None => t.deal # None

\* An archived company has no open deal, unless somebody reopened a closed one,
\* or had found the company in use before it was archived.
ArchivedIdle ==
    \A d \in Deals \ excused : Open(d) => ~company[deal[d].company].archived
=============================================================================
