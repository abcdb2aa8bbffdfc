-------------------------- MODULE QuoteAcceptance --------------------------
(***************************************************************************)
(* A quote from draft to answer, alone or as one of several options, and   *)
(* what accepting it does to the project's contract (finance/quotes.ts,    *)
(* finance/quote-acceptance.ts, projects/revisions.ts, maintenance.ts).    *)
(*                                                                         *)
(* quote.accept and quote.send take locks one after another and are        *)
(* transactions of several steps, which may be refused or aborted at each. *)
(* Every other operation locks what it changes first and is one step.      *)
(*                                                                         *)
(* Data: a quote's one-time price is a constant; of its dates only whether *)
(* it is past its last day.  Recurring parts, billing plans and budgets    *)
(* that acceptance may also set up, and revisions that name no quote, are  *)
(* left out.                                                               *)
(***************************************************************************)
EXTENDS Integers, FiniteSets, FiniteSetsExt

CONSTANTS
    Quotes, Groups, Projects, Revisions,
    Txs,            \* requests of quote.accept and quote.send
    OneTime,        \* quoteSplit: the one-time price of each quote
    Prices,         \* contract values a person may set
    Amounts,        \* amounts of the revisions people draft
    None

ASSUME QuoteAcceptanceAssumption ==
    /\ OneTime \in [Quotes -> Nat]
    /\ Prices \subseteq Nat /\ Amounts \subseteq Int
    /\ None \notin Quotes \cup Groups \cup Projects \cup Revisions \cup Int
    /\ IsFiniteSet(Revisions)

VARIABLES
    quote,      \* the quotes
    group,      \* the groups of options, and the quote chosen
    project,    \* the projects and their contract_value_minor
    revision,   \* the project revisions that name a quote
    tx,         \* the transactions of several steps
    overlapped  \* history: options whose sending ran beside the choice

vars == <<quote, group, project, revision, tx, overlapped>>

Absent == [status |-> "absent", group |-> None, project |-> None, lapsed |-> FALSE]
Blank  == [status |-> "absent", project |-> None, quote |-> None, amount |-> 0]
Deleted == [Blank EXCEPT !.status = "deleted"]
Idle   == [step |-> "idle", quote |-> None, group |-> None, rivals |-> {}, losers |-> {},
           project |-> None, as |-> "none", revision |-> None, seen |-> "absent"]

Init ==
    /\ quote = [q \in Quotes |-> Absent]
    /\ group = [g \in Groups |-> [made |-> FALSE, decided |-> None]]
    /\ project = [p \in Projects |-> [made |-> FALSE, price |-> None]]
    /\ revision = [r \in Revisions |-> Blank]
    /\ tx = [t \in Txs |-> Idle]
    /\ overlapped = {}

-----------------------------------------------------------------------------
\* Rows, and the locks the transactions under way hold on them.

Made(q)     == quote[q].status # "absent"
Options(g)  == {q \in Quotes : Made(q) /\ quote[q].group = g}
Answered    == {"accepted", "declined", "expired"}

\* mutation: an alternative is made of a quote that is not locked
QuoteUnlocked(q) == TRUE

QuoteFree(q)   == \A t \in Txs : q # tx[t].quote /\ q \notin tx[t].losers
ProjectFree(p) == \A t \in Txs : tx[t].step = "applying" => tx[t].project # p
Choosing(t, g) == tx[t].step \in {"choosing", "applying"} /\ tx[t].group = g
GroupFree(g)   == \A t \in Txs : ~Choosing(t, g)

\* openGroup, read without a lock.
OpenGroup(g) == g # None => group[g].made /\ group[g].decided = None

\* requireOpen
Open(q) == quote[q].status = "sent" /\ ~quote[q].lapsed

\* contractFor: what a project is contracted for, with nothing agreed as 0.
Accepted(p)   == {r \in Revisions : revision[r].status = "accepted" /\ revision[r].project = p}
Contracted(p) == (IF project[p].price = None THEN 0 ELSE project[p].price)
                 + MapThenSumSet(LAMBDA r : revision[r].amount, Accepted(p))

MadeProjects == {p \in Projects : project[p].made}

-----------------------------------------------------------------------------
\* Drafts, and options beside each other.

Create(q, g, p) ==
    /\ ~Made(q) /\ OpenGroup(g)
    /\ quote' = [quote EXCEPT ![q] = [status |-> "draft", group |-> g, project |-> p, lapsed |-> FALSE]]
    /\ UNCHANGED <<group, project, revision, tx, overlapped>>

\* quote.update: another group, another project, or a later last day.
Update(q, g, p, lapsed) ==
    /\ quote[q].status = "draft" /\ QuoteFree(q)
    /\ g # quote[q].group => OpenGroup(g)
    /\ lapsed => quote[q].lapsed
    /\ quote' = [quote EXCEPT ![q].group = g, ![q].project = p, ![q].lapsed = lapsed]
    /\ UNCHANGED <<group, project, revision, tx, overlapped>>

\* A revision that names the quote forbids it: its foreign key.
Delete(q) ==
    /\ quote[q].status = "draft" /\ QuoteFree(q)
    /\ \A r \in Revisions : revision[r].quote # q
    /\ quote' = [quote EXCEPT ![q] = Absent]
    /\ UNCHANGED <<group, project, revision, tx, overlapped>>

\* mutation: quotes are put in a group that was never stored
NeverStored(g) == group

\* The group as inserted, for the quotes that join it in the same transaction.
Stored(g) == [group EXCEPT ![g].made = TRUE]

\* The row that quote.duplicate locks, whatever it goes on to do with it.
SourceFree(q) == QuoteFree(q)

\* quote.duplicate, of any quote.
Duplicate(q, d) ==
    /\ Made(q) /\ ~Made(d) /\ SourceFree(q)
    /\ quote' = [quote EXCEPT ![d] = [Absent EXCEPT !.status = "draft", !.project = quote[q].project]]
    /\ UNCHANGED <<group, project, revision, tx, overlapped>>

\* quote.duplicate, as an option beside a quote that is not answered: into
\* its group, or into a new one that both join.
DuplicateAsOption(q, d, g) ==
    /\ Made(q) /\ ~Made(d) /\ SourceFree(q)
    /\ quote[q].status \notin Answered
    /\ \/ quote[q].group = g /\ OpenGroup(g) /\ UNCHANGED group
       \/ quote[q].group = None /\ ~group[g].made /\ group' = Stored(g)
    /\ quote' = [quote EXCEPT ![q].group = g,
                              ![d] = [Absent EXCEPT !.status = "draft", !.group = g, !.project = quote[q].project]]
    /\ UNCHANGED <<project, revision, tx, overlapped>>

\* quoteOptionGroup.create
CreateGroup(g, qs) ==
    /\ ~group[g].made
    /\ \A q \in qs : QuoteFree(q) /\ quote[q].group = None /\ quote[q].status \in {"draft", "sent"}
    /\ group' = Stored(g)
    /\ quote' = [q \in Quotes |-> IF q \in qs THEN [quote[q] EXCEPT !.group = g] ELSE quote[q]]
    /\ UNCHANGED <<project, revision, tx, overlapped>>

-----------------------------------------------------------------------------
\* quote.send: the group is read without a lock, and the rest follows.

\* mutation: an option is sent whether or not the client has chosen
SendsAnyway(q) == quote[q].status = "draft"

\* The last day is compared with the issue date the request gives, not with
\* today, so that a quote past it may still be sent.
MaySend(q) == quote[q].status = "draft" /\ OpenGroup(quote[q].group)

SendBegin(t, q) ==
    /\ tx[t].step = "idle" /\ QuoteFree(q) /\ MaySend(q)
    /\ tx' = [tx EXCEPT ![t] = [Idle EXCEPT !.step = "sending", !.quote = q]]
    /\ overlapped' = IF quote[q].group # None /\ ~GroupFree(quote[q].group)
                       THEN overlapped \cup {q} ELSE overlapped \ {q}
    /\ UNCHANGED <<quote, group, project, revision>>

SendCommit(t) ==
    /\ tx[t].step = "sending"
    /\ quote' = [quote EXCEPT ![tx[t].quote].status = "sent"]
    /\ tx' = [tx EXCEPT ![t] = Idle]
    /\ UNCHANGED <<group, project, revision, overlapped>>

-----------------------------------------------------------------------------
\* quote.accept

\* loadQuote(lock), requireOpen; the group is the one the row says now.
AcceptBegin(t, q) ==
    /\ tx[t].step = "idle" /\ QuoteFree(q) /\ Open(q)
    /\ tx' = [tx EXCEPT ![t] = [Idle EXCEPT !.step = "opened", !.quote = q, !.group = quote[q].group]]
    /\ UNCHANGED <<quote, group, project, revision, overlapped>>

\* The other options decideGroup finds open.
Rivals(q, g) == {r \in Options(g) \ {q} : quote[r].status = "sent"}

\* decideGroup: the group is locked, and must be undecided.
Choose(t) ==
    LET q == tx[t].quote
        g == tx[t].group
    IN  /\ tx[t].step = "opened"
        /\ \/ g = None /\ tx' = [tx EXCEPT ![t].step = "choosing"] /\ UNCHANGED overlapped
           \/ /\ g # None /\ GroupFree(g) /\ group[g].decided = None
              /\ tx' = [tx EXCEPT ![t].step = "choosing", ![t].rivals = Rivals(q, g)]
              /\ overlapped' = overlapped \cup
                    {tx[s].quote : s \in {s \in Txs : tx[s].step = "sending" /\ quote[tx[s].quote].group = g}}
        /\ UNCHANGED <<quote, group, project, revision>>

\* mutation: a rival is declined although it was answered before its lock came
LosesAnyway(r) == TRUE

\* FOR UPDATE asks the condition again once it has the row.
Loses(r) == quote[r].status = "sent"

LockRival(t, r) ==
    /\ tx[t].step = "choosing" /\ r \in tx[t].rivals
    /\ QuoteFree(r)
    /\ tx' = [tx EXCEPT ![t].rivals = @ \ {r},
                        ![t].losers = IF Loses(r) THEN @ \cup {r} ELSE @]
    /\ UNCHANGED <<quote, group, project, revision, overlapped>>

\* resolveProject: the quote's own, one the request names, one it creates, or none.
MayBeFor(q) == IF quote[q].project # None THEN {quote[q].project} ELSE Projects \cup {None}

\* mutation: the project is read without its lock
ProjectUnlocked(p) == TRUE

ProjectLockable(p) == ProjectFree(p)

\* How the price may reach the project: by default its contract value if it
\* has none and an addition otherwise, or what the request says.
Ways(q, p) ==
    IF p = None \/ OneTime[q] = 0 THEN {"none"}
    ELSE {"addition", "none"} \cup (IF project[p].price = None THEN {"base"} ELSE {})

\* addAsRevision: the revisions drafted or sent against this quote, read unlocked.
Named(q, p) == {r \in Revisions : /\ revision[r].status \in {"draft", "sent"}
                                  /\ revision[r].project = p /\ revision[r].quote = q}

Resolve(t, p, as) ==
    LET q == tx[t].quote
    IN  /\ tx[t].step = "choosing" /\ tx[t].rivals = {}
        /\ p \in MayBeFor(q) /\ (p # None => ProjectLockable(p))
        /\ as \in Ways(q, p)
        /\ \E r \in IF as = "addition" /\ Named(q, p) # {} THEN Named(q, p) ELSE {None} :
             tx' = [tx EXCEPT ![t].step = "applying", ![t].project = p, ![t].as = as,
                              ![t].revision = r,
                              ![t].seen = IF r = None THEN "absent" ELSE revision[r].status]
        /\ UNCHANGED <<quote, group, project, revision, overlapped>>

\* quotes_one_accepted_option_key
OnlyAccepted(q) == quote[q].group # None =>
    \A o \in Options(quote[q].group) \ {q} : quote[o].status # "accepted"

\* The addition as it is accepted: the revision read before, if it still is
\* what it was, or a new one at the quote's price.
Addition(t, r) ==
    LET q == tx[t].quote
        p == tx[t].project
    IN  IF tx[t].revision = None
          THEN [status |-> "accepted", project |-> p, quote |-> q, amount |-> OneTime[q]]
          ELSE [revision[r] EXCEPT !.status = "accepted"]

\* What projectRevision.create, .send and .accept ask of it.
MayAdd(t, r) ==
    /\ IF tx[t].revision = None THEN revision[r].status = "absent"
       ELSE r = tx[t].revision /\ revision[r].status = tx[t].seen
    /\ Addition(t, r).amount # 0 => Contracted(tx[t].project) + Addition(t, r).amount >= 0

CommitAccept(t) ==
    LET q == tx[t].quote
        p == tx[t].project
        g == tx[t].group
    IN  /\ tx[t].step = "applying"
        /\ OnlyAccepted(q)
        /\ quote' = [o \in Quotes |->
                IF o = q THEN [quote[o] EXCEPT !.status = "accepted", !.project = p]
                ELSE IF o \in tx[t].losers THEN [quote[o] EXCEPT !.status = "declined"]
                ELSE quote[o]]
        /\ group' = IF g = None THEN group ELSE [group EXCEPT ![g].decided = q]
        /\ project' = IF p = None THEN project
                      ELSE [project EXCEPT ![p] =
                              [made |-> TRUE, price |-> IF tx[t].as = "base" THEN OneTime[q] ELSE @.price]]
        /\ \/ tx[t].as # "addition" /\ UNCHANGED revision
           \/ /\ tx[t].as = "addition"
              /\ \E r \in Revisions : MayAdd(t, r) /\ revision' = [revision EXCEPT ![r] = Addition(t, r)]
        /\ tx' = [tx EXCEPT ![t] = Idle]
        /\ UNCHANGED overlapped

\* Refused, aborted as the victim of a deadlock, or its process gone.
RollBack(t) ==
    /\ tx[t].step # "idle"
    /\ tx' = [tx EXCEPT ![t] = Idle]
    /\ UNCHANGED <<quote, group, project, revision, overlapped>>

-----------------------------------------------------------------------------
\* The other answers.

\* quote.decline
Decline(q) ==
    /\ QuoteFree(q) /\ Open(q)
    /\ quote' = [quote EXCEPT ![q].status = "declined"]
    /\ UNCHANGED <<group, project, revision, tx, overlapped>>

\* Midnight after the quote's last day, in the organization's time zone.
Lapse(q) ==
    /\ quote[q].status \in {"draft", "sent"} /\ ~quote[q].lapsed
    /\ quote' = [quote EXCEPT ![q].lapsed = TRUE]
    /\ UNCHANGED <<group, project, revision, tx, overlapped>>

\* mutation: the sweep asks for quotes that are not yet past their last day
DueWhileValid(q) == quote[q].status = "sent" /\ ~quote[q].lapsed

Due(q) == quote[q].status = "sent" /\ quote[q].lapsed

\* expireDueQuotes, in each round of the maintenance job: rows that are locked are skipped.
ExpireDueQuotes ==
    LET due == {q \in Quotes : Due(q) /\ QuoteFree(q)}
    IN  /\ due # {}
        /\ quote' = [q \in Quotes |-> IF q \in due THEN [quote[q] EXCEPT !.status = "expired"] ELSE quote[q]]
        /\ UNCHANGED <<group, project, revision, tx, overlapped>>

-----------------------------------------------------------------------------
\* The contract: projects and the revisions that name a quote.

CreateProject(p, price) ==
    /\ ~project[p].made /\ ProjectFree(p)
    /\ project' = [project EXCEPT ![p] = [made |-> TRUE, price |-> price]]
    /\ UNCHANGED <<quote, group, revision, tx, overlapped>>

\* project.update
SetPrice(p, price) ==
    /\ project[p].made /\ ProjectFree(p)
    /\ project' = [project EXCEPT ![p].price = price]
    /\ UNCHANGED <<quote, group, revision, tx, overlapped>>

\* projectRevision.create and .update.  Naming a quote checks a foreign key,
\* which waits for whoever has locked the quote.
CreateRevision(r, p, q, amount) ==
    /\ revision[r].status = "absent"
    /\ Made(q) /\ QuoteFree(q) /\ project[p].made /\ ProjectFree(p)
    /\ revision' = [revision EXCEPT ![r] = [status |-> "draft", project |-> p, quote |-> q, amount |-> amount]]
    /\ UNCHANGED <<quote, group, project, tx, overlapped>>

UpdateRevision(r, q, amount) ==
    /\ revision[r].status = "draft" /\ Made(q)
    /\ q # revision[r].quote => QuoteFree(q)
    /\ revision' = [revision EXCEPT ![r].quote = q, ![r].amount = amount]
    /\ UNCHANGED <<quote, group, project, tx, overlapped>>

\* projectRevision.send, .decline and .withdraw; .delete of a draft, whose id is
\* not given again.
MoveRevision(r, from, to) ==
    /\ <<from, to>> \in {<<"draft", "sent">>, <<"sent", "declined">>, <<"sent", "withdrawn">>, <<"draft", "deleted">>}
    /\ revision[r].status = from
    /\ revision' = [revision EXCEPT ![r] = IF to = "deleted" THEN Deleted ELSE [@ EXCEPT !.status = to]]
    /\ UNCHANGED <<quote, group, project, tx, overlapped>>

\* projectRevision.accept
AcceptRevision(r) ==
    /\ revision[r].status = "sent" /\ ProjectFree(revision[r].project)
    /\ revision[r].amount # 0 => Contracted(revision[r].project) + revision[r].amount >= 0
    /\ revision' = [revision EXCEPT ![r].status = "accepted"]
    /\ UNCHANGED <<quote, group, project, tx, overlapped>>

-----------------------------------------------------------------------------
Drafting ==
    \/ \E q \in Quotes, g \in Groups \cup {None}, p \in MadeProjects \cup {None} :
         Create(q, g, p) \/ \E lapsed \in BOOLEAN : Update(q, g, p, lapsed)
    \/ \E q \in Quotes : Delete(q)
    \/ \E q, d \in Quotes : Duplicate(q, d) \/ \E g \in Groups : DuplicateAsOption(q, d, g)
    \/ \E g \in Groups, qs \in SUBSET Quotes : CreateGroup(g, qs)

Finish(t) ==
    \/ SendCommit(t) \/ Choose(t) \/ CommitAccept(t) \/ RollBack(t)
    \/ \E r \in Quotes : LockRival(t, r)
    \/ \E p \in Projects \cup {None}, as \in {"base", "addition", "none"} : Resolve(t, p, as)

Answering ==
    \/ \E t \in Txs, q \in Quotes : SendBegin(t, q) \/ AcceptBegin(t, q)
    \/ \E t \in Txs : Finish(t)
    \/ \E q \in Quotes : Decline(q) \/ Lapse(q)
    \/ ExpireDueQuotes

Contracting ==
    \/ \E p \in Projects, price \in Prices \cup {None} : CreateProject(p, price) \/ SetPrice(p, price)
    \/ \E r \in Revisions, q \in Quotes, amount \in Amounts :
         UpdateRevision(r, q, amount) \/ \E p \in Projects : CreateRevision(r, p, q, amount)
    \/ \E r \in Revisions :
         \/ AcceptRevision(r)
         \/ \E from, to \in {"draft", "sent", "declined", "withdrawn", "deleted"} : MoveRevision(r, from, to)

Next == Drafting \/ Answering \/ Contracting

Spec == Init /\ [][Next]_vars

\* A transaction ends, and the maintenance job comes round again however often
\* it finds the row locked.
Fairness == SF_vars(ExpireDueQuotes) /\ \A t \in Txs : WF_vars(Finish(t))

FairSpec == Spec /\ Fairness

-----------------------------------------------------------------------------
QuoteRows == [status : {"absent", "draft", "sent"} \cup Answered,
              group : Groups \cup {None}, project : Projects \cup {None}, lapsed : BOOLEAN]

RevisionRows == [status : {"absent", "draft", "sent", "accepted", "declined", "withdrawn", "deleted"},
                 project : Projects \cup {None}, quote : Quotes \cup {None}, amount : Int]

TxRows == [step : {"idle", "sending", "opened", "choosing", "applying"},
           quote : Quotes \cup {None}, group : Groups \cup {None}, rivals : SUBSET Quotes, losers : SUBSET Quotes,
           project : Projects \cup {None}, as : {"base", "addition", "none"},
           revision : Revisions \cup {None}, seen : {"absent", "draft", "sent"}]

Shapes ==
    /\ quote \in [Quotes -> QuoteRows]
    /\ group \in [Groups -> [made : BOOLEAN, decided : Quotes \cup {None}]]
    /\ project \in [Projects -> [made : BOOLEAN, price : Nat \cup {None}]]
    /\ revision \in [Revisions -> RevisionRows]
    /\ tx \in [Txs -> TxRows]
    /\ \A t \in Txs : tx[t].step # "idle" => tx[t].quote # None
    /\ overlapped \subseteq Quotes

References ==
    /\ \A q \in Quotes :
         /\ quote[q].group # None => group[quote[q].group].made
         /\ quote[q].project # None => project[quote[q].project].made
    /\ \A r \in Revisions : revision[r].status \notin {"absent", "deleted"} =>
         /\ revision[r].quote # None /\ Made(revision[r].quote)
         /\ revision[r].project # None /\ project[revision[r].project].made
    /\ \A t \in Txs :
         /\ tx[t].as = "addition" => tx[t].project # None
         /\ tx[t].revision # None => tx[t].seen # "absent"

\* Every row has its type, and the rows it refers to exist: no quote, group or
\* project is gone or not yet stored when another row names it.
TypeOK == Shapes /\ References

\* Of a group of options the client takes one: an option is accepted exactly
\* when its group says that it was chosen, whatever quotes are accepted, put
\* into groups and duplicated at once (decideGroup, quote.duplicate).
ChoiceRecorded == \A q \in Quotes : quote[q].group # None =>
    (quote[q].status = "accepted" <=> group[quote[q].group].decided = q)

\* Once the client has chosen, no other option of the group is still open,
\* except one whose sending ran beside the choice: decideGroup declines those
\* it finds, quote.send refuses the rest, but reads the group without a lock.
LosersClosed == \A q \in Quotes :
    quote[q].status = "sent" /\ quote[q].group # None /\ group[quote[q].group].decided # None
        => q \in overlapped

\* An answer is final: an accepted, declined or expired quote keeps its status,
\* its group and the project it has, also when the sweep, a decline and the
\* choice of another option meet on its row.
AnswerIsFinal == [][\A q \in Quotes : quote[q].status \in Answered =>
    /\ quote'[q].status = quote[q].status /\ quote'[q].group = quote[q].group
    /\ quote[q].project # None => quote'[q].project = quote[q].project]_vars

\* What an acceptance carries to its project.
Carries(t) ==
    IF tx[t].as = "none" THEN 0
    ELSE IF tx[t].revision # None THEN revision[tx[t].revision].amount
    ELSE OneTime[tx[t].quote]

\* Accepting a quote changes what its project is contracted for by exactly what
\* it carries: two quotes for one project accepted at once add up, neither
\* replaces the other (quote.accept, addAsRevision).
AcceptanceAdds == [][\A t \in Txs, q \in Quotes, p \in Projects :
    /\ tx[t].step = "applying" /\ tx[t].quote = q /\ tx[t].project = p
    /\ quote[q].status = "sent" /\ quote'[q].status = "accepted"
    => Contracted(p)' - Contracted(p) = Carries(t)]_vars

\* A quote past its last day does not stay open for ever, although the sweep
\* skips the rows that somebody has locked (expireDueQuotes).
StaleIsExpired == \A q \in Quotes :
    quote[q].status = "sent" /\ quote[q].lapsed ~> quote[q].status # "sent"
=============================================================================
