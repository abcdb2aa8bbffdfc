---------------------------- MODULE BillingPlan ----------------------------
(***************************************************************************)
(* What one fixed-price project is contracted for and how that is billed   *)
(* (projects/contract.ts, revisions.ts, billing-plan.ts, billing-stages.ts,*)
(* stage-release.ts): a price, the revisions of it the client accepted, and *)
(* a plan of stages that are each billed by one invoice.                   *)
(*                                                                         *)
(* Releasing a stage and accepting a revision read the contract and write   *)
(* what follows from it; both are modelled in two steps, the read under    *)
(* the row locks and the commit, with every other request in between that  *)
(* those locks do not keep out.  The other requests hold their locks for    *)
(* one read and one write and are atomic.                                  *)
(*                                                                         *)
(* Data: one project with a client, not archived, in one currency; no tax, *)
(* so an invoice is its net.  A stage is invoiced exactly when it has an   *)
(* invoice (project_billing_stages_released_check), so the invoice is part *)
(* of the stage; no handler gives a stage the status "cancelled".           *)
(***************************************************************************)
EXTENDS Integers, Sequences, FiniteSets, FiniteSetsExt, Functions

CONSTANTS
    Stages, Revisions,  \* the rows there may be at a time
    Requests,           \* requests under way that release or accept
    None,
    Prices,             \* what a price may be set to
    Changes,            \* amounts of a revision
    Terms,              \* what a stage may bill: basis, and percent or amount
    Edits               \* what a person may edit a draft invoice to

Bases == {"amount", "percent", "balance"}

NoRow == [status |-> "none"]
Idle == [op |-> "idle"]

VARIABLES
    price,      \* projects.contract_value_minor
    revisions,  \* project_revisions
    plan,       \* the stages in the order of their positions
    stage,      \* project_billing_stages, each with its invoice
    tx          \* the requests under way

vars == <<price, revisions, plan, stage, tx>>

RevisionRows ==
    [status : {"draft", "sent", "accepted", "declined", "withdrawn"},
     amount : Changes, previous : Int \cup {None}]

StageRows ==
    [status : {"stage"}, terms : Terms, statement : BOOLEAN,
     invoice : {"none", "draft", "issued", "cancelled"},
     released : Int \cup {None},  \* released_amount_minor
     net : Int,                   \* what its invoice asks for
     takesOff : SUBSET Stages]    \* whose invoices it takes off, as a statement

Releasing ==
    [op : {"release"}, on : Stages, amount : Int, takesOff : SUBSET Stages]
Accepting ==
    [op : {"accept"}, on : Revisions, previous : Int \cup {None}]

NotInvoiced(t, s) ==
    [status |-> "stage", terms |-> t, statement |-> s,
     invoice |-> "none", released |-> None, net |-> 0, takesOff |-> {}]

-----------------------------------------------------------------------------
\* What the project is contracted for.

\* contractedValue: the price and every accepted change to it.
ContractedValue ==
    LET accepted == SumFunction([r \in {r \in Revisions : revisions[r].status = "accepted"} |->
                                    revisions[r].amount])
    IN  IF price # None THEN price + accepted
        ELSE IF accepted = 0 THEN None ELSE accepted

-----------------------------------------------------------------------------
\* planTotals: what each stage is worth at that.

OnPlan == {s \in Stages : stage[s] # NoRow}
Pending == {s \in OnPlan : stage[s].invoice = "none"}

\* Half away from zero.
ShareOf(contracted, percent) ==
    IF contracted >= 0 THEN (contracted * percent + 50) \div 100
    ELSE -((-contracted * percent + 50) \div 100)

\* Before the remainder and the balance are given out.
Known(s) ==
    LET terms == stage[s].terms
    IN  IF stage[s].released # None THEN stage[s].released
        ELSE IF terms.basis = "amount" THEN terms.worth
        ELSE IF terms.basis = "percent" /\ ContractedValue # None
             THEN ShareOf(ContractedValue, terms.worth)
        ELSE 0

SharesMakeTheWhole ==
    /\ OnPlan # {}
    /\ \A s \in Pending : stage[s].terms.basis = "percent"
    /\ 100 = SumFunction([s \in {s \in OnPlan : stage[s].terms.basis = "percent"} |->
                            stage[s].terms.worth])

Place(s) == CHOOSE i \in DOMAIN plan : plan[i] = s
LastPending(s) == s \in Pending /\ \A other \in Pending : Place(other) <= Place(s)

\* mutation: what was billed already is not counted
PendingBesideBalance(s) == Pending \ {s}

\* What the balance leaves to the others.
BesideBalance(s) == OnPlan \ {s}

Worth(s) ==
    IF s \in Pending /\ stage[s].terms.basis = "balance"
    THEN IF ContractedValue = None THEN 0
         ELSE Max({0, ContractedValue - SumFunction([other \in BesideBalance(s) |-> Known(other)])})
    ELSE IF LastPending(s) /\ SharesMakeTheWhole /\ ContractedValue # None
    THEN Known(s) + ContractedValue - SumFunction([other \in OnPlan |-> Known(other)])
    ELSE Known(s)

\* mutation: a draft does not count
CountsIssuedOnly(s) == stage[s].invoice = "issued"

\* A cancelled invoice no longer counts against the contract; a draft does.
Counts(s) == stage[s].invoice \in {"draft", "issued"}
Planned == SumFunction([s \in OnPlan |-> Worth(s)])
Released == SumFunction([s \in {s \in OnPlan : Counts(s)} |-> stage[s].released])

-----------------------------------------------------------------------------
\* Row locks.  Both kinds of request hold the project until they commit.

\* mutations: the row is read without FOR UPDATE
ProjectUnlocked == TRUE
StageUnlocked(s) == TRUE

ProjectFree == \A p \in Requests : tx[p] = Idle
StageFree(s) == \A p \in Requests : tx[p].op = "release" => tx[p].on # s
RevisionFree(r) == \A p \in Requests : tx[p].op = "accept" => tx[p].on # r

-----------------------------------------------------------------------------
\* projectBillingStage.release

\* mutation: a stage worth nothing is billed
WorthAnything(s) == Worth(s) >= 0

WorthBilling(s) == Worth(s) > 0

\* mutation: a draft is taken off too
TakesOffDrafts(s) == stage[s].invoice \in {"draft", "issued"}

\* The invoices a statement takes off have all been issued.
MayTakeOff(s) == stage[s].invoice = "issued" /\ stage[s].net > 0

\* earlierStageInvoices, and the check that the statement asks for the rest.
EarlierInvoices(s) == {e \in OnPlan \ {s} : Counts(e)}
MayBeStatement(s) ==
    /\ Pending = {s}
    /\ ContractedValue - Released = Worth(s)
    /\ \A e \in EarlierInvoices(s) : MayTakeOff(e)
    /\ ContractedValue - SumFunction([e \in EarlierInvoices(s) |-> stage[e].net]) = Worth(s)

Release(p, s) ==
    /\ tx[p] = Idle
    /\ s \in Pending /\ StageFree(s) /\ ProjectFree
    /\ ContractedValue # None
    /\ WorthBilling(s)
    /\ Released + Worth(s) <= ContractedValue  \* over_billing
    /\ stage[s].statement => MayBeStatement(s)
    /\ tx' = [tx EXCEPT ![p] =
            [op |-> "release", on |-> s, amount |-> Worth(s),
             takesOff |-> IF stage[s].statement THEN EarlierInvoices(s) ELSE {}]]
    /\ UNCHANGED <<price, revisions, plan, stage>>

CommitRelease(p) ==
    /\ tx[p].op = "release"
    /\ stage' = [stage EXCEPT ![tx[p].on].invoice = "draft",
                              ![tx[p].on].released = tx[p].amount,
                              ![tx[p].on].net = tx[p].amount,
                              ![tx[p].on].takesOff = tx[p].takesOff]
    /\ tx' = [tx EXCEPT ![p] = Idle]
    /\ UNCHANGED <<price, revisions, plan>>

-----------------------------------------------------------------------------
\* projectRevision.accept

Accept(p, r) ==
    /\ tx[p] = Idle
    /\ revisions[r].status = "sent" /\ RevisionFree(r) /\ ProjectFree
    /\ LET was == IF ContractedValue = None THEN 0 ELSE ContractedValue
       IN  revisions[r].amount # 0 => was + revisions[r].amount >= 0
    /\ tx' = [tx EXCEPT ![p] = [op |-> "accept", on |-> r, previous |-> ContractedValue]]
    /\ UNCHANGED <<price, revisions, plan, stage>>

CommitAccept(p) ==
    /\ tx[p].op = "accept"
    /\ revisions' = [revisions EXCEPT ![tx[p].on].status = "accepted",
                                      ![tx[p].on].previous = tx[p].previous]
    /\ tx' = [tx EXCEPT ![p] = Idle]
    /\ UNCHANGED <<price, plan, stage>>

\* Either request may fail after it read: its transaction is rolled back.
RollBack(p) ==
    /\ tx[p] # Idle
    /\ tx' = [tx EXCEPT ![p] = Idle]
    /\ UNCHANGED <<price, revisions, plan, stage>>

-----------------------------------------------------------------------------
\* The price and the other answers to a revision.

\* project.update
SetPrice(v) ==
    /\ ProjectFree
    /\ price # v
    /\ price' = v
    /\ UNCHANGED <<revisions, plan, stage, tx>>

CreateRevision(r, amount) ==
    /\ revisions[r] = NoRow /\ ProjectFree
    /\ revisions' = [revisions EXCEPT ![r] =
            [status |-> "draft", amount |-> amount, previous |-> None]]
    /\ UNCHANGED <<price, plan, stage, tx>>

UpdateRevision(r, amount) ==
    /\ revisions[r].status = "draft" /\ revisions[r].amount # amount
    /\ revisions' = [revisions EXCEPT ![r].amount = amount]
    /\ UNCHANGED <<price, plan, stage, tx>>

DeleteRevision(r) ==
    /\ revisions[r].status = "draft"
    /\ revisions' = [revisions EXCEPT ![r] = NoRow]
    /\ UNCHANGED <<price, plan, stage, tx>>

\* send, decline and withdraw
MoveRevision(r, from, to) ==
    /\ revisions[r].status = from /\ RevisionFree(r)
    /\ revisions' = [revisions EXCEPT ![r].status = to]
    /\ UNCHANGED <<price, plan, stage, tx>>

SendRevision(r) == MoveRevision(r, "draft", "sent")
DeclineRevision(r) == MoveRevision(r, "sent", "declined")
WithdrawRevision(r) == MoveRevision(r, "sent", "withdrawn")

-----------------------------------------------------------------------------
\* The plan.

\* A plan has one balance, billed or not (project_billing_stages_one_balance_key).
OneBalance(s, terms) ==
    terms.basis = "balance" => \A other \in OnPlan \ {s} : stage[other].terms.basis # "balance"

CreateStage(s, terms, statement) ==
    /\ stage[s] = NoRow /\ ProjectFree
    /\ OneBalance(s, terms)
    /\ stage' = [stage EXCEPT ![s] = NotInvoiced(terms, statement)]
    /\ plan' = Append(plan, s)
    /\ UNCHANGED <<price, revisions, tx>>

UpdateStage(s, terms, statement) ==
    /\ s \in Pending /\ StageFree(s)
    /\ OneBalance(s, terms)
    /\ stage' = [stage EXCEPT ![s].terms = terms, ![s].statement = statement]
    /\ stage' # stage
    /\ UNCHANGED <<price, revisions, plan, tx>>

\* Any order: the project is locked, and then every stage.
ReorderStages(order) ==
    /\ ProjectFree /\ \A s \in OnPlan : StageFree(s)
    /\ order # plan
    /\ plan' = order
    /\ UNCHANGED <<price, revisions, stage, tx>>

RemoveStage(s) ==
    /\ s \in Pending /\ StageFree(s)
    /\ stage' = [stage EXCEPT ![s] = NoRow]
    /\ plan' = [i \in 1 .. Len(plan) - 1 |-> IF i < Place(s) THEN plan[i] ELSE plan[i + 1]]
    /\ UNCHANGED <<price, revisions, tx>>

-----------------------------------------------------------------------------
\* The invoice of a stage, which is one like any other.

\* A person edits the lines of the draft: the stage does not follow.
EditDraft(s, net) ==
    /\ stage[s] # NoRow /\ stage[s].invoice = "draft" /\ stage[s].net # net
    /\ stage' = [stage EXCEPT ![s].net = net]
    /\ UNCHANGED <<price, revisions, plan, tx>>

\* invoice.send: what it takes off must stand, and not be taken off elsewhere.
Send(s) ==
    /\ stage[s] # NoRow /\ stage[s].invoice = "draft"
    /\ \A e \in stage[s].takesOff : stage[e].invoice = "issued"
    /\ \A other \in OnPlan : stage[other].invoice = "issued"
                                => stage[other].takesOff \cap stage[s].takesOff = {}
    /\ stage' = [stage EXCEPT ![s].invoice = "issued"]
    /\ UNCHANGED <<price, revisions, plan, tx>>

\* invoice.cancel, with nothing paid against it.
Cancel(s) ==
    /\ stage[s] # NoRow /\ stage[s].invoice = "issued"
    /\ \A other \in OnPlan : stage[other].invoice = "issued" => s \notin stage[other].takesOff
    /\ stage' = [stage EXCEPT ![s].invoice = "cancelled"]
    /\ UNCHANGED <<price, revisions, plan, tx>>

\* invoice.delete and releaseStageForInvoice: the stage is pending again.
DeleteDraft(s) ==
    /\ stage[s] # NoRow /\ stage[s].invoice = "draft"
    /\ stage' = [stage EXCEPT ![s] = NotInvoiced(stage[s].terms, stage[s].statement)]
    /\ UNCHANGED <<price, revisions, plan, tx>>

-----------------------------------------------------------------------------
Init ==
    /\ price \in Prices \cup {None}
    /\ revisions = [r \in Revisions |-> NoRow]
    /\ plan = <<>>
    /\ stage = [s \in Stages |-> NoRow]
    /\ tx = [p \in Requests |-> Idle]

RevisionNext(r) ==
    \/ \E a \in Changes : CreateRevision(r, a) \/ UpdateRevision(r, a)
    \/ DeleteRevision(r) \/ SendRevision(r)
    \/ DeclineRevision(r) \/ WithdrawRevision(r)

StageNext(s) ==
    \/ \E t \in Terms, b \in BOOLEAN : CreateStage(s, t, b) \/ UpdateStage(s, t, b)
    \/ RemoveStage(s)
    \/ \E n \in Edits : EditDraft(s, n)
    \/ Send(s) \/ Cancel(s) \/ DeleteDraft(s)

Next ==
    \/ \E p \in Requests :
           \/ \E s \in Stages : Release(p, s)
           \/ \E r \in Revisions : Accept(p, r)
           \/ CommitRelease(p) \/ CommitAccept(p) \/ RollBack(p)
    \/ \E v \in Prices \cup {None} : SetPrice(v)
    \/ \E r \in Revisions : RevisionNext(r)
    \/ \E s \in Stages : StageNext(s)
    \/ \E order \in Bijection(DOMAIN plan, OnPlan) : ReorderStages(order)

Spec == Init /\ [][Next]_vars

-----------------------------------------------------------------------------
\* Every row is well formed, the plan lists each stage once, and an invoiced
\* stage was released at more than nothing.
TypeOK ==
    /\ price \in Prices \cup {None}
    /\ revisions \in [Revisions -> RevisionRows \cup {NoRow}]
    /\ plan \in Bijection(1 .. Cardinality(OnPlan), OnPlan)
    /\ stage \in [Stages -> StageRows \cup {NoRow}]
    /\ tx \in [Requests -> Releasing \cup Accepting \cup {Idle}]
    /\ \A s \in OnPlan \ Pending : stage[s].released \in Nat \ {0}

\* Over-billing: whatever raises what the plan has billed leaves it within
\* what the project is contracted for at that moment.  A revision accepted, or
\* a price changed, while a stage is being released must not get between.
NeverOverbilled ==
    [][Released' > Released =>
            /\ ContractedValue' # None
            /\ Released' <= ContractedValue']_vars

\* What a billed stage was released at is what its terms say: a fixed amount
\* is not changed while, or after, its invoice is raised.
ReleasedAsAgreed ==
    \A s \in OnPlan \ Pending :
        stage[s].terms.basis = "amount" => stage[s].released = stage[s].terms.worth

\* A plan that is meant to exhaust the contract -- shares that make the whole,
\* or a balance -- comes to exactly the contract, however it rounds and whatever
\* was billed of it before at another price; a balance is never less than nothing.
PlanAddsUp ==
    LET balances == {s \in Pending : stage[s].terms.basis = "balance"}
    IN  ContractedValue # None =>
            /\ (SharesMakeTheWhole /\ Pending # {}) => Planned = ContractedValue
            /\ \A s \in balances : Worth(s) > 0 => Planned = ContractedValue

\* A statement, when it is raised, asks with the invoices it takes off for
\* exactly what the project is contracted for, as those invoices were issued.
StatementClosesContract ==
    [][\A s \in Pending :
        (s \in OnPlan' /\ stage[s].statement /\ stage'[s].invoice = "draft") =>
            stage'[s].net + SumFunction([e \in stage'[s].takesOff |-> stage'[e].net])
                = ContractedValue']_vars

\* A revision is accepted on the contract as it stands at that moment: it
\* records that as what the contract was before, and takes out of it no more
\* than there is.
AcceptedOnTheContract ==
    [][\A r \in Revisions :
        (revisions[r].status = "sent" /\ revisions'[r].status = "accepted") =>
            /\ revisions'[r].previous = ContractedValue
            /\ revisions[r].amount < 0 => ContractedValue' \in Nat \cup {None}]_vars

\* The balance is what the contract has left: once everything else is billed,
\* a pending balance bills what the plan says remains (planTotals' remainingMinor).
BalanceIsWhatRemains ==
    \A s \in Pending :
        (Pending = {s} /\ stage[s].terms.basis = "balance" /\ ContractedValue # None)
            => Worth(s) = Max({0, ContractedValue - Released})

=============================================================================
