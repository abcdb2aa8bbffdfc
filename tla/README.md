# Workloom in TLA+

Workloom is a business application for small agencies (TypeScript, Postgres, a
web application and a background worker): clients, projects, time, quotes,
invoices, payments, recurring billing, banking, support, webhooks.  These modules
model the parts of it where money, messages and permissions depend on the order
in which things happen.  Paths below are relative to `src/`.

    Contents   1  The system             5  Bounds and fairness
               2  Modules and code       6  What is proved
               3  What the runs show     7  What is left out
               4  Disagreements found    8  Plan

## 1  The system

Every operation is a *procedure* (`packages/core/src/registry`), called by the
web application, the public API or the assistant.  `execute.ts` runs it in one
Postgres transaction (READ COMMITTED) of one organization, with row-level
security, the audit entry, the outbox events and the idempotency key in the same
transaction.  Consistency between procedures is therefore a matter of row locks
(`FOR UPDATE`), unique indexes, CHECK constraints and a few triggers.  Worker
processes (`apps/worker`) run loops beside the requests: publishing the outbox,
delivering webhooks, the bot's inbox, tax packs, and an hourly maintenance that
sweeps overdue invoices, due schedules, expired quotes, budgets and renewals.

| component | state | what is hard | what makes it correct | modelled in |
|---|---|---|---|---|
| webhook outbox | `outbox_events`, `webhook_deliveries`, `webhook_endpoints` | several workers, leases, crashes; results written from an old snapshot; people editing meanwhile | every event reaches every endpoint that wanted it, once; each delivery settles; a success is final | `WebhookOutbox`, `DeliveryLedger` (partly) |
| payments and settlement | `payments`, `payment_allocations`, paid amount and status of `invoices` | reads before locks; a trigger that keeps the balance beside handlers that keep the status | balance = sum of allocations; status follows the balance; a cancelled invoice is closed | `Settlement`, `Banking` |
| row locks of finance | the rows above | locks taken in different orders | nobody waits in a circle | `RowLocks` (partly) |
| issuing and numbering | `invoices`, `document_sequences` | settings read unlocked; two sends at once; rollback after counting; years | numbers fresh and gapless; a deposit taken off once, from an invoice that stands | `InvoiceIssuing`, `TimeBilling`, `Pricing`, `Correspondence` (partly) |
| recurring billing | `billing_schedules` and what they raised | long legal sequences; catching up; one schedule failing among many | no day billed twice, none forgotten, never beyond the agreement | `BillingSchedule`, `BillingSweep` (partly) |
| contract and billing plan | project price, `project_revisions`, `project_billing_stages` | a ceiling checked against many rows; rounding | never billed beyond the contract; shares add up | `BillingPlan`, `QuoteAcceptance` (partly) |
| quotes and acceptance | `quotes`, `quote_option_groups` | two options accepted at once; acceptance against expiry and edits | one option wins; answers are final; acceptances add up | `QuoteAcceptance`, `Pricing` (partly) |
| document pricing | document lines, tax rates, services | rounding, discounts shared out, deductions | lines, taxes and discounts add up to the total | `Pricing` (partly) |
| time, expenses, receipts | `time_entries`, `expenses` | hours selected unlocked and marked later | an hour is billed once, at what was logged; one running timer | `TimeBilling`; `Inbox`, `Requests`, `Banking` for receipts (expenses partly) |
| projects, tasks, budgets | tasks, dependencies, files, project members, budget alerts | a check under one lock and a write under another; a cost read before it is recorded | no circle of tasks; finished in turn; files follow rows; a threshold told once | `TaskBoard`, `ProjectBudgets` (partly) |
| banking | `bank_accounts`, `bank_transactions` | lines that follow recorded money; balances kept by triggers | balance follows the lines; the legs of a transfer come and go together | `Banking` |
| closing the books | lock date, tax packs, `audit_seals` | a lock date read by triggers; packs read by several statements; entries committed late | a closed period stays; a pack holds the books; the chain of seals verifies | `Books`, `AuditSeals`, `Reports` |
| support and maintenance | `tickets`, plans, visits | targets taken from plans that change; handlers dated when they began | targets and stamps say what was promised and kept | `Tickets` |
| CRM | companies, contacts, leads, deals, activities | a row read unlocked and referred to later | history follows a lead; an archived company has no open deal | `Crm`, `Lists` |
| infrastructure, documents | assets, documents and their files | a sweep that selects unlocked and updates by id | a renewal is announced once, and announced | `Renewals`, `Requests` (partly) |
| reports and exports | none of their own | four queries written apart; pages while rows change | figures agree; a list read to the end is complete | `Reports`, `Lists` (partly) |
| integrations (Telegram) | bot, updates, links | polls, webhooks, leases, retries, a bot replaced meanwhile | no receipt lost, one expense each | `Inbox` (partly) |
| registry and idempotency | `idempotency_keys`, stored files | a repeat racing its first copy; files outside the transaction | a key takes effect once; files follow rows | `Requests` (partly) |
| organizations, identity, API keys | members, roles, keys, rate-limit counters | authority checked before it is used | what is done was permitted; the limit holds; an owner remains | `Access` (partly) |
| audit log and rate limits | `audit_log`, counters | see above | see above | `AuditSeals`, `Access` (partly) |
| tenancy, database | settings of connections, migrations | a pooled connection keeps what a transaction leaves | a request sees only its organization; migrations are applied once | `Tenancy`, `Boot` |
| worker schedules | the loops | each loop is the fairness of the sweeps it calls | -- | the modules of what they sweep (partly) |
| PDF and e-mails | none of their own | written in a transaction, sent after it | what is shown was issued; a view is told once | `Correspondence` (partly) |
| exchange rates; storage and AI; web application | lookups; external services; presentation | -- | -- | not modelled |

Interactions.  Every component writes outbox events in its own transaction; only
`WebhookOutbox` reads them.  Invoices are the shared rows: `TimeBilling`,
`Pricing`, `BillingSchedule` and `BillingPlan` draft them, `InvoiceIssuing` turns
a draft into a numbered invoice, `Settlement` moves it on from there,
`Correspondence` shows it, `Books` freezes it, `RowLocks` covers the order in
which all of them lock it.  A project's contract is written by quotes, revisions
and `project.update`, and read by the release of a stage.  `Requests`, `Access`
and `Tenancy` lie under every procedure; the others use them by what they
promise: a request they know is one that was let in, in its organization, once.

`PROJECT.json` lists under `hazards` what in this code is hard to test, each at
its line, with the properties aimed at it.

## 2  Modules and code

Background work and messages:

**`WebhookOutbox`** -- `apps/worker/src/outbox/publish.ts`, `deliver.ts`,
`core/src/modules/webhooks.ts`.  `PublishSelect`/`PublishCommit`/
`PublishRollback` are the three ends of the publishing transaction: the rows it
locks with SKIP LOCKED, the endpoints it reads, the insert and the stamp.
`Claim` takes the lease and the attempt up front and carries a *snapshot* of the
endpoint; `Attempt` is the POST, whose answer may be lost after the request
arrived; `RecordSuccess`, `RecordRetry`, `RecordFailure` write what the snapshot
says, never asking whether the lease is still theirs.  `LoseClaim` is a crash or
a failed write.  Times are two facts: `next_attempt_at` has come, and
`locked_until` lies ahead.  Retries by people (`RetryRead`, `RetryWrite`) are the
two unlocked statements of the handler.  `inserted`, `reached`, `eligible` and
`spent` are history.

**`DeliveryLedger`** -- the abstract specification: a delivery is queued once,
settles, is queued again only after it failed, and disappears with its endpoint.
`WebhookOutbox` implements it under the mapping of a row to its status, or `gone`
when the endpoint is deleted (`ImplementsLedger`); `Ledger!Settles` is its
liveness.

**`Inbox`** -- `integrations/telegram`: updates polled by workers (offset, batch,
store, answer for the next poll) or pushed to the webhook, stored once, handled
under a lease; an expense is created through the registry under a key made of the
bot and the update.  People pause, switch, replace or disconnect the bot
meanwhile.  What Telegram still keeps is `held`; `passed` and `wiped` are the
updates knowingly not handled and those that went with their bot.

**`Renewals`** -- `infrastructure/assets.ts`: the sweep selects what is due
without a lock and updates row by row by id; two workers, and people who renew,
cancel or move the date.

**`Correspondence`** -- mails, the public page and PDFs of a document while it is
issued, paid, viewed and cancelled: read, commit, then hand over what was built.

Money:

**`Settlement`** -- `finance/payments.ts`, `settlement.ts`, the issuing side of
`invoices.ts`, and the triggers of migrations 0016, 0017, 0033.  A request that
locks before it reads is one action.  `payment.delete` and `payment.unallocate`
read first: a *clerk* carries the early read, for a deletion then the locks, and
the commit.  `AfterAllocating` is what the trigger and `settleInvoice` do
together; `TriggerAllows` and `CancelledCheck` are what the database refuses.  A
transaction's date is fixed when it begins, so a clerk may settle with
yesterday's.

**`RowLocks`** -- each finance transaction as the sequence of rows it will lock.
`Orders` is the order in which `allocate()` and the cascade reach invoices;
`Ascending` says whether everybody sorts.

**`InvoiceIssuing`** -- `invoiceSend`, `settleDeductions`, `invoiceCancel`,
`numbering.ts`, `numbering-format.ts`, `document-sequences.ts`.  `invoice.send`
is one transaction of five steps: lock the draft, lock and check each invoice
taken off, read the settings without a lock, lock the counter, commit -- or
abort at any step.

**`BillingSchedule`** -- `billing-schedules.ts`, `recurrence.ts`, deletion of
drafts, for one schedule.  Handlers lock the schedule first, so each is atomic.
`Raised` is `raiseInvoiceFor` with its early returns, `Sweep` calls it up to
`MaxCatchUp` times in one transaction, `Rewound` is
`rewindSchedulesForInvoice`.  **`BillingSweep`** is the sweep over several
schedules: which it asks about before it locks, which are blocked, what a line
that cannot be priced does to the rest.

**`BillingPlan`** -- `contract.ts`, `revisions.ts`, `billing-plan.ts`,
`billing-stages.ts`, `stage-release.ts`, for one project.  Releasing a stage and
accepting a revision are a read under locks and a later commit (or rollback);
the rest is atomic.  `Worth` is `planTotals`: shares rounded half away from
zero, the remainder given to the last pending stage, the balance of the rest.

**`QuoteAcceptance`** -- `quotes.ts`, `quote-acceptance.ts`, `revisions.ts`, for
several quotes, option groups and projects.  `quote.accept` is a transaction of
steps: lock the quote (`AcceptBegin`), lock its group and read the other options
still open (`Choose`), lock those one after another (`LockRival`; `FOR UPDATE`
asks the condition again once it has the row), lock the project and read the
revisions that name the quote (`Resolve`), write it all (`CommitAccept`) -- or
`RollBack` at any step.  `quote.send` reads the group without a lock
(`SendBegin`) and commits later (`SendCommit`).  Of the dates a quote has, only
whether its last day is past is kept (`lapsed`), and its price is a constant
(`OneTime`).  `overlapped` is history: the options whose sending ran beside the
choice.

**`Pricing`** -- `tax/calculate.ts`, `money.ts`, `documents.ts`, `services.ts`,
`tax-rates.ts`, `deductions.ts`, `quote-split.ts`: a draft edited line by line and
priced each time, a quote made into an invoice, an earlier invoice taken off, and
a tax rate changed between a read and a write.

**`TimeBilling`** -- `time/entries.ts`, `rates.ts`, `expenses.ts` and
`invoice.billTime`/`billExpenses`: what is unbilled is selected without a lock
(`BillRead`) and marked by id later (`BillWrite`); `timer.start` looks for a
running timer before it inserts one, which a unique index backs.  A line is the
set of what it was worked out from; `overtaken` is history.

**`Reports`** -- the same money as counted by the project view, the revenue
report, the dashboard and the tax pack.  Lists of clients (50 at most) and of
projects (200 at most) are read whole.

**`Banking`**, **`Books`**, **`AuditSeals`** -- lines, balances and transfers with
their triggers (0023, 0031, 0047); closing and reopening, the guard triggers of
0044 that judge a row when it is written while it stands when its transaction
commits, and tax packs claimed and built by workers; the chain of daily seals.

People, work and the platform:

**`Tickets`**, **`Crm`** -- a ticket and its plan's promises; companies, contacts,
leads, deals and activities, with the requests that read a row unlocked and write
some statements later.

**`TaskBoard`**, **`ProjectBudgets`** -- tasks, dependencies, one milestone and
files; the budget, the fees, and the sweep that tells what was crossed.

**`Lists`** -- lists and exports read page by page by cursor.

**`Requests`** -- `registry/execute.ts`: the Idempotency-Key claimed in the
transaction, the handler, the stored answer, and the hooks after commit or
rollback that tidy files.  **`Access`** -- set-up, members, keys, and the
statements, each in a transaction of its own, that let a request in.
**`Tenancy`** -- the settings of a pooled connection and the policies that read
them.  **`Boot`** -- migrations under an advisory lock and the check before
serving.

The `MC*` modules give TLC symmetry sets, bounds, and definitions for the
constants of the `.cfg` files named in `PROJECT.json`.  Most put two to four
modules *side by side*: a variable `part` says which of them a behaviour is
about, `AllNext` is the disjunction of their next-state relations each guarded by
its part, and the variables of the other parts stay as they begin or are blank.
So nothing is multiplied, and nothing is hidden: the reachable states are the
union of the parts'.  The modules put together share no table; what one needs of
another it has as an action of its own (`Settlement` sends, `InvoiceIssuing`
cancels).  A property of such a run is the conjunction of what each part claims,
named after its parts' definitions.

Definitions marked `mutation` in the modules are the plausible errors
`PROJECT.json` pairs with each property; no specification uses them.

## 3  What the runs show

| run | modules | shows |
|---|---|---|
| `worker` | `WebhookOutbox`, `Renewals`, `Inbox` | two publishers and two claims over an ordinary and a test event, edits, a retry by a person, one crash at any moment: `PublishedOnce`, `ExclusiveClaim`, `DeliveriesCoherent` (`RowCoherent`: a success was received, pending = waiting; `ScheduleEnds`: a crash costs an attempt, never adds one; `DisableEarned`: switched off only for failures since it was enabled), `SucceededIsFinal`, `ImplementsLedger`; a renewal is announced once (`AnnouncedOnce`); events are published, deliveries and updates settle, renewals are announced (`NothingLeftWaiting`) |
| `platform` | `RowLocks`, `Requests`, `Access`, `Tenancy` | three transactions of any kinds over three invoices, all ascending: `NeverDeadlocked`; three requests under one key: `RequestsOnce` (`OncePerKey`, `FilesFollowRows`); members, keys and the limit changed beside requests, and connections that serve several organizations: `AccessHeld` (`AuthorityHeld`, `WithinLimit`, `OwnerRemains`; `Isolated`, `RowsOfOwner`, `NeverFails`) |
| `quotes` | `QuoteAcceptance`, `Pricing` | options of one group or both for one project, two requests beside revisions and the sweep: `ChoiceRecorded`, `LosersClosed`, `AnswerIsFinal`, `AcceptanceAdds`, `StaleIsExpired`; documents: `PricesAddUp` (`DocumentAddsUp`, `DeductionNetsOut`, `InvoicedAsAgreed`) |
| `billing` | `BillingSchedule`, `BillingSweep`, `Boot` | `DoneInTurn` (`NoDayBilledTwice`, `NothingForgotten`; a draft states its schedule's lines; migrations once and in turn, nothing unprotected served), `AgreementKept` (`WithinAgreement`), `AllCatchUp` (due schedules are billed, and every process comes to serve) |
| `invoices` | `InvoiceIssuing`, `Settlement`, `BillingPlan`, `Reports` | `NumbersStand` (`Gapless`, `NumberIsFresh`, `DeductedOnce`, `DeductedStands`), `PaymentsSettle` (`LedgerBalances`, `StatusInLine`, `PaidAtFollows`), `BilledAsAgreed` (`ReleasedAsAgreed`, `PlanAddsUp`), `ContractHonoured` (`CancelledIsClosed`, `NeverOverbilled`, `StatementClosesContract`, `AcceptedOnTheContract`), `ReportsAgree` (`FiguresAgree`, `PaymentShared`) |
| `time` | `TimeBilling` | `WorkBilled` (`OneTimer`, `BilledAsLogged`), `FrozenWhenIssued` |
| `treasury` | `Books`, `Banking`, `AuditSeals` | `PacksHold` (`PackOfBooks`), `ClosedHolds` (`ClosedStands`, `OnlyReopenedBack`); `RecordsVerify` (`BalanceFollows`, `RecordedFollows`, `LegsTogether`, `SealsVerify`) |
| `office` | `Tickets`, `Crm` | `TicketsMeasured`; `RecordsKept` (`HistoryFollows`, `ArchivedIdle`) |
| `work` | `TaskBoard`, `ProjectBudgets` | `BoardInOrder` (`FilesFollowRows`), `FinishedInTurn`; `WorkWatched` (`NoLoop`, `CountedOnce`, `ToldOnce`) |
| `inbox` | `Inbox`, `Correspondence`, `Lists` | `ReceiptsKept` (`OneExpense`, `NothingLost`, `Answered`); `LettersTrue`, `ListsComplete` |
| `settlement_missed`, `split_applied` | `Settlement`, `Pricing` | the disagreements of section 4, as counterexamples |

Each property of a passing run has a mutant: an error of that code under which
TLC finds it violated in the same run.

## 4  Disagreements found

Shown by a run:

- **`settlement_missed`** -- `payment.delete` lists the invoices to settle before
  it locks the payment; one it is allocated to in between keeps the status of
  money that is gone (`payments.ts:509`).
- **`split_applied`** -- accepting a quote copies its recurring lines into a
  schedule with their own discounts only, so each period bills more than the
  quote's split showed (`quote-split.ts:6`: "shown on the quote, printed on its
  PDF, and applied on acceptance are one and the same").

Stated in the modules as definitions that the code violates, but not run; give
them to TLC in place of a run's properties to see the counterexample:

| definition | what happens |
|---|---|
| `SucceededIsFinal` with two `Requests` | `webhookDelivery.retry` checks the status in one unlocked statement and overwrites it in another: a second retry reopens a delivery that succeeded meanwhile (`webhooks.ts:380`) |
| `NeverDeadlocked` with `Ascending = FALSE` | `payment.record` locks invoices in the order of the request, before `settleAll` sorts (`payments.ts:312` against `:284`) |
| `ClosedStaysClosed` (`BillingSchedule`) | deleting a draft reopens a schedule a person had ended (`billing-schedules.ts:878`) |
| `BalanceIsWhatRemains` (`BillingPlan`) | the balance keeps a cancelled invoice's amount off although the headroom "comes back" (`billing-plan.ts:105`, `:54`) |
| `BilledOnce` (`TimeBilling`) | two drafts may bill the same hours: selected unlocked, marked later (`invoices.ts:889`) |
| `OutstandingAtItsRate` (`Reports`) | the dashboard converts a currency's sums in one proportion |
| `EventuallyExpired` (`Renewals`) | a renewed asset left `expired` is never looked at again |
| `NoFalseAlarm` (`AuditSeals`) | an entry dated before its day was sealed and committed after breaks the chain |
| `SentAgainTheSame` (`Inbox`) | a retry's caption note depends on whether the project is still active (`messaging.ts:149`) |
| `ShownOnce` (`Lists`) with other `Walked` | accounts, transactions, visits, runs, expiring and settled lists sort by what their cursor does not compare, or by what changes (`docs/api.md:33`, `:43`) |

Met while reading; the properties are stated so as not to hide them, and no run
is spent on them.

*Money.*  `allocate()` accepts money on a cancelled invoice.  A refund left behind
when its payment is unallocated makes the invoice read `refunded`.  A format with
only the financial year is accepted with a calendar-year reset, and a count moved
is compared only with today's run and only within the collision window, so later
numbers can collide (section 6 says exactly when not).  Periods deleted with
`skip` are billed when the schedule is rewound past them for another reason; one
with a number of periods that is reopened may pass over an earlier open one.
Moving a schedule's calendar can overlap periods already billed (`moved` guards
`NoDayBilledTwice`).  A schedule whose lines cannot be priced (an overflow) stops
the whole organization's sweep although the comment says otherwise
(`billing-schedules.ts:955`); two workers' sweeps may deadlock, since
`next_run_on` has ties, and one is aborted.  A draft raised by a stage can be
edited while the stage keeps its released amount.  A price lowered below accepted
descopes makes the contracted value negative.  A quote may be counted twice:
`addAsRevision` looks only for revisions still in draft or sent
(`quote-acceptance.ts:292`).  An option sent while its group is being decided
stays open and is refused when accepted (`LosersClosed` says which those are).  A
quote past its last day may be sent with an earlier issue date.
`invoice.fromQuote` copies an amount discount whole onto the one-time lines
(`invoices.ts:1088`).  Whether a tax rate is in use looks only at quote lines.  A
statement with exclusive tax shows net items against a "Project total" with tax.
Nothing writes `reconciliation_id`; an archived account can get unexplained
lines; an opening date moved later leaves a line the opening balance already
includes.  Two closings at once may move the lock date back; a pack read while
books are open can be torn; a pack's claim has no lease, so two workers may build
one, a crash at the third attempt leaves it `pending` for ever, and a late failure
of that attempt may overwrite `ready`.  Report queries read one by one may
disagree; `timeEntry.summary` adds all currencies up; a project's outstanding is
net billed less gross collected.

*Messages.*  A success does not reset failures-in-a-row if the claimed snapshot
had none (`deliver.ts:161`).  `invoice.email` reads unlocked and mails a cancelled
invoice; `renderInvoicePdf` checks no status.  A pass of the bot begun with the
old bot runs the new bot's rows under the old key; `applyMode` calls
`setWebhook` before it commits, so deliveries refused with 200 are lost, and a
rollback leaves a webhook with an unknown secret; a poll writes its status over a
pause; a paused bot's claimed rows are marked done; a key pruned after a day
outlives no longer outage.  A budget's e-mail is sent after the commit and lost in
a crash; the sweep's comment says it also runs "after the things that add cost",
but only the hourly worker calls it.

*Records.*  `ticketMessage.create` with a status never emits the event of that
status; a reply's time is read before the ticket's lock; a message committed late
with a smaller id is never seen by a poller of the list.  A reactivated plan keeps
`endedOn`; an edit may put `startedOn` after it, a raw database error.  A company
archived between a deal's read and its insert has an open deal, and a won deal
may be reopened on an archived company; an activity that read its lead before the
conversion is missed by the move; `activityCreate` and `dealChangeStage`,
`contactUpdate` and `leadConvert` lock in opposite orders.  `projectMemberAdd` with a fee
does not ask for costed entries.  A task finished while a blocker is reopened;
`milestoneUpdate` reads unlocked.

*Platform.*  A commit whose answer is lost runs the rollback hooks and deletes a
named file (`execute.ts:157`); a logo uploaded twice, or an attachment while its
task is deleted, leaves an orphan.  A replay racing the pruning finds no row and
throws.  Two owners removing each other leave none (`identity.ts:130`).  A late
request resets the window of the rate limit.  Audit entries of authentication are
written after Better Auth's commit.  `pg_advisory_lock` is taken through the pool
and holds only because a process uses one connection while it boots
(`migrate.ts`).  The header of `tenant.ts` quotes a policy without the `nullif`
the SQL has.

## 5  Bounds and fairness

Each run keeps two actors for every race it is about (publishers, claims,
clerks, sends, releases), and the smallest data on which the branches differ.

- `worker`: `BatchLimit` lets a batch be full and not full; two attempts and two
  failures to disable reach the last retry and the automatic switch-off;
  `MaxEdits = 3` is enough to create, disable and enable, or create, retry and
  delete; `MaxLost = 1` puts one crash anywhere.  `MayStall = FALSE`: a batch of
  50 sent ten at a time, ten seconds each, ends within the two minutes of its
  lease.  One asset and three days make a date pass; two handlings of an update
  make the last one.
- `platform`: three transactions and three invoices allow circles of three; the
  first of three requests under a key may run, the second wait or replay, and the
  third come after a failure or a pruning.  Two users are the owner and another,
  or two owners; `Limit = 1` over two minutes (`TwoMinutes`: no more is looked at
  in the second than two requests).  `UsedLittle`: of two connections one was
  used in two ways and the other in one, one request reads at a time, and two rows
  are an event and its delivery or two of a kind.
- `quotes`: two requests and two quotes are every pair that can meet on a group,
  a quote or a project.  Prices come from quotes or are cleared by
  `project.update` (`Prices = {}` leaves only that).  `Pricing` counts in halves
  and quarters (`Scale = 2`, `Hundred = 4`), so that everything that rounds does;
  `OneMatter` keeps discounts, the catalogue and an earlier invoice from being
  varied all at once.
- `billing`: periods of one and two days, agreements of up to two periods,
  `MaxCatchUp = 1` makes every backlog take several sweeps; `OneLimit` combines an
  end, a number of periods and long periods only one at a time.  Three processes of
  two releases, one of which only checks, with one crash.
- `invoices`: three dates span a new calendar year within a financial year and a
  new financial year; `MaxValue = 3` numbers every invoice in one run and
  `Window = 5` exceeds it.  An invoice of two units is unpaid, partly and fully
  paid; two payments make one of them a refund.  A plan's price of 3 with halves
  makes 1.5, which rounds; a descope of 2 takes the price below what is billed
  (`OneGrows`: one revision adds at a time).  `Reports` has documents of several
  projects, currencies and a negative line, on both sides of a year's end, two at a
  time.
- `time`: two entries and one expense on two lines of two invoices, two requests.
- `treasury`: two accounts are what a transfer needs; two days are the closed
  year and the open one; three entries over four days, sealed by two workers.
- `office`: one of each record, two plans, requests dated up to an hour before.
- `work`: three tasks make a circle that is no pair; a budget of 5 at a cost of 4
  crosses a threshold with one hour and another with two.  `OneAtATime` and
  `OneBudget` look at milestones, dependencies, files, and at budgets in money and
  hours, one at a time.
- `inbox`: two updates, two workers, two things that may be read from one image;
  one failure and one change of the bot; a list of at most two rows, read one a
  page, one list of each shape.

Fairness, where it is assumed:

- `WebhookOutbox`: the worker loop polls for ever and continues after an error
  (`apps/worker/src/main.ts`), hence weak fairness of selecting, committing or
  rolling back, sending and recording, and of time passing.  A claim takes the
  oldest due delivery first but competes for slots, and a due row can be put off
  by a lease: strong fairness for each delivery.  Nothing people do is fair.
- `Renewals`: time passes, and the hourly sweep goes on (`Tick`, `SweepStep`).
  `Inbox`: the same loop (`WorkerStep`), leases and waits that end (`LeaseEnds`,
  `WaitEnds`).
- `BillingSchedule`, `BillingSweep`: the hourly sweep (weak).  `Boot`: a process
  that stopped is started again by its restart policy (`Progress`), and Postgres
  gives a lock that is free again and again to everybody who waits (`Lock`,
  strong).
- `QuoteAcceptance`: a request that has begun ends, if only by being aborted
  (weak, `Finish`).  The maintenance comes round every hour and a row that is free
  again and again is found free once (strong fairness of `ExpireDueQuotes`,
  needed because of SKIP LOCKED).

Deadlock is checked in `quotes` only: in each of the others some part really may
stop, when every invoice is issued, every event settled or the edits are used up.
That transactions do not wait for each other in a circle is `NeverDeadlocked`.

## 6  What is proved

Eight modules of proofs, each about one component or a few (`ClientProofs` about
quotes, tickets and the records of clients).  A theorem holds
for every value of the constants that satisfies the named assumption of its
module -- any sets of rows, actors and values, of any size, and any bound; the run
of the same property is the small instance on which the property, and most of the
strengthened invariants below, were tried first.  The assumptions say that
bounds are naturals, that `None` and the like are none of the values they stand
beside, and where noted something more; TLC evaluates each in the run that uses
the module.

| theorem | property | needs besides |
|---|---|---|
| `WebhookOutboxProofs!TypeCorrect` | `TypeOK` | |
| `PublishedOnceAlways` | `PublishedOnce` | |
| `OneWorkerPerDelivery` | `ExclusiveClaim` | `~MayStall`, `OneRetry` |
| `SuccessIsFinal` | `SucceededIsFinal` | `~MayStall`, `OneRetry` |
| `CoherentAlways` | `DeliveriesCoherent` | `~MayStall`, `OneRetry` |
| `ImplementsTheLedger` | every step is one of `DeliveryLedger`, or a stutter | `~MayStall`, `OneRetry` |
| `AlwaysAnnouncedOnce` | `AnnouncedOnce` | |
| `PlatformProofs!AscendingNeverDeadlocks` | `NeverDeadlocked` | `Ascending` |
| `OneHolderPerRow` | `TypeOK` | `Ascending` |
| `RequestsAlwaysOnce` | `RequestsOnce` | |
| `AccessAlwaysHeld` | `AccessHeld` | |
| `ClientProofs!TypeCorrect` | `TypeOK` | |
| `ChoiceIsRecorded` | `ChoiceRecorded` | |
| `LosersAreClosed` | `LosersClosed` | |
| `AnswersAreFinal` | `AnswerIsFinal` | |
| `AcceptanceAlwaysAdds` | `AcceptanceAdds` | finite `Revisions` |
| `TicketsAlwaysMeasured` | `TicketsMeasured` | |
| `RecordsAlwaysKept` | `RecordsKept` | |
| `BillingProofs!WorkBilledAlways` | `WorkBilled` | |
| `FrozenAlways` | `FrozenWhenIssued` | |
| `DoneAlwaysInTurn` | `DoneInTurn` | days and limits are naturals, a period has a day and an invoice a period; finite `Processes`; a table and its protection come in one release |
| `AgreementAlwaysKept` | `AgreementKept` | the same |
| `InvoicesProofs!IssuedConsistently` | `TypeOK`, `Gapless`, `DeductedOnce`, `DeductedStands` | |
| `NumbersAlwaysStand` | `NumbersStand` | `PrintsItsRun`, `LooksFarEnough` |
| `PaymentsAlwaysSettle` | `PaymentsSettle` | finite tables; totals and bounds are naturals |
| `BilledAlwaysAsAgreed` | `BilledAsAgreed` | finite tables; prices, changes and terms are whole numbers |
| `ContractAlwaysHonoured` | `ContractHonoured` | the same |
| `ReportsAlwaysAgree` | `ReportsAgree` | `ReportsAssumption`: finite tables; an invoice, its credits counted, comes to no less than nothing, and to nothing only if it nets nothing; an expense is one unit at least |
| `BooksProofs!PacksAlwaysHold` | `PacksHold` | |
| `ClosedAlwaysHolds` | `ClosedHolds` | |
| `RecordsAlwaysVerify` | `RecordsVerify` | finite `Accounts` and `Money` |
| `WorkProofs!BoardAlwaysInOrder` | `BoardInOrder` | finite `Tasks`, `Requests` |
| `AlwaysFinishedInTurn` | `FinishedInTurn` | the same |
| `WorkAlwaysWatched` | `WorkWatched` | finite tables; budgets are naturals |
| `InboxProofs!ReceiptsAlwaysKept` | `ReceiptsKept` | some update of any batch is the last |
| `LettersAlwaysTrue` | `LettersTrue` | finitely many documents, none issued over nothing |
| `ListsAlwaysComplete` | `ListsComplete` | ids finite and ordered; lists that follow their cursors |

None of these properties is inductive by itself.  What each rests on:

**Outbox.**  `PublishInv` adds that open batches hold unpublished events and share
none (SKIP LOCKED), that whatever is eligible is wanted and, once its event is in
a batch, among that batch's targets, and that an unpublished event has no rows.
`LoseClaim`, stalls and overlapping retries do not disturb it.  `ClaimInv` adds
`NothingBeforePublished` (no row, claim or retry of an unpublished event) and
`RetryOfFailed` (what a retry has read as failed still is, or is gone).  For
`DeliveriesCoherent`: `AnswerReceived` (a claim that was answered reached the
endpoint) and `AttemptLeft` (a row that waits unclaimed has an attempt left, or
lost one to a crash).  `~MayStall` is
the reasoning of section 5 about the lease; `OneRetry` is needed, since two
retries reopen a success (section 4).  The refinement maps each row to its status,
or `gone` without its endpoint, by `StateOf`; every action is then shown to be a
`Queue`, `Settle`, `Requeue` or `Withdraw` of the ledger, or to change nothing of
it.

**Renewals.**  The theorem is about the composed specification of the run.
`RenewalsInv`: an asset put away is stamped, and one announced shows its date as
announced (`Stamped`); until somebody changes the row, what a sweep read is what
is stored and still due (`StillDue`); and what a sweep has marked was due, is
still there, and is marked by no other (`Markable`), which is all that holds of
what was overtaken.

**Locks.**  Rows are ranked -- drafts and payments lowest, invoices by id, the
counter last -- and `Ordered` says that the plan of every transaction climbs in
rank from everything it holds.  In a circle, whoever waits for the row of greatest
rank waits for one that waits for a greater one.  `Ascending` is what the code
should do and, in `payment.record`, does not (section 4).

**Requests, access, tenancy.**  `PlatformProofs` is about the composed
specification of the run: `AllSpec => Spec` carries the two theorems about locks
over to it, and its own invariant holds one part for each of the others.
`RequestsInv`: whoever holds a key is alone, and the key is not recorded while it
is held (`KeysHeld`); a recorded key names the one thing done, and only that
(`KeysRecorded`, `AnswersGiven`); a row names the file of a request that has
committed (`RowsNamed`), and what a request is about to remove belongs to rows its
own commit takes away (`FilesRemoved`, `FilesStored`).  `AccessInv`: the role a
request carries is one its person had since it came in, its permissions were
earned by it and its scopes (`AuthorityEarned`); what was let in during the
counter's minute is no more than its count, or nobody still counts in that minute
(`Counted`); an owner is left whom nobody is removing, unless two removals
overlapped (`OwnerStays`).  `TenancyInv`: whatever a transaction set is undone by
its commit and its rollback, and an empty setting reads as nobody's organization;
so what a request's connection says is its own organization or nothing.

**Quotes.**  `TypeOK` includes that every row named by another exists.
`ChoiceInv` adds that no two requests hold a row (`LocksApart`), that what a
request has locked is as it found it (`Found`), that a group being chosen from is
locked by one request and undecided (`ChosenFrom`), and that what a group says was
chosen is one of its options, accepted (`Decided`).  The fifteen kinds of step
that move no request are first shown to be *quiet* (`QuietStep`), so that the
invariant is proved once for all of them.  `LosersClosed` needs `Noticed`: an open
option of a group being chosen from is among those the choice will decline, or was
being sent beside it.
`AcceptanceAdds` needs two more parts (`ContractInv`): no two requests hold one
project (`ProjectsApart`), and what a request found when it resolved its project
still holds when it writes (`Resolved`): it will set a price only where there is
none, and the revision it read is of that project, or deleted since, and a deleted
revision's id is not given again (`Deleted`; without that the invariant is not
inductive).  The contract then gains exactly one term of a sum (`TotalTake`).

**Tickets.**  `TicketInv`: a ticket says when it was resolved, closed and first
answered exactly while its status and its answers ask for it, and no stamp of a
resolution is later than now (`WellStamped`).  The last is what `TicketsMeasured`
needs of a ticket that is reopened: one that was resolved too late is late again at
once.  Each handler changes one ticket, and sets a stamp that was missing, leaves it
or removes it together with the status (`OnlyStamped`).

**Crm.**  `CrmInv` rests on what no step takes back (`Persists`): rows stay, a deal
stays with its company, and a converted lead keeps what it became.  So what a
request has read unlocked is still there when it writes, and an activity that was
resolved after its lead was converted names what that became (`CallSound`); one that
was resolved before says so, and is told apart as `missed`.  A company is archived
only with no open deal, a new deal belongs to one that is not, and whoever found it in
use before is `excused`.

**Time.**  `TimeInv`: nothing names a row that is gone (`References`); an hour
marked with a line stays as that line found it (`BilledState`, `BilledAsLogged`);
a person with a timer is found by whoever looks (`Started`, `OneRunning`, which
the unique index completes); and what a request picked is still unbilled and
unchanged, or is told apart as `overtaken` (`Picked`).

**Schedules.**  `ScheduleInv`: while the calendar is not moved, what was billed are
periods of it, each on one invoice (`OnCalendar`); and every period before the next
run has been billed or let off, or, of a schedule that ended by itself, every period
that starts before the agreement ends (`Accounted`).  A call of `raiseInvoiceFor`
bills any number of periods, and a sweep makes any number of calls.  What one call
does is `BillsOn`, which is shown to compose (`BillsOnOn`), so that it holds of a
whole sweep by a least counterexample over its passes (`PassesBill`).  Under one
call lie facts about the calendar: of one period more than were billed, one is
unbilled (`NextUnbilledIs`, by the pigeonhole principle), and before the last of the
periods picked none is left open (`IndicesAre`).

**Sweeps.**  `SweepInv`: whoever has drafts for a schedule holds its row, which
nobody else can then change, and they are for the periods next to the last billed
(`Drafting`).  `LetGo` hands a row only to one that has no drafts for it.

**Boot.**  `BootInv`: what was applied is what some release carries, in full
(`InTurn`); whoever holds the advisory lock is migrating, alone, and has read how far
that is (`OneMigrates`); who is past its migrations has all its release carries
(`UpToDate`).

**Issuing.**  `IssuingInv`: a draft has no number and takes no part of itself off
(`Drafts`); a request under way holds the draft it issues, and what it has checked
is locked by nobody else and stands (`Sends`, `Exclusive`, `CheckedStands`); the
counter is one ahead of the numbers taken in its run, the one being issued among
them (`Taken`).  `NumberInv` adds that an invoice carries the number its settings
print for its run and count (`Named`) and that those settings were in use
(`SettingsInUse`).  `PrintsItsRun` says that the formats in use print alike exactly
what they count alike, and `LooksFarEnough` that a recount looks as far ahead as
numbers go, or that none is made; the settings of the run `invoices` satisfy both.
Without the first, numbers of two runs may print alike (a format with only `{fy}`
and a yearly reset) or one run may print two years (no reset, printing the year);
without the second, a count moved back may reach a number taken beyond the window.
They are what the code would have to check for its claim to be unconditional, and
the four properties of `IssuedConsistently` do without them.

**Sums.**  What a table adds up to is `SumFunctionOnSet`, a recursion over a
finite set.  `InvoicesProofs` unfolds it into a recursive function (`Summing`),
shows that function unique on every finite set, and takes the place of an
induction with a least counterexample (`WFMin` of the library, over the sizes of
the sets on which a lemma fails): any element may be taken out (`SumTake`), a sum
changes by what one term changes (`SumChange`), terms of nothing may be left out
(`SumWhere`, `SumSkip`), terms no greater add up to no more (`SumAtMost`), sums add
and subtract term by term (`SumPlus`, `SumMinus`), a sum over parts is the sum
(`SumParts`), and a table adds up alike by rows and by columns (`SumSwap`).

**Payments.**  `SettleInv`: what an invoice says was paid is the sum of what is
put against it (`LedgerBalances`) and lies between nothing and its total
(`Within`); nothing is put against a draft (`DraftsBlank`); a status and the day of
payment follow (`StatusInLine`, `PaidAtFollows`).  What carries it through a
request's steps is `Clerking`: a clerk past its locks owns its payment, the
invoices it holds are the ones that payment is put against, and what it read
without a lock had been issued.  Each settling step changes one term of one sum per
invoice it settles again.

**Plan.**  `PlanInv`: the order lists each stage of the plan once (`Orders`), a
stage that was billed keeps the amount frozen with it (`StagesBilled`), one stage
at most is the balance (`BalancesOnce`), and what a release or an acceptance has
read -- the contract, the headroom under it, the invoices a statement takes off --
is still so when it commits (`Releases`, `Accepts`), since the project's row lets in
one of them at a time (`OneAtATime`).  That a plan adds up is by cases: with a
balance the rest is taken off it, and with shares of the whole the last pending
stage, of which there is exactly one while any is pending, absorbs the remainder.

**Reports.**  `ReportsInv`: nothing is dated later than now, an invoice was paid
something between nothing and its total, a payment is in the currency of its
invoice, and an expense in the base currency was converted as it is.  Projects add up to what is
attributed because a sum over projects of sums over invoices is one over invoices
of sums over projects (`ClaimsAddUp`), and clients add up by parts.  The dashboard
agrees where all is in one currency, since a share of a whole that converts evenly
is exact (`Even`, `InBaseWhole`).  Shares of a payment, each rounded by half a unit
at most (`Rounded`, `Shared`), miss it by half a unit a project at most
(`SumBetween`).  The assumption on what invoices come to is needed: the code
refuses a negative total only with deductions (`invoices.ts:1175`), and of an
invoice of credits alone `clientsIn` (`revenue.ts:362`) counts the negative
balance where `outstandingNow` (`revenue.ts:254`) leaves it out.

**Books.**  `BooksInv`: a request under way has written one record, alone, and the
trigger let it pass for the lock date as it was (`Written`); a closing has read a
date that was the organization's (`Asking`); a pack is due while attempts or
builders are left (`PackDue`); what a worker has read so far of a year that was
closed, with nothing begun before still being written, is what stands
(`Reading`, `QuietIsClosed`).

**Banking.**  `BankInv`: balances are sums, so lemmas about sums come first here
too.  A line that follows money is in the account of its name, matched in full, and
the money names that account or none (`Follows`); therefore moving the opening
balance of one account, which places the lines of its money again, changes no sum
of another.  Money has one line at most because a sweep puts its line only where
none is, in the account the money names, or, where the money names none any more,
while it has no line at all; `Follows` says that for the one sweep there is
(`OneSweep`).

**Seals.**  `SealInv`: the seals a transaction has inserted, followed by the days it
has left, are written days in order (`Ordered`); it either follows the last seal or
has a day left that is sealed by now, at which it stops (`Recent`).  That a commit
keeps this for all others rests on two facts: of two that read the same last seal,
one is about every day of the other (`Nesting`), and no two have inserted a seal of
the same day (`Apart`).  While no entry is late, what is written has the day of its
writing, so no day that is over changes: digests stay those of their days, and
between the first and the last day of a transaction nothing is left out (`Whole`,
`Chain`).

**Tasks.**  `BoardInv`: rows refer to rows that are there, even while a task is
being deleted, since whoever inserts a reference waits for its lock
(`References`); a task being finished waits for nothing that was not reopened
meanwhile (`Waiting`); a request that handles a file is the only one to
(`Handling`), and a file without a row is in the hands of one, or came to a task
being deleted (`Kept`).  That no task waits for itself is not stated step by step:
`LoopFree` gives each dependency a set of tasks that it leads into, that no
dependency leads out of, and that its own task is not in.  A new dependency joins
two such sets, or takes what they share, and the lock lets in one request that has
looked (`LinksOne`).  `Reachable` grows step by step, as the query of the code does;
that it has stopped growing after as many steps as there are tasks is a count, with
a least counterexample in the place of an induction (`ReachableCloses`).

**Budgets.**  `BudgetInv`: an entry begun by somebody on a fee costs nothing, unless
the fee came after (`LoggedFree`); and whatever is told to be used up is told to be
nearly used up, in what each worker has read as in what was announced (`Telling`), so
of two workers with the same costs the second finds every threshold told.

**Inbox.**  `InboxInv`: updates are sent in order, and what Telegram or the inbox
holds was sent (`InOrder`); everything up to the bot's offset was taken in
(`Offset`), and so was everything up to the end of a poll's batch but the batch
(`Polls`); a worker passes over only what it was told to (`Passes`); until the bot
is replaced every update has one key (`Keys`), and what is done with was answered
(`Answered`).

**Letters.**  `LettersInv` tells a request that holds its document from one that
does not.  The first finds the row as it read it, a draft until its send commits
and the number it wrote the next one (`Sending`, `Viewing`); the second has read a
document that was issued, whose number and total stay (`Mailing`, `SameIssue`).
Two that run are `Apart`: they hold different rows and take numbers of two kinds,
so the counter is the count of the documents numbered (`NumbersCount`).  That no
document is issued over nothing is needed for the last part of `ViewedOnce`: the
code sends an invoice of nothing as `sent`, and `settlementStatus` would call it
`paid` as soon as anything settles it.

**Lists.**  `ListsInv`: of what was there when the reader began and has stayed, the
reader was shown exactly what lies up to the cursor, and once.  A page keeps that
because it is a beginning of the sorted rows after the cursor (`PageShows`), and the
rows can be sorted because a finite set in a total order can be listed, each element
at the place that counts those before it (`Listed`).  A row that is deleted or edited
is no longer among those that stayed.

Only model-checked, and why:

- Liveness (`NothingLeftWaiting`, `StaleIsExpired`, `AllCatchUp`,
  `Ledger!Settles`): the prover handles neither fairness under refinement nor
  ENABLED.
- `PricesAddUp`: the arithmetic of largest remainders, which hands out what
  rounding left over in an order that `Pricing` folds over sequences.

## 7  What is left out

Validation of input, wording, layout and logging are left out everywhere; row-level
security, permissions and idempotency are modelled once (`Tenancy`, `Access`,
`Requests`) and taken for granted elsewhere.  Amounts are small integers in one
currency and, but for `Pricing` and `Reports`, without tax.  Also left out, per
module: signing and address checks of webhooks; months and years of unequal length
(`recurrence.ts` has unit tests for them; `BillingSchedule` counts days); recurring
parts, billing plans and budgets that an acceptance may set up, links by which
clients answer, revisions that name no quote; due dates of a plan's stages;
expenses and estimates in a budget; overflow in `Pricing`; what a language model
reads from a receipt (any value); sessions and passwords (a library); fields that
nothing else depends on.  A trigger or cascade is modelled by what its migration
says, in any order the database may choose.  Exchange rates are looked up once when
a document is issued and are part of it in `Reports`.  Storage and the language
model are external.  The web application presents the procedures; what it adds,
letting requests in and following pages, is in `Access` and `Lists`.

## 8  Plan

All modules of the plan are written, each has a run, and at least one property of
every run is proved for all values of its constants.  Next, in this order:

1. The arithmetic of largest remainders, and with it `PricesAddUp`.
2. `RowLocks` extended by quotes, groups, projects, stages and revisions, with
   the circles read so far: release against reorder, `quote.accept` against
   `projectRevision.accept`, two options of one group.

An abstract specification worth stating for `QuoteAcceptance` is that a group is
open and then decided, once, for one of its options; for `Requests`, that a key is
unused and then used, once.
