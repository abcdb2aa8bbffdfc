------------------------------- MODULE MCWorker -------------------------------
\* Small instances of WebhookOutbox, Renewals and Inbox for TLC: what the worker does
\* in the background.  They share no table, so they are explored side by side: a
\* behaviour is one of the parts', and the worker is fair to the part it is.
EXTENDS WebhookOutbox, TLC

CONSTANTS
    None, Assets, Sweepers, Horizon, LastDay, MaxRenewals,
    Updates, Workers, Users, Readings, MaxHandlings, MaxTrouble, MaxChanges

VARIABLES
    part,
    today, asset, sweep, said, renewalsEdits,
    sent, held, hook, bot, row, code, linked, active, expense, worker, passed, wiped, told, trouble,
    changes

ASSUME WorkerAssumption == Horizon \in Nat /\ LastDay \in Nat

Rn == INSTANCE Renewals WITH Workers <- Sweepers, MaxEdits <- MaxRenewals, edits <- renewalsEdits
Ib == INSTANCE Inbox WITH MaxAttempts <- MaxHandlings

renewalsVars ==
    <<today, asset, sweep, said, renewalsEdits>>
inboxVars ==
    <<sent, held, hook, bot, row, code, linked, active, expense, worker, passed, wiped, told, trouble,
      changes>>
allVars == <<part, vars, renewalsVars, inboxVars>>

\* A part that is not explored stays as it begins.

AllInit ==
    \/ part = "outbox" /\ Init /\ Rn!Init /\ Ib!Init /\ bot.mode = "webhook"
    \/ part = "renewals" /\ Rn!Init /\ Init /\ Ib!Init /\ bot.mode = "webhook"
    \/ part = "inbox" /\ Ib!Init /\ Init /\ Rn!Init

OutboxNext ==
    part = "outbox" /\ Next /\ UNCHANGED <<part, renewalsVars, inboxVars>>
RenewalsNext ==
    part = "renewals" /\ Rn!Next /\ UNCHANGED <<part, vars, inboxVars>>
InboxNext ==
    part = "inbox" /\ Ib!Next /\ UNCHANGED <<part, vars, renewalsVars>>

\* A step of the part, while the others stay blank.
OutboxStep(step) == part = "outbox" /\ step /\ UNCHANGED <<part, renewalsVars, inboxVars>>

\* A step of the part, while the others stay blank.
RenewalsStep(step) == part = "renewals" /\ step /\ UNCHANGED <<part, vars, inboxVars>>

\* A step of the part, while the others stay blank.
InboxStep(step) == part = "inbox" /\ step /\ UNCHANGED <<part, vars, renewalsVars>>

AllNext == OutboxNext \/ RenewalsNext \/ InboxNext
AllSpec == 
    /\ AllInit
    /\ [][AllNext]_allVars
    /\ \A w \in Publishers : WF_allVars(OutboxStep(PublishSelect(w))) /\ WF_allVars(OutboxStep(PublishCommit(w) \/ PublishRollback(w)))
    /\ \A s \in Slots : WF_allVars(OutboxStep(Attempt(s))) /\ WF_allVars(OutboxStep(Record(s)))
    /\ \A d \in Deliveries : SF_allVars(OutboxStep(\E s \in Slots : Claim(s, d))) /\ WF_allVars(OutboxStep(LeaseLapse(d))) /\ WF_allVars(OutboxStep(RetryDue(d)))
    /\ WF_allVars(RenewalsStep(Rn!Tick))
    /\ \A w \in Sweepers : WF_allVars(RenewalsStep(Rn!SweepStep(w)))
    /\ \A w \in Workers : WF_allVars(InboxStep(Ib!WorkerStep(w)))
    /\ \A u \in Updates : WF_allVars(InboxStep(Ib!LeaseEnds(u))) /\ WF_allVars(InboxStep(Ib!WaitEnds(u)))

\* renewals: rows are marked by one sweep at a time, and a date is announced once.
AnnouncedOnce == []Rn!TypeOK /\ Rn!NoticeOnce

\* outbox: an event is published and a delivery settled.
\* renewals: an asset about to expire is announced, whoever moved its date.
\* inbox: an update that was taken is settled.
NothingLeftWaiting ==
    /\ EventuallyPublished
    /\ EventuallySettled
    /\ Rn!EventuallyAnnounced
    /\ Ib!EventuallySettled
=============================================================================
