---------------------------- MODULE WebhookOutbox ----------------------------
(***************************************************************************)
(* The transactional outbox and the webhook dispatcher.                    *)
(*                                                                         *)
(* An event row commits with the change it describes.  Worker processes    *)
(* publish pending events (one delivery row per matching endpoint), claim  *)
(* due deliveries under a lease, POST them outside any transaction, and    *)
(* record the result from the SNAPSHOT they claimed.  Administrators       *)
(* create, edit, disable and delete endpoints, send test events and retry  *)
(* failed deliveries meanwhile.                                            *)
(*                                                                         *)
(* Time is abstracted to two facts: whether next_attempt_at has come       *)
(* (next = "later" or "due") and whether locked_until is in the future     *)
(* (leased).                                                               *)
(***************************************************************************)
EXTENDS Naturals, FiniteSets

CONSTANTS
    Events,         \* rows the outbox may hold
    TestEvents,     \* those of type webhook.test
    Endpoints,
    Publishers,     \* worker processes inside publishPendingEvents
    Slots,          \* claimed deliveries held in some worker's memory
    Requests,       \* retry requests that may be open at the same time
    BatchLimit,     \* publishPendingEvents(limit)
    MaxAttempts,    \* RETRY_DELAYS_SECONDS.length + 1
    DisableAfter,   \* DISABLE_AFTER_CONSECUTIVE_FAILURES
    MayStall,       \* can a live worker outlast its own lease?
    MaxLost,        \* bound: claims lost to a crash or to a failed record()
    MaxEdits        \* bound: calls to webhook.create/update/delete/retry

ASSUME OutboxAssumption ==
    /\ TestEvents \subseteq Events
    /\ {BatchLimit, MaxAttempts, DisableAfter} \subseteq Nat \ {0}
    /\ {MaxLost, MaxEdits} \subseteq Nat
    /\ MayStall \in BOOLEAN

VARIABLES
    outbox,     \* event -> absent | unpublished | published
    named,      \* test event -> the endpoint its data names (as a set)
    endpoint,   \* webhook_endpoints
    delivery,   \* webhook_deliveries, one row per event and endpoint
    pub,        \* publisher -> the open publishing transaction
    slot,       \* slot -> a Claimed snapshot and the progress of its attempt
    request,    \* retry request -> the delivery it has read as failed (as a set)
    lost, edits,
    \* history, read by properties only
    inserted,   \* delivery -> rows ever inserted for it
    reached,    \* the deliveries a receiver got
    eligible,   \* the deliveries their endpoint has wanted ever since the event
    spent       \* endpoint -> exhausted failures recorded since it was enabled

vars == <<outbox, named, endpoint, delivery, pub, slot, request, lost, edits,
          inserted, reached, eligible, spent>>
history == <<inserted, reached, eligible, spent>>

Deliveries == Events \X Endpoints
EventOf(d) == d[1]
EndpointOf(d) == d[2]
IsTest(d) == EventOf(d) \in TestEvents
Subscriptions == SUBSET (Events \ TestEvents)

NoRow == [status |-> "none", attempts |-> 0, next |-> "null", leased |-> FALSE]
Queued == [status |-> "pending", attempts |-> 0, next |-> "due", leased |-> FALSE]
NoEndpoint == [state |-> "absent", enabled |-> FALSE, subs |-> {},
               failures |-> 0, auto |-> FALSE]
NoBatch == [events |-> {}, targets |-> {}]
Free == [phase |-> "free"]

Present(p) == endpoint[p].state = "present"
Exists(d) == delivery[d].status # "none"
Holding(d) == {s \in Slots : slot[s].phase # "free" /\ slot[s].d = d}
Held == {s \in Slots : slot[s].phase # "free"}

(* matchesAny and the webhook.test rule, over the endpoints as they stand. *)
Targets(E) ==
    {d \in E \X Endpoints :
        /\ Present(EndpointOf(d))
        /\ IF IsTest(d) THEN EndpointOf(d) \in named[EventOf(d)]
                        ELSE /\ endpoint[EndpointOf(d)].enabled
                             /\ EventOf(d) \in endpoint[EndpointOf(d)].subs}

Wanted == Targets(Events)

-----------------------------------------------------------------------------
Init ==
    /\ outbox = [e \in Events |-> "absent"]
    /\ named = [e \in TestEvents |-> {}]
    /\ endpoint = [p \in Endpoints |-> NoEndpoint]
    /\ delivery = [d \in Deliveries |-> NoRow]
    /\ pub = [w \in Publishers |-> NoBatch]
    /\ slot = [s \in Slots |-> Free]
    /\ request = [r \in Requests |-> {}]
    /\ lost = 0 /\ edits = 0
    /\ inserted = [d \in Deliveries |-> 0]
    /\ reached = {} /\ eligible = {}
    /\ spent = [p \in Endpoints |-> 0]

-----------------------------------------------------------------------------
(* Events are written in the transaction of the change they describe; a    *)
(* test event is written by webhook.test and names one endpoint.           *)
Written(e) ==
    /\ outbox[e] = "absent"
    /\ outbox' = [outbox EXCEPT ![e] = "unpublished"]
    /\ UNCHANGED <<endpoint, delivery, pub, slot, request, lost, edits,
                   inserted, reached, spent>>
    /\ eligible' = eligible \cup {d \in Wanted' : EventOf(d) = e}

Emit(e) == e \notin TestEvents /\ UNCHANGED named /\ Written(e)

WebhookTest(e, p) ==
    /\ e \in TestEvents /\ Present(p)
    /\ named' = [named EXCEPT ![e] = {p}]
    /\ Written(e)

-----------------------------------------------------------------------------
(* publishPendingEvents: the select locks rows no other publisher holds    *)
(* (SKIP LOCKED) and reads the endpoints; the insert and the stamp commit  *)
(* later, and fail as one if an endpoint was deleted in between.           *)
LockedNothing == {}  \* mutation: no SKIP LOCKED

Locked == UNION {pub[w].events : w \in Publishers}

Pending == {e \in Events : outbox[e] = "unpublished"} \ Locked

FullBatch(E) == E \subseteq Pending /\ Cardinality(E) = BatchLimit  \* mutation

Batch(E) ==
    /\ E \subseteq Pending
    /\ \/ Cardinality(E) = BatchLimit
       \/ Cardinality(E) < BatchLimit /\ E = Pending

PublishSelect(w) ==
    /\ pub[w] = NoBatch
    /\ \E E \in (SUBSET Pending) \ {{}} :
        /\ Batch(E)
        /\ pub' = [pub EXCEPT ![w] = [events |-> E, targets |-> Targets(E)]]
    /\ UNCHANGED <<outbox, named, endpoint, delivery, slot, request, lost, edits, history>>

PublishCommit(w) ==
    /\ pub[w] # NoBatch
    /\ \A d \in pub[w].targets : Present(EndpointOf(d))
    /\ outbox' = [e \in Events |-> IF e \in pub[w].events THEN "published" ELSE outbox[e]]
    /\ delivery' = [d \in Deliveries |-> IF d \in pub[w].targets THEN Queued ELSE delivery[d]]
    /\ inserted' = [d \in Deliveries |->
                      IF d \in pub[w].targets THEN inserted[d] + 1 ELSE inserted[d]]
    /\ pub' = [pub EXCEPT ![w] = NoBatch]
    /\ UNCHANGED <<named, endpoint, slot, request, lost, edits,
                   reached, eligible, spent>>

PublishRollback(w) ==
    /\ pub[w] # NoBatch
    /\ \/ /\ \E d \in pub[w].targets : ~Present(EndpointOf(d))
          /\ UNCHANGED lost
       \/ lost < MaxLost /\ lost' = lost + 1
    /\ pub' = [pub EXCEPT ![w] = NoBatch]
    /\ UNCHANGED <<outbox, named, endpoint, delivery, slot, request, edits, history>>

-----------------------------------------------------------------------------
(* claimDue: the lease and the attempt are taken up front; the endpoint    *)
(* travels with the claim as it was.                                       *)
ClaimableLeased(d) == delivery[d].next = "due"  \* mutation: the lease is ignored

Claimable(d) ==
    /\ delivery[d].status = "pending"
    /\ delivery[d].next = "due"
    /\ ~delivery[d].leased

Claim(s, d) ==
    /\ slot[s] = Free
    /\ Claimable(d)
    /\ delivery' = [delivery EXCEPT ![d].leased = TRUE, ![d].attempts = @ + 1]
    /\ slot' = [slot EXCEPT ![s] =
          [phase |-> "claimed", d |-> d, attempts |-> delivery[d].attempts + 1,
           enabled |-> endpoint[EndpointOf(d)].enabled,
           failures |-> endpoint[EndpointOf(d)].failures]]
    /\ UNCHANGED <<outbox, named, endpoint, pub, request, lost, edits, history>>

(* attempt: a disabled endpoint gets no request; a request may be received *)
(* and its answer still lost.                                              *)
Attempt(s) ==
    /\ slot[s].phase = "claimed"
    /\ \E ok, hit \in BOOLEAN :
        /\ ok => hit
        /\ hit => slot[s].enabled \/ IsTest(slot[s].d)
        /\ slot' = [slot EXCEPT ![s].phase = IF ok THEN "ok" ELSE "error"]
        /\ reached' = IF hit THEN reached \cup {slot[s].d} ELSE reached
    /\ UNCHANGED <<outbox, named, endpoint, delivery, pub, request, lost, edits,
                   inserted, eligible, spent>>

(* record: what it writes depends on the snapshot only, and it does not    *)
(* ask whether the lease is still its own.  A row deleted meanwhile is not *)
(* there to update.                                                        *)
WriteRow(d, row) ==
    delivery' = [delivery EXCEPT ![d] = IF Exists(d) THEN row ELSE @]

VerdictUnknown(d, status) == [delivery[d] EXCEPT !.status = "done"]  \* mutation

VerdictStillScheduled(d, status) ==  \* mutation: next_attempt_at is left behind
    [delivery[d] EXCEPT !.status = status, !.leased = FALSE]

Verdict(d, status) ==
    [delivery[d] EXCEPT !.status = status, !.next = "null", !.leased = FALSE]

RecordSuccess(s) ==
    LET d == slot[s].d  p == EndpointOf(d) IN
    /\ slot[s].phase = "ok"
    /\ WriteRow(d, Verdict(d, "succeeded"))
    /\ endpoint' = [endpoint EXCEPT ![p].failures =
                      IF slot[s].failures > 0 /\ ~IsTest(d) THEN 0 ELSE @]
    /\ slot' = [slot EXCEPT ![s] = Free]
    /\ UNCHANGED <<outbox, named, pub, request, lost, edits,
                   inserted, reached, eligible, spent>>

RetriableOnceMore(s) ==  \* mutation: off by one at the end of the schedule
    slot[s].enabled /\ ~IsTest(slot[s].d) /\ slot[s].attempts <= MaxAttempts

(* nextRetryDelay(attempts) is a delay, and the endpoint was worth one.    *)
Retriable(s) ==
    /\ slot[s].enabled
    /\ ~IsTest(slot[s].d)
    /\ slot[s].attempts < MaxAttempts

RecordRetry(s) ==
    LET d == slot[s].d IN
    /\ slot[s].phase = "error"
    /\ Retriable(s)
    /\ WriteRow(d, [delivery[d] EXCEPT !.next = "later", !.leased = FALSE])
    /\ slot' = [slot EXCEPT ![s] = Free]
    /\ UNCHANGED <<outbox, named, endpoint, pub, request, lost, edits, history>>

TrippedEarly(n) == n + 1 >= DisableAfter  \* mutation

Tripped(n) == n >= DisableAfter

RecordFailure(s) ==
    LET d == slot[s].d
        p == EndpointOf(d)
        counted == slot[s].enabled /\ ~IsTest(d) /\ Present(p)
        n == endpoint[p].failures + 1 IN
    /\ slot[s].phase = "error"
    /\ ~Retriable(s)
    /\ WriteRow(d, Verdict(d, "failed"))
    /\ slot' = [slot EXCEPT ![s] = Free]
    /\ UNCHANGED <<outbox, named, pub, request, lost, edits, inserted, reached>>
    /\ \/ /\ counted
          /\ endpoint' = [endpoint EXCEPT ![p] =
                IF Tripped(n)
                THEN [@ EXCEPT !.failures = n, !.enabled = FALSE, !.auto = TRUE]
                ELSE [@ EXCEPT !.failures = n]]
          /\ spent' = [spent EXCEPT ![p] = @ + 1]
          /\ eligible' = eligible \cap Wanted'
       \/ ~counted /\ UNCHANGED <<endpoint, spent, eligible>>

(* A worker dies, or its record() fails: the claim leaves memory.          *)
LoseClaim(s) ==
    /\ slot[s] # Free
    /\ lost < MaxLost
    /\ lost' = lost + 1
    /\ slot' = [slot EXCEPT ![s] = Free]
    /\ UNCHANGED <<outbox, named, endpoint, delivery, pub, request, edits, history>>

(* Two minutes pass.  A batch of 50, ten at a time, 10 s each, is done in  *)
(* 50 s, so only a stalled worker is still holding the claim by then.      *)
NeverLapses(d) == FALSE  \* mutation: the claim hides the row for good

Lapses(d) == MayStall \/ Holding(d) = {}

LeaseLapse(d) ==
    /\ delivery[d].leased
    /\ Lapses(d)
    /\ delivery' = [delivery EXCEPT ![d].leased = FALSE]
    /\ UNCHANGED <<outbox, named, endpoint, pub, slot, request, lost, edits, history>>

RetryDue(d) ==
    /\ delivery[d].next = "later"
    /\ delivery' = [delivery EXCEPT ![d].next = "due"]
    /\ UNCHANGED <<outbox, named, endpoint, pub, slot, request, lost, edits, history>>

-----------------------------------------------------------------------------
(* webhook.create, webhook.update, webhook.delete: one transaction each.   *)
Edit(p, row) ==
    /\ edits < MaxEdits
    /\ edits' = edits + 1
    /\ endpoint' = [endpoint EXCEPT ![p] = row]
    /\ UNCHANGED <<outbox, named, pub, slot, request, lost, inserted, reached>>
    /\ eligible' = eligible \cap Wanted'

Create(p, subs) ==
    /\ endpoint[p].state = "absent"
    /\ Edit(p, [NoEndpoint EXCEPT !.state = "present", !.enabled = TRUE, !.subs = subs])
    /\ UNCHANGED <<delivery, spent>>

Resubscribe(p, subs) ==
    /\ Present(p) /\ subs # endpoint[p].subs
    /\ Edit(p, [endpoint[p] EXCEPT !.subs = subs])
    /\ UNCHANGED <<delivery, spent>>

Disable(p) ==
    /\ Present(p) /\ endpoint[p].enabled
    /\ Edit(p, [endpoint[p] EXCEPT !.enabled = FALSE])
    /\ UNCHANGED <<delivery, spent>>

Enable(p) ==
    /\ Present(p)
    /\ Edit(p, [endpoint[p] EXCEPT !.enabled = TRUE, !.auto = FALSE, !.failures = 0])
    /\ spent' = [spent EXCEPT ![p] = 0]
    /\ UNCHANGED delivery

Delete(p) ==
    /\ Present(p)
    /\ Edit(p, [NoEndpoint EXCEPT !.state = "deleted"])
    /\ delivery' = [d \in Deliveries |-> IF EndpointOf(d) = p THEN NoRow ELSE delivery[d]]
    /\ UNCHANGED spent

(* webhookDelivery.retry reads the row without locking it, then overwrites *)
(* it: the check and the write are two statements.                         *)
RetriesAnyVerdict(d) == delivery[d].status \in {"failed", "succeeded"}  \* mutation

Retries(d) == delivery[d].status = "failed"

RetryRead(r, d) ==
    /\ request[r] = {}
    /\ Retries(d)
    /\ edits < MaxEdits
    /\ edits' = edits + 1
    /\ request' = [request EXCEPT ![r] = {d}]
    /\ UNCHANGED <<outbox, named, endpoint, delivery, pub, slot, lost, history>>

RetryWrite(r, d) ==
    /\ d \in request[r]
    /\ WriteRow(d, Queued)
    /\ request' = [request EXCEPT ![r] = {}]
    /\ UNCHANGED <<outbox, named, endpoint, pub, slot, lost, edits, history>>

-----------------------------------------------------------------------------
Publish == \E w \in Publishers : PublishSelect(w) \/ PublishCommit(w) \/ PublishRollback(w)

Record(s) == RecordSuccess(s) \/ RecordRetry(s) \/ RecordFailure(s)

Deliver ==
    \/ \E s \in Slots : Attempt(s) \/ Record(s) \/ LoseClaim(s)
    \/ \E s \in Slots, d \in Deliveries : Claim(s, d)
    \/ \E d \in Deliveries : LeaseLapse(d) \/ RetryDue(d)

Administer ==
    \/ \E p \in Endpoints, subs \in Subscriptions : Create(p, subs) \/ Resubscribe(p, subs)
    \/ \E p \in Endpoints : Disable(p) \/ Enable(p) \/ Delete(p)
    \/ \E r \in Requests, d \in Deliveries : RetryRead(r, d) \/ RetryWrite(r, d)

Next ==
    \/ \E e \in Events : Emit(e)
    \/ \E e \in Events, p \in Endpoints : WebhookTest(e, p)
    \/ Publish
    \/ Deliver
    \/ Administer

Spec == Init /\ [][Next]_vars

(* The worker loop polls for ever and goes on after an error; the claim    *)
(* query takes the oldest due delivery first, so one that stays due gets   *)
(* its turn (strong fairness).                                             *)
Fairness ==
    /\ \A w \in Publishers :
        /\ WF_vars(PublishSelect(w))
        /\ WF_vars(PublishCommit(w) \/ PublishRollback(w))
    /\ \A s \in Slots : WF_vars(Attempt(s)) /\ WF_vars(Record(s))
    /\ \A d \in Deliveries :
        /\ SF_vars(\E s \in Slots : Claim(s, d))
        /\ WF_vars(LeaseLapse(d))
        /\ WF_vars(RetryDue(d))

FairSpec == Spec /\ Fairness
-----------------------------------------------------------------------------
EndpointRow == [state : {"absent", "present", "deleted"}, enabled : BOOLEAN,
                subs : Subscriptions, failures : Nat, auto : BOOLEAN]
DeliveryRow == [status : {"none", "pending", "succeeded", "failed"}, attempts : Nat,
                next : {"null", "later", "due"}, leased : BOOLEAN]
Claimed == [phase : {"claimed", "ok", "error"}, d : Deliveries, attempts : Nat,
            enabled : BOOLEAN, failures : Nat]

(* Every variable has the shape the schema and the code give it.           *)
TypeOK ==
    /\ outbox \in [Events -> {"absent", "unpublished", "published"}]
    /\ named \in [TestEvents -> SUBSET Endpoints]
    /\ endpoint \in [Endpoints -> EndpointRow]
    /\ delivery \in [Deliveries -> DeliveryRow]
    /\ pub \in [Publishers -> [events : SUBSET Events, targets : SUBSET Deliveries]]
    /\ slot \in [Slots -> {Free} \cup Claimed]
    /\ request \in [Requests -> SUBSET Deliveries]
    /\ lost \in Nat /\ edits \in Nat
    /\ inserted \in [Deliveries -> Nat]
    /\ reached \in SUBSET Deliveries /\ eligible \in SUBSET Deliveries
    /\ spent \in [Endpoints -> Nat]

(* However many workers publish, crash or roll back, an event that is      *)
(* stamped published has exactly one delivery row for every endpoint that  *)
(* wanted it all along, and no endpoint ever has two.                      *)
PublishedOnce ==
    /\ \A d \in Deliveries : inserted[d] <= 1
    /\ \A d \in eligible : outbox[EventOf(d)] = "published" => inserted[d] = 1

(* A delivery is in the hands of at most one worker, and while it is, the  *)
(* row is pending, leased and carries the attempt number being sent.       *)
ExclusiveClaim ==
    \A s \in Held : Exists(slot[s].d) =>
        /\ Holding(slot[s].d) = {s}
        /\ delivery[slot[s].d].status = "pending"
        /\ delivery[slot[s].d].leased
        /\ delivery[slot[s].d].attempts = slot[s].attempts

(* A row waits for an attempt exactly while it is pending, only a pending  *)
(* row is leased, and a success was really received.                       *)
RowCoherent ==
    \A d \in Deliveries :
        /\ (delivery[d].status = "pending") <=> (delivery[d].next # "null")
        /\ delivery[d].leased => delivery[d].status = "pending"
        /\ delivery[d].status = "succeeded" => d \in reached

(* Counting attempts at the claim means a crash costs an attempt but never *)
(* extends the schedule by more than the claims that were lost; a test is  *)
(* attempted once.                                                         *)
ScheduleEnds ==
    \A d \in Deliveries :
        delivery[d].attempts <= (IF IsTest(d) THEN 1 ELSE MaxAttempts) + lost

(* An endpoint is switched off automatically only after DisableAfter       *)
(* exhausted failures since it was last enabled.                           *)
DisableEarned ==
    \A p \in Endpoints :
        /\ endpoint[p].failures <= spent[p]
        /\ endpoint[p].auto => ~endpoint[p].enabled /\ spent[p] >= DisableAfter

(* A row says what became of its delivery, the attempts come to an end, and *)
(* an endpoint is switched off for what went wrong since it was enabled.   *)
DeliveriesCoherent == RowCoherent /\ ScheduleEnds /\ DisableEarned

(* The body of a delivered event is never sent again: nothing but its      *)
(* endpoint's deletion takes a row out of succeeded.                       *)
SucceededIsFinal ==
    [][\A d \in Deliveries :
        delivery[d].status = "succeeded" /\ Present(EndpointOf(d))'
            => delivery'[d].status = "succeeded"]_vars

(* Every event is published, every delivery reaches a verdict.             *)
EventuallyPublished ==
    \A e \in Events : outbox[e] = "unpublished" ~> outbox[e] = "published"

Ledger == INSTANCE DeliveryLedger WITH
    state <- [d \in Deliveries |->
        IF endpoint[EndpointOf(d)].state = "deleted" THEN "gone" ELSE delivery[d].status]

(* The dispatcher implements the delivery ledger.                          *)
ImplementsLedger == Ledger!Spec
EventuallySettled == Ledger!Settles
=============================================================================
