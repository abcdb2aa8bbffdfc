------------------------- MODULE WebhookOutboxProofs -------------------------
(***************************************************************************)
(* Proofs about the webhook outbox, for every set of events, endpoints,    *)
(* workers and requests, and with or without stalled workers; and about    *)
(* the renewals of assets, for any assets, sweeps and calendar.            *)
(***************************************************************************)
EXTENDS MCWorker, TLAPS

(* Every step is one of these; the proofs below go through them in order.  *)
LEMMA NextCases ==
    ASSUME Next
    PROVE  \/ \E e \in Events : Emit(e)
           \/ \E e \in Events, p \in Endpoints : WebhookTest(e, p)
           \/ \E w \in Publishers : PublishSelect(w)
           \/ \E w \in Publishers : PublishCommit(w)
           \/ \E w \in Publishers : PublishRollback(w)
           \/ \E s \in Slots : Attempt(s)
           \/ \E s \in Slots : RecordSuccess(s)
           \/ \E s \in Slots : RecordRetry(s)
           \/ \E s \in Slots : RecordFailure(s)
           \/ \E s \in Slots : LoseClaim(s)
           \/ \E s \in Slots, d \in Deliveries : Claim(s, d)
           \/ \E d \in Deliveries : LeaseLapse(d)
           \/ \E d \in Deliveries : RetryDue(d)
           \/ \E p \in Endpoints, subs \in Subscriptions : Create(p, subs)
           \/ \E p \in Endpoints, subs \in Subscriptions : Resubscribe(p, subs)
           \/ \E p \in Endpoints : Disable(p)
           \/ \E p \in Endpoints : Enable(p)
           \/ \E p \in Endpoints : Delete(p)
           \/ \E r \in Requests, d \in Deliveries : RetryRead(r, d)
           \/ \E r \in Requests, d \in Deliveries : RetryWrite(r, d)
BY DEF Next, Publish, Deliver, Record, Administer

LEMMA TypeInit == Init => TypeOK
BY OutboxAssumption
DEF Init, TypeOK, EndpointRow, DeliveryRow, Subscriptions, NoRow, NoEndpoint, NoBatch, Free, Deliveries

LEMMA TypeNext == TypeOK /\ [Next]_vars => TypeOK'
<1> SUFFICES ASSUME TypeOK, [Next]_vars PROVE TypeOK'
  OBVIOUS
<1> USE DEF EventOf, EndpointOf
<1>0. Wanted' \in SUBSET Deliveries
  BY DEF Wanted, Targets, Deliveries
<1>1. ASSUME NEW e \in Events, Emit(e) PROVE TypeOK'
  BY <1>1, <1>0 DEF Emit, Written, TypeOK
<1>2. ASSUME NEW e \in Events, NEW p \in Endpoints, WebhookTest(e, p) PROVE TypeOK'
  <2>1. named' \in [TestEvents -> SUBSET Endpoints]
    BY <1>2 DEF WebhookTest, TypeOK
  <2> QED BY <1>2, <1>0, <2>1 DEF WebhookTest, Written, TypeOK
<1>3. ASSUME NEW w \in Publishers, PublishSelect(w) PROVE TypeOK'
  <2>1. PICK E \in SUBSET Pending :
          pub' = [pub EXCEPT ![w] = [events |-> E, targets |-> Targets(E)]]
    BY <1>3 DEF PublishSelect
  <2>2. E \in SUBSET Events /\ Targets(E) \in SUBSET Deliveries
    BY DEF Pending, Targets, Deliveries
  <2>3. [events |-> E, targets |-> Targets(E)] \in [events : SUBSET Events, targets : SUBSET Deliveries]
    BY <2>2
  <2>4. pub' \in [Publishers -> [events : SUBSET Events, targets : SUBSET Deliveries]]
    BY <2>1, <2>3 DEF TypeOK
  <2> QED BY <1>3, <2>4 DEF PublishSelect, TypeOK, history
<1>4. ASSUME NEW w \in Publishers, PublishCommit(w) PROVE TypeOK'
  <2>1. /\ outbox' \in [Events -> {"absent", "unpublished", "published"}]
        /\ inserted' \in [Deliveries -> Nat]
    BY <1>4 DEF PublishCommit, TypeOK
  <2>2. Queued \in DeliveryRow
    BY DEF Queued, DeliveryRow
  <2>3. delivery' \in [Deliveries -> DeliveryRow]
    BY <1>4, <2>2 DEF PublishCommit, TypeOK
  <2>4. pub' \in [Publishers -> [events : SUBSET Events, targets : SUBSET Deliveries]]
    BY <1>4 DEF PublishCommit, TypeOK, NoBatch
  <2> QED BY <1>4, <2>1, <2>3, <2>4 DEF PublishCommit, TypeOK
<1>5. ASSUME NEW w \in Publishers, PublishRollback(w) PROVE TypeOK'
  BY <1>5, OutboxAssumption DEF PublishRollback, TypeOK, NoBatch, history
<1>6. ASSUME NEW s \in Slots, NEW d \in Deliveries, Claim(s, d) PROVE TypeOK'
  <2>1. [phase |-> "claimed", d |-> d, attempts |-> delivery[d].attempts + 1,
         enabled |-> endpoint[EndpointOf(d)].enabled,
         failures |-> endpoint[EndpointOf(d)].failures] \in Claimed
    BY DEF TypeOK, Claimed, Deliveries, EndpointRow, DeliveryRow
  <2>2. slot' \in [Slots -> {Free} \cup Claimed]
    BY <1>6, <2>1 DEF Claim, TypeOK
  <2>3. delivery' \in [Deliveries -> DeliveryRow]
    BY <1>6 DEF Claim, TypeOK, DeliveryRow
  <2> QED BY <1>6, <2>2, <2>3 DEF Claim, TypeOK, history
<1>7. ASSUME NEW s \in Slots, slot[s] # Free
      PROVE  slot[s] \in Claimed /\ slot[s].d \in Deliveries /\ EndpointOf(slot[s].d) \in Endpoints
  BY <1>7 DEF TypeOK, Claimed, Deliveries
<1>8. ASSUME NEW s \in Slots, slot[s].phase \in {"claimed", "ok", "error"} PROVE slot[s] # Free
  BY <1>8 DEF Free
<1>9. ASSUME NEW s \in Slots, Attempt(s) PROVE TypeOK'
  <2>1. slot[s] \in Claimed /\ slot[s].d \in Deliveries
    BY <1>9, <1>7, <1>8 DEF Attempt
  <2>2. slot' \in [Slots -> {Free} \cup Claimed]
    BY <1>9, <2>1 DEF Attempt, TypeOK, Claimed
  <2>3. reached' \in SUBSET Deliveries
    BY <1>9, <2>1 DEF Attempt, TypeOK
  <2> QED BY <1>9, <2>2, <2>3 DEF Attempt, TypeOK
<1>10. ASSUME NEW s \in Slots, slot' = [slot EXCEPT ![s] = Free] PROVE slot' \in [Slots -> {Free} \cup Claimed]
  BY <1>10 DEF TypeOK
<1>11. ASSUME NEW d \in Deliveries, NEW status \in {"succeeded", "failed"},
              WriteRow(d, Verdict(d, status))
       PROVE  delivery' \in [Deliveries -> DeliveryRow]
  BY <1>11, ZenonT(40) DEF WriteRow, Verdict, TypeOK, DeliveryRow
<1>12. ASSUME NEW s \in Slots, RecordSuccess(s) PROVE TypeOK'
  <2>1. slot[s].d \in Deliveries /\ EndpointOf(slot[s].d) \in Endpoints
    BY <1>12, <1>7, <1>8 DEF RecordSuccess
  <2>2. slot' \in [Slots -> {Free} \cup Claimed] /\ delivery' \in [Deliveries -> DeliveryRow]
    BY <1>12, <1>10, <1>11, <2>1 DEF RecordSuccess
  <2>3. endpoint' \in [Endpoints -> EndpointRow]
    <3> DEFINE p == EndpointOf(slot[s].d)
    <3>1. endpoint[p] \in EndpointRow
      BY <2>1 DEF TypeOK
    <3>2. \A n \in Nat : [endpoint[p] EXCEPT !.failures = n] \in EndpointRow
      BY <3>1 DEF EndpointRow
    <3>3. endpoint[p].failures \in Nat
      BY <3>1 DEF EndpointRow
    <3>4. PICK n \in Nat : endpoint' = [endpoint EXCEPT ![p] = [endpoint[p] EXCEPT !.failures = n]]
      <4>1. CASE slot[s].failures > 0 /\ ~IsTest(slot[s].d)
        BY <1>12, <2>1, <4>1 DEF RecordSuccess, TypeOK
      <4>2. CASE ~(slot[s].failures > 0 /\ ~IsTest(slot[s].d))
        BY <1>12, <2>1, <3>3, <4>2 DEF RecordSuccess, TypeOK
      <4> QED BY <4>1, <4>2
    <3> QED BY <2>1, <3>2, <3>4 DEF TypeOK
  <2> QED BY <1>12, <2>2, <2>3 DEF RecordSuccess, TypeOK
<1>13. ASSUME NEW s \in Slots, RecordRetry(s) PROVE TypeOK'
  <2>1. slot[s].d \in Deliveries
    BY <1>13, <1>7, <1>8 DEF RecordRetry
  <2>2. delivery[slot[s].d] \in DeliveryRow
    BY <2>1 DEF TypeOK
  <2>3. [delivery[slot[s].d] EXCEPT !.next = "later", !.leased = FALSE] \in DeliveryRow
    BY <2>2 DEF DeliveryRow
  <2>4. delivery' \in [Deliveries -> DeliveryRow]
    BY <1>13, <2>1, <2>2, <2>3 DEF RecordRetry, WriteRow, TypeOK
  <2> QED BY <1>10, <1>13, <2>4 DEF RecordRetry, TypeOK, history
<1>14. ASSUME NEW s \in Slots, RecordFailure(s) PROVE TypeOK'
  <2> DEFINE p == EndpointOf(slot[s].d)
  <2>1. slot[s].d \in Deliveries /\ p \in Endpoints
    BY <1>14, <1>7, <1>8 DEF RecordFailure
  <2>2. slot' \in [Slots -> {Free} \cup Claimed] /\ delivery' \in [Deliveries -> DeliveryRow]
    BY <1>14, <1>10, <1>11, <2>1 DEF RecordFailure
  <2>3. /\ endpoint' \in [Endpoints -> EndpointRow]
        /\ spent' \in [Endpoints -> Nat]
        /\ eligible' \in SUBSET Deliveries
    <3>1. CASE UNCHANGED <<endpoint, spent, eligible>>
      BY <3>1 DEF TypeOK
    <3>2. CASE /\ endpoint' = [endpoint EXCEPT ![p] =
                    IF Tripped(endpoint[p].failures + 1)
                    THEN [@ EXCEPT !.failures = endpoint[p].failures + 1, !.enabled = FALSE, !.auto = TRUE]
                    ELSE [@ EXCEPT !.failures = endpoint[p].failures + 1]]
               /\ spent' = [spent EXCEPT ![p] = @ + 1]
               /\ eligible' = eligible \cap Wanted'
      <4> DEFINE n == endpoint[p].failures + 1
      <4>0. endpoint[p] \in EndpointRow /\ n \in Nat
        BY <2>1 DEF TypeOK, EndpointRow
      <4>1. /\ [endpoint[p] EXCEPT !.failures = n, !.enabled = FALSE, !.auto = TRUE] \in EndpointRow
            /\ [endpoint[p] EXCEPT !.failures = n] \in EndpointRow
        BY <4>0 DEF EndpointRow
      <4>2. endpoint' \in [Endpoints -> EndpointRow]
        BY <3>2, <2>1, <4>1 DEF TypeOK
      <4> QED BY <4>2, <3>2, <2>1 DEF TypeOK
    <3> QED BY <1>14, <3>1, <3>2 DEF RecordFailure
  <2> QED BY <1>14, <2>2, <2>3 DEF RecordFailure, TypeOK
<1>15. ASSUME NEW s \in Slots, LoseClaim(s) PROVE TypeOK'
  BY <1>15, <1>10, OutboxAssumption DEF LoseClaim, TypeOK, history
<1>16. ASSUME NEW d \in Deliveries, LeaseLapse(d) \/ RetryDue(d) PROVE TypeOK'
  <2>1. /\ [delivery[d] EXCEPT !.leased = FALSE] \in DeliveryRow
        /\ [delivery[d] EXCEPT !.next = "due"] \in DeliveryRow
    BY DEF TypeOK, DeliveryRow
  <2>2. \/ delivery' = [delivery EXCEPT ![d] = [delivery[d] EXCEPT !.leased = FALSE]]
        \/ delivery' = [delivery EXCEPT ![d] = [delivery[d] EXCEPT !.next = "due"]]
    BY <1>16 DEF LeaseLapse, RetryDue, TypeOK
  <2>3. delivery' \in [Deliveries -> DeliveryRow]
    BY <2>1, <2>2 DEF TypeOK
  <2> QED BY <1>16, <2>3 DEF LeaseLapse, RetryDue, TypeOK, history
<1>17. ASSUME NEW p \in Endpoints, NEW new \in EndpointRow, Edit(p, new),
              delivery' \in [Deliveries -> DeliveryRow],
              spent' \in [Endpoints -> Nat]
       PROVE  TypeOK'
  BY <1>17, OutboxAssumption DEF Edit, TypeOK
<1>18. ASSUME NEW p \in Endpoints, NEW subs \in Subscriptions, Create(p, subs) \/ Resubscribe(p, subs)
       PROVE  TypeOK'
  <2>1. /\ [NoEndpoint EXCEPT !.state = "present", !.enabled = TRUE, !.subs = subs] \in EndpointRow
        /\ [endpoint[p] EXCEPT !.subs = subs] \in EndpointRow
    BY ZenonT(40) DEF TypeOK, EndpointRow, NoEndpoint
  <2>2. UNCHANGED <<delivery, spent>>
    BY <1>18 DEF Create, Resubscribe
  <2> QED BY <1>17, <1>18, <2>1, <2>2 DEF Create, Resubscribe, TypeOK
<1>19. ASSUME NEW p \in Endpoints, Disable(p) \/ Enable(p) PROVE TypeOK'
  <2>1. /\ [endpoint[p] EXCEPT !.enabled = FALSE] \in EndpointRow
        /\ [endpoint[p] EXCEPT !.enabled = TRUE, !.auto = FALSE, !.failures = 0] \in EndpointRow
    BY ZenonT(40) DEF TypeOK, EndpointRow
  <2>2. /\ delivery' = delivery
        /\ spent' \in [Endpoints -> Nat]
    BY <1>19 DEF Disable, Enable, TypeOK
  <2> QED BY <1>17, <1>19, <2>1, <2>2 DEF Disable, Enable, TypeOK
<1>20. ASSUME NEW p \in Endpoints, Delete(p) PROVE TypeOK'
  <2>1. [NoEndpoint EXCEPT !.state = "deleted"] \in EndpointRow
    BY DEF EndpointRow, NoEndpoint, Subscriptions
  <2>2. delivery' \in [Deliveries -> DeliveryRow]
    BY <1>20 DEF Delete, TypeOK, NoRow, DeliveryRow
  <2> QED BY <1>17, <1>20, <2>1, <2>2 DEF Delete, TypeOK
<1>21. ASSUME NEW r \in Requests, NEW d \in Deliveries, RetryRead(r, d) PROVE TypeOK'
  BY <1>21, OutboxAssumption DEF RetryRead, TypeOK, history
<1>22. ASSUME NEW r \in Requests, NEW d \in Deliveries, RetryWrite(r, d) PROVE TypeOK'
  <2>1. delivery' \in [Deliveries -> DeliveryRow]
    BY <1>22 DEF RetryWrite, WriteRow, TypeOK, Queued, DeliveryRow
  <2> QED BY <1>22, <2>1 DEF RetryWrite, TypeOK, history
<1>23. CASE UNCHANGED vars
  BY <1>23 DEF vars, TypeOK
<1> QED
  BY <1>1, <1>2, <1>3, <1>4, <1>5, <1>6, <1>9, <1>12, <1>13, <1>14, <1>15, <1>16,
     <1>18, <1>19, <1>20, <1>21, <1>22, <1>23, NextCases

(* Every reachable state is well typed.                                    *)
THEOREM TypeCorrect == Spec => []TypeOK
BY TypeInit, TypeNext, PTL DEF Spec

-----------------------------------------------------------------------------
(***************************************************************************)
(* PublishedOnce.  It is not inductive: a commit is right only because the *)
(* open publishing transactions hold disjoint, unpublished events and      *)
(* carry every delivery that is still wanted for them.                     *)
(***************************************************************************)
OpenBatches ==
    /\ \A w \in Publishers :
        /\ pub[w].events \subseteq {e \in Events : outbox[e] = "unpublished"}
        /\ pub[w].targets \subseteq pub[w].events \X Endpoints
    /\ \A w, v \in Publishers : w # v => pub[w].events \cap pub[v].events = {}

EligibleCovered ==
    /\ eligible \subseteq Wanted
    /\ \A d \in eligible : outbox[EventOf(d)] # "absent"
    /\ \A w \in Publishers, d \in eligible :
        EventOf(d) \in pub[w].events => d \in pub[w].targets

UnpublishedHasNoRow ==
    \A d \in Deliveries : outbox[EventOf(d)] # "published" => inserted[d] = 0

PublishInv == TypeOK /\ OpenBatches /\ EligibleCovered /\ UnpublishedHasNoRow /\ PublishedOnce

LEMMA PublishInit == Init => PublishInv
<1> SUFFICES ASSUME Init PROVE PublishInv
  OBVIOUS
<1>1. TypeOK
  BY TypeInit
<1>2. OpenBatches /\ EligibleCovered /\ UnpublishedHasNoRow /\ PublishedOnce
  BY DEF Init, OpenBatches, EligibleCovered, UnpublishedHasNoRow, PublishedOnce, NoBatch
<1> QED BY <1>1, <1>2 DEF PublishInv

(* A step that leaves the outbox, the batches and the rows alone can only  *)
(* narrow what is eligible.                                                *)
LEMMA PublishQuiet ==
    ASSUME PublishInv, TypeOK', UNCHANGED <<outbox, pub, inserted>>,
           eligible' \subseteq eligible, eligible' \subseteq Wanted'
    PROVE  PublishInv'
BY DEF PublishInv, OpenBatches, EligibleCovered, UnpublishedHasNoRow, PublishedOnce

LEMMA WantedSame ==
    ASSUME UNCHANGED <<endpoint, named>> PROVE Wanted' = Wanted
BY DEF Wanted, Targets, Present

LEMMA PublishNext == PublishInv /\ [Next]_vars => PublishInv'
<1> SUFFICES ASSUME PublishInv, [Next]_vars PROVE PublishInv'
  OBVIOUS
<1>0. TypeOK /\ TypeOK'
  BY TypeNext DEF PublishInv
<1>1. ASSUME UNCHANGED <<outbox, named, endpoint, pub, inserted, eligible>> PROVE PublishInv'
  BY <1>0, <1>1, PublishQuiet, WantedSame DEF PublishInv, EligibleCovered
<1>2. ASSUME NEW e \in Events, Written(e),
             \A d \in Deliveries : EventOf(d) # e => (d \in Wanted' <=> d \in Wanted)
      PROVE  PublishInv'
  <2>1. OpenBatches'
    BY <1>0, <1>2 DEF Written, PublishInv, OpenBatches, TypeOK
  <2>2. UnpublishedHasNoRow' /\ PublishedOnce'
    <3>1. ASSUME NEW d \in Deliveries, EventOf(d) = e PROVE inserted'[d] = 0 /\ outbox'[EventOf(d)] # "published"
      BY <1>0, <1>2, <3>1 DEF Written, PublishInv, UnpublishedHasNoRow, TypeOK
    <3>2. ASSUME NEW d \in Deliveries, EventOf(d) # e
          PROVE  inserted'[d] = inserted[d] /\ outbox'[EventOf(d)] = outbox[EventOf(d)] /\ (d \in eligible' => d \in eligible)
      BY <1>0, <1>2, <3>2 DEF Written, TypeOK, Deliveries, EventOf
    <3> QED BY <1>0, <3>1, <3>2 DEF PublishInv, UnpublishedHasNoRow, PublishedOnce, TypeOK
  <2>3. EligibleCovered'
    <3>1. \A w \in Publishers : e \notin pub[w].events
      BY <1>2 DEF Written, PublishInv, OpenBatches
    <3>2. ASSUME NEW d \in eligible' PROVE d \in Wanted' /\ outbox'[EventOf(d)] # "absent"
      <4>1. d \in Deliveries
        BY <1>0 DEF TypeOK
      <4>2. CASE EventOf(d) = e
        <5>1. d \notin eligible
          BY <4>2, <1>2 DEF Written, PublishInv, EligibleCovered
        <5>2. outbox'[e] = "unpublished"
          BY <1>0, <1>2 DEF Written, TypeOK
        <5> QED BY <5>1, <5>2, <4>2, <1>2 DEF Written
      <4>3. CASE EventOf(d) # e
        <5>1. d \in eligible
          BY <4>3, <1>2 DEF Written
        <5>2. EventOf(d) \in Events
          BY <4>1 DEF Deliveries, EventOf
        <5> QED BY <1>0, <1>2, <4>1, <4>3, <5>1, <5>2 DEF Written, PublishInv, EligibleCovered, TypeOK
      <4> QED BY <4>2, <4>3
    <3>3. ASSUME NEW w \in Publishers, NEW d \in eligible', EventOf(d) \in pub'[w].events
          PROVE  d \in pub'[w].targets
      <4>1. pub' = pub
        BY <1>2 DEF Written
      <4>2. EventOf(d) # e
        BY <3>1, <3>3, <4>1
      <4>3. d \in eligible
        BY <1>2, <4>2 DEF Written
      <4> QED BY <3>3, <4>1, <4>3 DEF PublishInv, EligibleCovered
    <3> QED BY <3>2, <3>3 DEF EligibleCovered
  <2> QED BY <1>0, <2>1, <2>2, <2>3 DEF PublishInv
<1>3. ASSUME NEW e \in Events, Emit(e) PROVE PublishInv'
  <2>1. Written(e) /\ Wanted' = Wanted
    BY <1>3, WantedSame DEF Emit, Written
  <2> QED BY <2>1, <1>2
<1>4. ASSUME NEW e \in Events, NEW p \in Endpoints, WebhookTest(e, p) PROVE PublishInv'
  <2>1. ASSUME NEW d \in Deliveries, EventOf(d) # e PROVE d \in Wanted' <=> d \in Wanted
    <3>1. endpoint' = endpoint
      BY <1>4 DEF WebhookTest, Written
    <3>2. IsTest(d) => named'[EventOf(d)] = named[EventOf(d)]
      BY <1>0, <1>4, <2>1 DEF WebhookTest, TypeOK, IsTest
    <3> QED BY <3>1, <3>2 DEF Wanted, Targets, Present, IsTest
  <2> QED BY <1>2, <1>4, <2>1 DEF WebhookTest
<1>5. ASSUME NEW w \in Publishers, PublishSelect(w) PROVE PublishInv'
  <2>1. PICK E \in SUBSET Pending :
          pub' = [pub EXCEPT ![w] = [events |-> E, targets |-> Targets(E)]]
    BY <1>5 DEF PublishSelect
  <2>2. UNCHANGED <<outbox, named, endpoint, inserted, eligible>> /\ Wanted' = Wanted
    BY <1>5, WantedSame DEF PublishSelect, history
  <2>3. /\ E \subseteq {e \in Events : outbox[e] = "unpublished"}
        /\ \A v \in Publishers : E \cap pub[v].events = {}
        /\ Targets(E) \subseteq E \X Endpoints
    BY DEF Pending, Locked, Targets
  <2>4. /\ pub'[w].events = E /\ pub'[w].targets = Targets(E)
        /\ \A v \in Publishers : v # w => pub'[v] = pub[v]
    BY <1>0, <2>1 DEF TypeOK
  <2>5. OpenBatches'
    BY <2>2, <2>3, <2>4 DEF PublishInv, OpenBatches
  <2>6. ASSUME NEW d \in eligible, EventOf(d) \in E PROVE d \in Targets(E)
    <3>1. d \in Deliveries /\ d \in Wanted
      BY <1>0 DEF PublishInv, EligibleCovered, TypeOK
    <3> QED BY <2>6, <3>1 DEF Wanted, Targets, Deliveries, EventOf
  <2>7. EligibleCovered'
    BY <2>2, <2>4, <2>6 DEF PublishInv, EligibleCovered
  <2> QED BY <1>0, <2>2, <2>5, <2>7 DEF PublishInv, UnpublishedHasNoRow, PublishedOnce
<1>6. ASSUME NEW w \in Publishers, PublishCommit(w) PROVE PublishInv'
  <2> DEFINE E == pub[w].events  T == pub[w].targets
  <2>1. UNCHANGED <<named, endpoint, eligible>> /\ Wanted' = Wanted
    BY <1>6, WantedSame DEF PublishCommit
  <2>2. /\ pub'[w].events = {} /\ pub'[w].targets = {}
        /\ \A v \in Publishers : v # w => pub'[v] = pub[v]
    BY <1>0, <1>6 DEF PublishCommit, NoBatch, TypeOK
  <2>3. /\ E \subseteq {e \in Events : outbox[e] = "unpublished"} /\ T \subseteq E \X Endpoints
        /\ \A v \in Publishers : v # w => E \cap pub[v].events = {}
    BY DEF PublishInv, OpenBatches
  <2>4. \A e \in Events : outbox'[e] = IF e \in E THEN "published" ELSE outbox[e]
    BY <1>6 DEF PublishCommit
  <2>5. \A d \in Deliveries : inserted'[d] = IF d \in T THEN inserted[d] + 1 ELSE inserted[d]
    BY <1>6 DEF PublishCommit
  <2>6. OpenBatches'
    <3>1. ASSUME NEW v \in Publishers
          PROVE  /\ pub'[v].events \subseteq {e \in Events : outbox'[e] = "unpublished"}
                 /\ pub'[v].targets \subseteq pub'[v].events \X Endpoints
      <4>1. CASE v = w
        BY <4>1, <2>2
      <4>2. CASE v # w
        BY <4>2, <2>2, <2>3, <2>4 DEF PublishInv, OpenBatches
      <4> QED BY <4>1, <4>2
    <3>2. ASSUME NEW v \in Publishers, NEW u \in Publishers, v # u PROVE pub'[v].events \cap pub'[u].events = {}
      BY <3>2, <2>2 DEF PublishInv, OpenBatches
    <3> QED BY <3>1, <3>2 DEF OpenBatches
  <2>7. EligibleCovered'
    <3>1. ASSUME NEW d \in eligible PROVE outbox'[EventOf(d)] # "absent"
      <4>1. EventOf(d) \in Events
        BY <1>0 DEF TypeOK, Deliveries, EventOf
      <4> QED BY <4>1, <2>4 DEF PublishInv, EligibleCovered
    <3>2. ASSUME NEW v \in Publishers, NEW d \in eligible, EventOf(d) \in pub'[v].events PROVE d \in pub'[v].targets
      BY <3>2, <2>2 DEF PublishInv, EligibleCovered
    <3> QED BY <2>1, <3>1, <3>2 DEF PublishInv, EligibleCovered
  <2>8. ASSUME NEW d \in Deliveries
        PROVE  /\ inserted'[d] <= 1
               /\ outbox'[EventOf(d)] # "published" => inserted'[d] = 0
               /\ d \in eligible /\ outbox'[EventOf(d)] = "published" => inserted'[d] = 1
    <3>1. EventOf(d) \in Events
      BY DEF Deliveries, EventOf
    <3>2. CASE EventOf(d) \in E
      <4>1. inserted[d] = 0 /\ outbox'[EventOf(d)] = "published"
        BY <3>1, <3>2, <2>3, <2>4 DEF PublishInv, UnpublishedHasNoRow
      <4>2. d \in eligible => d \in T
        BY <3>2 DEF PublishInv, EligibleCovered
      <4> QED BY <4>1, <4>2, <2>5
    <3>3. CASE EventOf(d) \notin E
      <4>1. d \notin T
        BY <3>3, <2>3 DEF EventOf
      <4> QED BY <1>0, <3>1, <3>3, <4>1, <2>4, <2>5 DEF PublishInv, UnpublishedHasNoRow, PublishedOnce
    <3> QED BY <3>2, <3>3
  <2>9. UnpublishedHasNoRow' /\ PublishedOnce'
    <3>1. eligible' \subseteq Deliveries
      BY <1>0 DEF TypeOK
    <3> QED BY <2>1, <2>8, <3>1 DEF UnpublishedHasNoRow, PublishedOnce
  <2> QED BY <1>0, <2>6, <2>7, <2>9 DEF PublishInv
<1>7. ASSUME NEW w \in Publishers, PublishRollback(w) PROVE PublishInv'
  <2>1. UNCHANGED <<outbox, named, endpoint, inserted, eligible>> /\ Wanted' = Wanted
    BY <1>7, WantedSame DEF PublishRollback, history
  <2>2. /\ pub'[w].events = {} /\ pub'[w].targets = {}
        /\ \A v \in Publishers : v # w => pub'[v] = pub[v]
    BY <1>0, <1>7 DEF PublishRollback, NoBatch, TypeOK
  <2>3. OpenBatches' /\ EligibleCovered'
    BY <2>1, <2>2 DEF PublishInv, OpenBatches, EligibleCovered
  <2> QED BY <1>0, <2>1, <2>3 DEF PublishInv, UnpublishedHasNoRow, PublishedOnce
<1>8. ASSUME NEW s \in Slots, RecordSuccess(s) PROVE PublishInv'
  <2>1. UNCHANGED <<outbox, named, pub, inserted, eligible>>
    BY <1>8 DEF RecordSuccess
  <2>2. \A p \in Endpoints : /\ endpoint'[p].state = endpoint[p].state
                             /\ endpoint'[p].enabled = endpoint[p].enabled
                             /\ endpoint'[p].subs = endpoint[p].subs
    BY <1>0, <1>8 DEF RecordSuccess, TypeOK, EndpointRow
  <2>3. Wanted' = Wanted
    <3>1. ASSUME NEW d \in Events \X Endpoints PROVE EndpointOf(d) \in Endpoints
      BY DEF EndpointOf
    <3> QED BY <2>1, <2>2, <3>1 DEF Wanted, Targets, Present
  <2> QED BY <1>0, <2>1, <2>3, PublishQuiet DEF PublishInv, EligibleCovered
<1>9. ASSUME NEW s \in Slots, RecordFailure(s) PROVE PublishInv'
  <2>1. UNCHANGED <<outbox, named, pub, inserted>>
    BY <1>9 DEF RecordFailure
  <2>2. eligible' \subseteq eligible /\ eligible' \subseteq Wanted'
    <3>1. CASE eligible' = eligible \cap Wanted'
      BY <3>1
    <3>2. CASE UNCHANGED <<endpoint, eligible>>
      BY <2>1, <3>2, WantedSame DEF PublishInv, EligibleCovered
    <3> QED BY <1>9, <3>1, <3>2 DEF RecordFailure
  <2> QED BY <1>0, <2>1, <2>2, PublishQuiet
<1>10. ASSUME NEW p \in Endpoints, NEW new, Edit(p, new) PROVE PublishInv'
  BY <1>0, <1>10, PublishQuiet DEF Edit
<1>11. ASSUME NEW p \in Endpoints, Disable(p) \/ Enable(p) \/ Delete(p) PROVE PublishInv'
  BY <1>10, <1>11 DEF Disable, Enable, Delete
<1>17. ASSUME NEW p \in Endpoints, NEW subs \in Subscriptions, Create(p, subs) \/ Resubscribe(p, subs)
       PROVE  PublishInv'
  BY <1>10, <1>17 DEF Create, Resubscribe
<1>12. ASSUME NEW s \in Slots, Attempt(s) \/ RecordRetry(s) \/ LoseClaim(s) PROVE PublishInv'
  BY <1>1, <1>12 DEF Attempt, RecordRetry, LoseClaim, history
<1>15. ASSUME NEW d \in Deliveries, LeaseLapse(d) \/ RetryDue(d) PROVE PublishInv'
  BY <1>1, <1>15 DEF LeaseLapse, RetryDue, history
<1>16. ASSUME NEW s \in Slots, NEW d \in Deliveries, Claim(s, d) PROVE PublishInv'
  BY <1>1, <1>16 DEF Claim, history
<1>13. ASSUME NEW r \in Requests, NEW d \in Deliveries, RetryRead(r, d) \/ RetryWrite(r, d) PROVE PublishInv'
  BY <1>1, <1>13 DEF RetryRead, RetryWrite, history
<1>14. CASE UNCHANGED vars
  BY <1>1, <1>14 DEF vars
<1> QED
  BY <1>3, <1>4, <1>5, <1>6, <1>7, <1>8, <1>9, <1>11, <1>12, <1>13, <1>14, <1>15, <1>16, <1>17, NextCases

(* However many workers publish, crash, stall or roll back: no event is    *)
(* published without the deliveries its endpoints were owed, or with two.  *)
THEOREM PublishedOnceAlways == Spec => []PublishedOnce
<1>1. PublishInv => PublishedOnce
  BY DEF PublishInv
<1> QED BY <1>1, PublishInit, PublishNext, PTL DEF Spec

-----------------------------------------------------------------------------
(***************************************************************************)
(* One worker per delivery.  This needs what the code relies on: a live    *)
(* worker finishes within its lease, and no two retry requests overlap.    *)
(* Without the second a success may be reopened (TLC finds it at once).    *)
(***************************************************************************)
OneRetry == \A r1, r2 \in Requests : r1 = r2

NothingBeforePublished ==
    \A d \in Deliveries : outbox[EventOf(d)] # "published" =>
        /\ delivery[d].status = "none"
        /\ Holding(d) = {}
        /\ \A r \in Requests : d \notin request[r]

RetryOfFailed ==
    \A r \in Requests : \A d \in request[r] : delivery[d].status \in {"failed", "none"}

ClaimInv == PublishInv /\ NothingBeforePublished /\ RetryOfFailed /\ ExclusiveClaim

LEMMA ClaimInit == Init => ClaimInv
<1> SUFFICES ASSUME Init PROVE ClaimInv
  OBVIOUS
<1>1. Held = {} /\ \A d \in Deliveries : Holding(d) = {}
  BY DEF Init, Held, Holding, Free
<1>2. NothingBeforePublished /\ RetryOfFailed /\ ExclusiveClaim
  BY <1>1 DEF Init, NothingBeforePublished, RetryOfFailed, ExclusiveClaim, NoRow
<1> QED BY <1>2, PublishInit DEF ClaimInv

(* A slot in use holds one delivery, of a published event.                 *)
LEMMA HeldFacts ==
    ASSUME TypeOK, NEW s \in Slots, slot[s] # Free
    PROVE  /\ s \in Held /\ slot[s] \in Claimed
           /\ slot[s].d \in Deliveries /\ EndpointOf(slot[s].d) \in Endpoints
           /\ s \in Holding(slot[s].d)
BY DEF TypeOK, Held, Holding, Claimed, Deliveries, EndpointOf

(* A step that leaves slots and requests alone, and no row worse off.      *)
LEMMA ClaimQuiet ==
    ASSUME ClaimInv, PublishInv', UNCHANGED <<slot, request>>,
           \A e \in Events : outbox[e] = "published" => outbox'[e] = "published",
           \A d \in Deliveries : delivery'[d] = delivery[d] \/ delivery'[d].status = "none"
    PROVE  ClaimInv'
<1>1. Held' = Held /\ \A d : Holding(d)' = Holding(d)
  BY DEF Held, Holding
<1>2. TypeOK
  BY DEF ClaimInv, PublishInv
<1>3. \A d \in Deliveries : EventOf(d) \in Events
  BY DEF Deliveries, EventOf
<1>4. NothingBeforePublished'
  BY <1>1, <1>3 DEF ClaimInv, NothingBeforePublished
<1>5. RetryOfFailed'
  BY <1>2 DEF ClaimInv, RetryOfFailed, TypeOK
<1>6. ASSUME NEW s \in Held, Exists(slot[s].d)'
      PROVE  /\ Holding(slot[s].d)' = {s}
             /\ delivery'[slot[s].d].status = "pending" /\ delivery'[slot[s].d].leased
             /\ delivery'[slot[s].d].attempts = slot[s].attempts
  <2>1. s \in Slots /\ slot[s] # Free
    BY DEF Held, Free
  <2>2. slot[s].d \in Deliveries
    BY <1>2, <2>1, HeldFacts
  <2>3. delivery'[slot[s].d] = delivery[slot[s].d]
    BY <1>6, <2>2 DEF Exists
  <2> QED BY <1>1, <1>6, <2>3 DEF ClaimInv, ExclusiveClaim, Exists
<1>7. ExclusiveClaim'
  BY <1>1, <1>6 DEF ExclusiveClaim
<1> QED BY <1>4, <1>5, <1>7 DEF ClaimInv

(* A claim leaves memory, and only the row it held is written.             *)
LEMMA ClaimRelease ==
    ASSUME ClaimInv, PublishInv', NEW s \in Slots, slot[s] # Free,
           slot' = [slot EXCEPT ![s] = Free], UNCHANGED <<outbox, request>>,
           \A d \in Deliveries : d # slot[s].d => delivery'[d] = delivery[d],
           ~Exists(slot[s].d) => delivery'[slot[s].d] = delivery[slot[s].d]
    PROVE  ClaimInv'
<1> DEFINE own == slot[s].d
<1>1. TypeOK
  BY DEF ClaimInv, PublishInv
<1>2. own \in Deliveries /\ s \in Held /\ s \in Holding(own)
  BY <1>1, HeldFacts
<1>3. /\ \A t \in Slots : t # s => slot'[t] = slot[t]
      /\ slot'[s] = Free
  BY <1>1 DEF TypeOK
<1>4. /\ \A d : Holding(d)' = Holding(d) \ {s}
      /\ Held' = Held \ {s}
  BY <1>3 DEF Holding, Held, Free
<1>5. outbox[EventOf(own)] = "published"
  BY <1>2 DEF ClaimInv, NothingBeforePublished
<1>6. NothingBeforePublished'
  BY <1>4, <1>5 DEF ClaimInv, NothingBeforePublished
<1>7. RetryOfFailed'
  <2> SUFFICES ASSUME NEW r \in Requests, NEW d \in request[r]
               PROVE  delivery'[d].status \in {"failed", "none"}
    BY DEF RetryOfFailed
  <2>1. d \in Deliveries /\ delivery[d].status \in {"failed", "none"}
    BY <1>1 DEF ClaimInv, RetryOfFailed, TypeOK
  <2>2. CASE d = own
    <3>1. ~Exists(own)
      BY <1>2, <2>1, <2>2 DEF ClaimInv, ExclusiveClaim
    <3> QED BY <2>1, <2>2, <3>1
  <2>3. CASE d # own
    BY <2>1, <2>3
  <2> QED BY <2>2, <2>3
<1>8. ASSUME NEW t \in Held', Exists(slot[t].d)'
      PROVE  /\ Holding(slot[t].d)' = {t}
             /\ delivery'[slot'[t].d].status = "pending" /\ delivery'[slot'[t].d].leased
             /\ delivery'[slot'[t].d].attempts = slot'[t].attempts
  <2>1. t \in Held /\ t # s /\ slot'[t] = slot[t] /\ t \in Slots /\ slot[t] # Free
    BY <1>3, <1>4 DEF Held, Free
  <2>2. slot[t].d \in Deliveries /\ t \in Holding(slot[t].d)
    BY <1>1, <2>1, HeldFacts
  <2>3. CASE slot[t].d = own
    <3>1. ~Exists(own)
      BY <1>2, <2>1, <2>2, <2>3 DEF ClaimInv, ExclusiveClaim
    <3> QED BY <1>8, <2>1, <2>3, <3>1 DEF Exists
  <2>4. CASE slot[t].d # own
    <3>1. delivery'[slot[t].d] = delivery[slot[t].d]
      BY <2>2, <2>4
    <3>0. delivery[slot[t].d].status # "none"
      BY <1>8, <2>1, <3>1 DEF Exists
    <3>2. Holding(slot[t].d) = {t}
      BY <3>0, <2>1, <3>1 DEF ClaimInv, ExclusiveClaim, Exists
    <3> QED BY <1>4, <1>8, <2>1, <3>1, <3>2 DEF ClaimInv, ExclusiveClaim, Exists
  <2> QED BY <2>3, <2>4
<1>9. ExclusiveClaim'
  BY <1>8 DEF ExclusiveClaim
<1> QED BY <1>6, <1>7, <1>9 DEF ClaimInv

LEMMA ClaimNext ==
    ASSUME ~MayStall, OneRetry, ClaimInv, [Next]_vars
    PROVE  ClaimInv'
<1>0. PublishInv' /\ TypeOK /\ TypeOK'
  BY PublishNext DEF ClaimInv, PublishInv
<1>1. ASSUME NEW e \in Events, Written(e) PROVE ClaimInv'
  BY <1>0, <1>1, ClaimQuiet DEF Written, TypeOK
<1>2. ASSUME NEW w \in Publishers, PublishSelect(w) \/ PublishRollback(w) PROVE ClaimInv'
  BY <1>0, <1>2, ClaimQuiet DEF PublishSelect, PublishRollback, history
<1>3. ASSUME NEW w \in Publishers, PublishCommit(w) PROVE ClaimInv'
  <2> DEFINE T == pub[w].targets
  <2>1. UNCHANGED <<slot, request>> /\ Held' = Held /\ \A d : Holding(d)' = Holding(d)
    BY <1>3 DEF PublishCommit, Held, Holding
  <2>2. ASSUME NEW d \in T
        PROVE  /\ d \in Deliveries /\ EventOf(d) \in pub[w].events
               /\ Holding(d) = {} /\ \A r \in Requests : d \notin request[r]
    <3>1. d \in Deliveries /\ EventOf(d) \in pub[w].events /\ outbox[EventOf(d)] = "unpublished"
      BY <1>0 DEF ClaimInv, PublishInv, OpenBatches, TypeOK, EventOf
    <3> QED BY <3>1 DEF ClaimInv, NothingBeforePublished
  <2>3. \A d \in Deliveries : d \notin T => delivery'[d] = delivery[d]
    BY <1>3 DEF PublishCommit
  <2>4. NothingBeforePublished'
    <3> SUFFICES ASSUME NEW d \in Deliveries, outbox'[EventOf(d)] # "published"
                 PROVE  /\ delivery'[d].status = "none" /\ Holding(d)' = {}
                        /\ \A r \in Requests : d \notin request'[r]
      BY DEF NothingBeforePublished
    <3>1. EventOf(d) \in Events
      BY DEF Deliveries, EventOf
    <3>2. EventOf(d) \notin pub[w].events /\ outbox[EventOf(d)] # "published"
      BY <1>3, <3>1 DEF PublishCommit
    <3> QED BY <2>1, <2>2, <2>3, <3>2 DEF ClaimInv, NothingBeforePublished
  <2>5. RetryOfFailed'
    BY <1>0, <2>1, <2>2, <2>3 DEF ClaimInv, RetryOfFailed, TypeOK
  <2>6. ASSUME NEW s \in Held, Exists(slot[s].d)'
        PROVE  /\ Holding(slot[s].d) = {s}
               /\ delivery'[slot[s].d].status = "pending" /\ delivery'[slot[s].d].leased
               /\ delivery'[slot[s].d].attempts = slot[s].attempts
    <3>1. s \in Slots /\ slot[s] # Free
      BY DEF Held, Free
    <3>2. slot[s].d \in Deliveries /\ s \in Holding(slot[s].d)
      BY <1>0, <3>1, HeldFacts
    <3>3. delivery'[slot[s].d] = delivery[slot[s].d]
      BY <2>2, <2>3, <3>2
    <3> QED BY <2>1, <2>6, <3>3 DEF ClaimInv, ExclusiveClaim, Exists
  <2>7. ExclusiveClaim'
    BY <2>1, <2>6 DEF ExclusiveClaim
  <2> QED BY <1>0, <2>4, <2>5, <2>7 DEF ClaimInv
<1>4. ASSUME NEW s \in Slots, NEW d \in Deliveries, Claim(s, d) PROVE ClaimInv'
  <2>1. /\ slot[s] = Free /\ delivery[d].status = "pending" /\ ~delivery[d].leased
        /\ UNCHANGED <<outbox, request>>
    BY <1>4 DEF Claim, Claimable
  <2>2. /\ slot'[s].phase = "claimed" /\ slot'[s].d = d
        /\ slot'[s].attempts = delivery[d].attempts + 1
        /\ \A t \in Slots : t # s => slot'[t] = slot[t]
    BY <1>0, <1>4 DEF Claim, TypeOK
  <2>3. /\ delivery'[d].status = "pending" /\ delivery'[d].leased
        /\ delivery'[d].attempts = delivery[d].attempts + 1
        /\ \A x \in Deliveries : x # d => delivery'[x] = delivery[x]
    BY <1>0, <1>4, <2>1 DEF Claim, TypeOK, DeliveryRow
  <2>4. Holding(d) = {}
    <3> SUFFICES ASSUME NEW t \in Holding(d) PROVE FALSE
      OBVIOUS
    <3>1. t \in Held /\ slot[t].d = d
      BY DEF Holding, Held
    <3> QED BY <2>1, <3>1 DEF ClaimInv, ExclusiveClaim, Exists
  <2>5. /\ Holding(d)' = {s} /\ Held' = Held \cup {s}
        /\ \A x \in Deliveries : x # d => Holding(x)' = Holding(x)
    BY <2>1, <2>2, <2>4 DEF Holding, Held, Free
  <2>6. NothingBeforePublished' /\ RetryOfFailed'
    <3>1. outbox[EventOf(d)] = "published"
      BY <2>1 DEF ClaimInv, NothingBeforePublished
    <3>2. \A r \in Requests : d \notin request[r]
      BY <2>1 DEF ClaimInv, RetryOfFailed
    <3>3. NothingBeforePublished'
      BY <2>1, <2>3, <2>5, <3>1 DEF ClaimInv, NothingBeforePublished
    <3>4. RetryOfFailed'
      BY <1>0, <2>1, <2>3, <3>2 DEF ClaimInv, RetryOfFailed, TypeOK
    <3> QED BY <3>3, <3>4
  <2>7. ASSUME NEW t \in Held', Exists(slot[t].d)'
        PROVE  /\ Holding(slot[t].d)' = {t}
               /\ delivery'[slot'[t].d].status = "pending" /\ delivery'[slot'[t].d].leased
               /\ delivery'[slot'[t].d].attempts = slot'[t].attempts
    <3>1. CASE t = s
      BY <2>2, <2>3, <2>5, <3>1
    <3>2. CASE t # s
      <4>1. t \in Held /\ t \in Slots /\ slot[t] # Free /\ slot'[t] = slot[t]
        BY <2>2, <2>5, <3>2 DEF Held, Free
      <4>2. slot[t].d \in Deliveries /\ t \in Holding(slot[t].d)
        BY <1>0, <4>1, HeldFacts
      <4>3. slot[t].d # d
        BY <2>4, <4>2
      <4>4. delivery'[slot[t].d] = delivery[slot[t].d]
        BY <2>3, <4>2, <4>3
      <4>5. delivery[slot[t].d].status # "none"
        BY <2>7, <4>1, <4>4 DEF Exists
      <4> QED BY <2>5, <4>1, <4>2, <4>3, <4>4, <4>5 DEF ClaimInv, ExclusiveClaim, Exists
    <3> QED BY <3>1, <3>2
  <2>8. ExclusiveClaim'
    BY <2>7 DEF ExclusiveClaim
  <2> QED BY <1>0, <2>6, <2>8 DEF ClaimInv
<1>5. ASSUME NEW s \in Slots, Attempt(s) PROVE ClaimInv'
  <2>1. slot[s] # Free
    BY <1>5 DEF Attempt, Free
  <2>2. slot[s] \in Claimed
    BY <1>0, <2>1, HeldFacts
  <2>3. /\ slot'[s].phase # "free" /\ slot'[s].d = slot[s].d /\ slot'[s].attempts = slot[s].attempts
        /\ \A t \in Slots : t # s => slot'[t] = slot[t]
    BY <1>0, <1>5, <2>2 DEF Attempt, TypeOK, Claimed
  <2>4. s \in Held
    BY <2>1, <1>0, HeldFacts
  <2>5. /\ Held' = Held
        /\ \A d : Holding(d)' = Holding(d)
        /\ \A t \in Slots : t \in Held => slot'[t].d = slot[t].d /\ slot'[t].attempts = slot[t].attempts
    BY <2>3, <2>4 DEF Held, Holding
  <2>6. UNCHANGED <<outbox, delivery, request>>
    BY <1>5 DEF Attempt
  <2>7. NothingBeforePublished' /\ RetryOfFailed'
    BY <2>5, <2>6 DEF ClaimInv, NothingBeforePublished, RetryOfFailed
  <2>8. ASSUME NEW t \in Held', Exists(slot[t].d)'
        PROVE  /\ Holding(slot[t].d)' = {t}
               /\ delivery'[slot'[t].d].status = "pending" /\ delivery'[slot'[t].d].leased
               /\ delivery'[slot'[t].d].attempts = slot'[t].attempts
    <3>1. t \in Held /\ t \in Slots
      BY <2>5 DEF Held
    <3> QED BY <2>5, <2>6, <2>8, <3>1 DEF ClaimInv, ExclusiveClaim, Exists
  <2>9. ExclusiveClaim'
    BY <2>8 DEF ExclusiveClaim
  <2> QED BY <1>0, <2>7, <2>9 DEF ClaimInv
<1>6. ASSUME NEW s \in Slots, RecordSuccess(s) \/ RecordRetry(s) \/ RecordFailure(s) \/ LoseClaim(s)
      PROVE  ClaimInv'
  <2>1. slot[s] # Free
    BY <1>6 DEF RecordSuccess, RecordRetry, RecordFailure, LoseClaim, Free
  <2>2. slot' = [slot EXCEPT ![s] = Free] /\ UNCHANGED <<outbox, request>>
    BY <1>6 DEF RecordSuccess, RecordRetry, RecordFailure, LoseClaim
  <2>3. slot[s].d \in Deliveries
    BY <1>0, <2>1, HeldFacts
  <2>4. delivery' = delivery \/ \E new : WriteRow(slot[s].d, new)
    BY <1>6 DEF RecordSuccess, RecordRetry, RecordFailure, LoseClaim
  <2>5. /\ \A d \in Deliveries : d # slot[s].d => delivery'[d] = delivery[d]
        /\ ~Exists(slot[s].d) => delivery'[slot[s].d] = delivery[slot[s].d]
    BY <1>0, <2>3, <2>4 DEF WriteRow, TypeOK
  <2> QED BY <1>0, <2>1, <2>2, <2>5, ClaimRelease
<1>7. ASSUME NEW d \in Deliveries, LeaseLapse(d) \/ RetryDue(d) PROVE ClaimInv'
  <2>1. UNCHANGED <<outbox, slot, request>> /\ Held' = Held /\ \A x : Holding(x)' = Holding(x)
    BY <1>7 DEF LeaseLapse, RetryDue, history, Held, Holding
  <2>2. \A x \in Deliveries : /\ x # d => delivery'[x] = delivery[x]
                              /\ delivery'[x].status = delivery[x].status
                              /\ delivery'[x].attempts = delivery[x].attempts
                              /\ Holding(x) # {} => delivery'[x].leased = delivery[x].leased
    BY <1>0, <1>7 DEF LeaseLapse, RetryDue, Lapses, TypeOK, DeliveryRow
  <2>3. NothingBeforePublished' /\ RetryOfFailed'
    BY <1>0, <2>1, <2>2 DEF ClaimInv, NothingBeforePublished, RetryOfFailed, TypeOK
  <2>4. ASSUME NEW t \in Held, Exists(slot[t].d)'
        PROVE  /\ Holding(slot[t].d) = {t}
               /\ delivery'[slot[t].d].status = "pending" /\ delivery'[slot[t].d].leased
               /\ delivery'[slot[t].d].attempts = slot[t].attempts
    <3>1. t \in Slots /\ slot[t] # Free
      BY DEF Held, Free
    <3>2. slot[t].d \in Deliveries /\ t \in Holding(slot[t].d)
      BY <1>0, <3>1, HeldFacts
    <3>3. delivery[slot[t].d].status # "none"
      BY <2>1, <2>2, <2>4, <3>2 DEF Exists
    <3> QED BY <2>2, <3>2, <3>3 DEF ClaimInv, ExclusiveClaim, Exists
  <2>5. ExclusiveClaim'
    BY <2>1, <2>4 DEF ExclusiveClaim
  <2> QED BY <1>0, <2>3, <2>5 DEF ClaimInv
<1>8. ASSUME NEW p \in Endpoints, NEW new, Edit(p, new),
             delivery' = delivery \/ Delete(p)
      PROVE  ClaimInv'
  <2>1. UNCHANGED <<outbox, slot, request>>
    BY <1>8 DEF Edit
  <2>2. \A d \in Deliveries : delivery'[d] = delivery[d] \/ delivery'[d].status = "none"
    BY <1>8 DEF Delete, NoRow
  <2> QED BY <1>0, <2>1, <2>2, ClaimQuiet
<1>9. ASSUME NEW r \in Requests, NEW d \in Deliveries, RetryRead(r, d) PROVE ClaimInv'
  <2>1. /\ UNCHANGED <<outbox, slot, delivery>> /\ delivery[d].status = "failed"
        /\ request'[r] = {d} /\ \A q \in Requests : q # r => request'[q] = request[q]
    BY <1>0, <1>9 DEF RetryRead, Retries, history, TypeOK
  <2>2. Held' = Held /\ \A x : Holding(x)' = Holding(x)
    BY <2>1 DEF Held, Holding
  <2>3. NothingBeforePublished' /\ RetryOfFailed'
    BY <2>1, <2>2 DEF ClaimInv, NothingBeforePublished, RetryOfFailed
  <2>4. ExclusiveClaim'
    BY <2>1, <2>2 DEF ClaimInv, ExclusiveClaim, Exists
  <2> QED BY <1>0, <2>3, <2>4 DEF ClaimInv
<1>10. ASSUME NEW r \in Requests, NEW d \in Deliveries, RetryWrite(r, d) PROVE ClaimInv'
  <2>1. /\ UNCHANGED <<outbox, slot>> /\ d \in request[r]
        /\ \A q \in Requests : request'[q] = {}
        /\ \A x \in Deliveries : x # d => delivery'[x] = delivery[x]
        /\ ~Exists(d) => delivery'[d] = delivery[d]
    BY <1>0, <1>10 DEF RetryWrite, WriteRow, history, TypeOK, OneRetry
  <2>2. Held' = Held /\ \A x : Holding(x)' = Holding(x)
    BY <2>1 DEF Held, Holding
  <2>3. delivery[d].status \in {"failed", "none"} /\ outbox[EventOf(d)] = "published"
    BY <2>1 DEF ClaimInv, RetryOfFailed, NothingBeforePublished
  <2>4. NothingBeforePublished' /\ RetryOfFailed'
    BY <2>1, <2>2, <2>3 DEF ClaimInv, NothingBeforePublished, RetryOfFailed
  <2>5. ASSUME NEW t \in Held, Exists(slot[t].d)'
        PROVE  /\ Holding(slot[t].d) = {t}
               /\ delivery'[slot[t].d].status = "pending" /\ delivery'[slot[t].d].leased
               /\ delivery'[slot[t].d].attempts = slot[t].attempts
    <3>1. t \in Slots /\ slot[t] # Free
      BY DEF Held, Free
    <3>2. slot[t].d \in Deliveries /\ t \in Holding(slot[t].d)
      BY <1>0, <3>1, HeldFacts
    <3>3. CASE slot[t].d = d
      <4>1. ~Exists(d)
        BY <2>3, <3>3 DEF ClaimInv, ExclusiveClaim, Exists
      <4> QED BY <2>1, <2>5, <3>3, <4>1 DEF Exists
    <3>4. CASE slot[t].d # d
      BY <2>1, <2>5, <3>2, <3>4 DEF ClaimInv, ExclusiveClaim, Exists
    <3> QED BY <3>3, <3>4
  <2>6. ExclusiveClaim'
    BY <2>1, <2>2, <2>5 DEF ExclusiveClaim
  <2> QED BY <1>0, <2>4, <2>6 DEF ClaimInv
<1>11. ASSUME NEW p \in Endpoints, Disable(p) \/ Enable(p) \/ Delete(p) PROVE ClaimInv'
  BY <1>8, <1>11 DEF Disable, Enable, Delete
<1>12. ASSUME NEW p \in Endpoints, NEW subs \in Subscriptions, Create(p, subs) \/ Resubscribe(p, subs)
       PROVE  ClaimInv'
  BY <1>8, <1>12 DEF Create, Resubscribe
<1>13. CASE UNCHANGED vars
  BY <1>0, <1>13, ClaimQuiet DEF vars
<1>14. ASSUME NEW e \in Events, Emit(e) PROVE ClaimInv'
  BY <1>1, <1>14 DEF Emit
<1>15. ASSUME NEW e \in Events, NEW p \in Endpoints, WebhookTest(e, p) PROVE ClaimInv'
  BY <1>1, <1>15 DEF WebhookTest
<1> QED
  BY <1>2, <1>3, <1>4, <1>5, <1>6, <1>7, <1>9, <1>10, <1>11, <1>12, <1>13, <1>14, <1>15, NextCases

(* A live worker that outlasts no lease, and one retry at a time: the same *)
(* delivery is never in two workers' hands.                                *)
THEOREM OneWorkerPerDelivery ==
    ASSUME ~MayStall, OneRetry
    PROVE  Spec => []ExclusiveClaim
<1>1. ClaimInv /\ [Next]_vars => ClaimInv'
  BY ClaimNext
<1>2. ClaimInv => ExclusiveClaim
  BY DEF ClaimInv
<1> QED BY <1>1, <1>2, ClaimInit, PTL DEF Spec

LEMMA SuccessStays ==
    ASSUME ~MayStall, OneRetry, ClaimInv, Next,
           NEW d \in Deliveries, delivery[d].status = "succeeded", Present(EndpointOf(d))'
    PROVE  delivery'[d].status = "succeeded"
<1>0. TypeOK /\ EndpointOf(d) \in Endpoints
  BY DEF ClaimInv, PublishInv, Deliveries, EndpointOf
<1>1. Holding(d) = {}
  <2> SUFFICES ASSUME NEW s \in Holding(d) PROVE FALSE
    OBVIOUS
  <2>1. s \in Held /\ slot[s].d = d
    BY DEF Holding, Held
  <2> QED BY <2>1 DEF ClaimInv, ExclusiveClaim, Exists
<1>2. ASSUME delivery' = delivery PROVE delivery'[d].status = "succeeded"
  BY <1>2
<1>3. ASSUME NEW s \in Slots, slot[s] # Free,
             delivery' = delivery \/ \E new : WriteRow(slot[s].d, new)
      PROVE  delivery'[d].status = "succeeded"
  <2>1. slot[s].d # d /\ slot[s].d \in Deliveries
    BY <1>0, <1>1, <1>3, HeldFacts
  <2> QED BY <1>0, <1>3, <2>1 DEF WriteRow, TypeOK
<1>4. ASSUME NEW s \in Slots, RecordSuccess(s) \/ RecordRetry(s) \/ RecordFailure(s)
      PROVE  delivery'[d].status = "succeeded"
  <2>1. slot[s] # Free
    BY <1>4 DEF RecordSuccess, RecordRetry, RecordFailure, Free
  <2>2. \E new : WriteRow(slot[s].d, new)
    BY <1>4 DEF RecordSuccess, RecordRetry, RecordFailure
  <2> QED BY <1>3, <2>1, <2>2
<1>5. ASSUME NEW w \in Publishers, PublishCommit(w) PROVE delivery'[d].status = "succeeded"
  <2>1. outbox[EventOf(d)] = "published"
    BY DEF ClaimInv, NothingBeforePublished
  <2>2. d \notin pub[w].targets
    BY <2>1 DEF ClaimInv, PublishInv, OpenBatches, EventOf
  <2> QED BY <1>5, <2>2 DEF PublishCommit
<1>6. ASSUME NEW s \in Slots, NEW x \in Deliveries, Claim(s, x) PROVE delivery'[d].status = "succeeded"
  BY <1>0, <1>6 DEF Claim, TypeOK, DeliveryRow
<1>7. ASSUME NEW x \in Deliveries, LeaseLapse(x) \/ RetryDue(x) PROVE delivery'[d].status = "succeeded"
  BY <1>0, <1>7 DEF LeaseLapse, RetryDue, TypeOK, DeliveryRow
<1>8. ASSUME NEW p \in Endpoints, Delete(p) PROVE delivery'[d].status = "succeeded"
  <2>1. endpoint'[p].state = "deleted"
    BY <1>0, <1>8 DEF Delete, Edit, NoEndpoint, TypeOK
  <2>2. EndpointOf(d) # p
    BY <2>1 DEF Present
  <2> QED BY <1>8, <2>2 DEF Delete
<1>9. ASSUME NEW r \in Requests, NEW x \in Deliveries, RetryWrite(r, x) PROVE delivery'[d].status = "succeeded"
  <2>1. x # d
    BY <1>9 DEF RetryWrite, ClaimInv, RetryOfFailed
  <2> QED BY <1>0, <1>9, <2>1 DEF RetryWrite, WriteRow, TypeOK
<1>10. ASSUME NEW w \in Publishers, PublishSelect(w) \/ PublishRollback(w) PROVE delivery' = delivery
  BY <1>10 DEF PublishSelect, PublishRollback
<1>11. ASSUME NEW e \in Events, Emit(e) PROVE delivery' = delivery
  BY <1>11 DEF Emit, Written
<1>12. ASSUME NEW e \in Events, NEW p \in Endpoints, WebhookTest(e, p) PROVE delivery' = delivery
  BY <1>12 DEF WebhookTest, Written
<1>13. ASSUME NEW s \in Slots, Attempt(s) \/ LoseClaim(s) PROVE delivery' = delivery
  BY <1>13 DEF Attempt, LoseClaim
<1>14. ASSUME NEW p \in Endpoints, Disable(p) \/ Enable(p) PROVE delivery' = delivery
  BY <1>14 DEF Disable, Enable
<1>15. ASSUME NEW p \in Endpoints, NEW subs \in Subscriptions, Create(p, subs) \/ Resubscribe(p, subs)
       PROVE  delivery' = delivery
  BY <1>15 DEF Create, Resubscribe
<1>16. ASSUME NEW r \in Requests, NEW x \in Deliveries, RetryRead(r, x) PROVE delivery' = delivery
  BY <1>16 DEF RetryRead
<1> QED
  BY <1>2, <1>4, <1>5, <1>6, <1>7, <1>8, <1>9, <1>10, <1>11, <1>12, <1>13, <1>14, <1>15, <1>16, NextCases

(* Under the same assumptions a delivery that succeeded is never sent      *)
(* again.                                                                  *)
THEOREM SuccessIsFinal ==
    ASSUME ~MayStall, OneRetry
    PROVE  Spec => SucceededIsFinal
<1>1. ClaimInv /\ [Next]_vars => ClaimInv'
  BY ClaimNext
<1>2. ClaimInv /\ [Next]_vars =>
        [\A d \in Deliveries : delivery[d].status = "succeeded" /\ Present(EndpointOf(d))'
            => delivery'[d].status = "succeeded"]_vars
  BY SuccessStays
<1> QED BY <1>1, <1>2, ClaimInit, PTL DEF Spec, SucceededIsFinal

-----------------------------------------------------------------------------
(***************************************************************************)
(* What a row says.  A record() is right only because the row it writes is *)
(* the one it claimed (ClaimInv), because an answer was received, and      *)
(* because a claim is paid for in advance: a pending row that nobody holds *)
(* has an attempt left, or lost one to a crash.                            *)
(***************************************************************************)
AttemptsOf(d) == IF IsTest(d) THEN 1 ELSE MaxAttempts

AnswerReceived == \A s \in Held : slot[s].phase = "ok" => slot[s].d \in reached

AttemptLeft ==
    \A d \in Deliveries :
        delivery[d].status = "pending" /\ Holding(d) = {} => delivery[d].attempts < AttemptsOf(d) + lost

CoherentInv ==
    /\ ClaimInv
    /\ AnswerReceived
    /\ RowCoherent
    /\ ScheduleEnds
    /\ AttemptLeft

LEMMA CoherentInit == Init => CoherentInv
<1> SUFFICES ASSUME Init PROVE CoherentInv
  OBVIOUS
<1>1. Held = {} /\ \A d \in Deliveries : delivery[d] = NoRow
  BY DEF Init, Held, Free
<1>2. AnswerReceived /\ RowCoherent /\ AttemptLeft
  BY <1>1 DEF AnswerReceived, RowCoherent, AttemptLeft, NoRow
<1>3. ScheduleEnds
  BY <1>1, OutboxAssumption DEF Init, ScheduleEnds, NoRow
<1> QED BY <1>2, <1>3, ClaimInit DEF CoherentInv

LEMMA AttemptsAreMany == \A d : AttemptsOf(d) \in Nat \ {0}
BY OutboxAssumption DEF AttemptsOf

(* A row in a worker's hands, if it still exists.                          *)
LEMMA HeldRow ==
    ASSUME ClaimInv, NEW s \in Slots, slot[s] # Free, Exists(slot[s].d)
    PROVE  /\ Holding(slot[s].d) = {s}
           /\ delivery[slot[s].d].status = "pending"
           /\ delivery[slot[s].d].attempts = slot[s].attempts
<1>1. s \in Held
  BY HeldFacts DEF ClaimInv, PublishInv
<1> QED BY <1>1 DEF ClaimInv, ExclusiveClaim

(* What RowCoherent, ScheduleEnds and AttemptLeft say of one row.          *)
Sound(d) ==
    /\ (delivery[d].status = "pending") <=> (delivery[d].next # "null")
    /\ delivery[d].leased => delivery[d].status = "pending"
    /\ delivery[d].status = "succeeded" => d \in reached
    /\ delivery[d].attempts <= AttemptsOf(d) + lost
    /\ delivery[d].status = "pending" /\ Holding(d) = {} => delivery[d].attempts < AttemptsOf(d) + lost

LEMMA RowsSound ==
    RowCoherent /\ ScheduleEnds /\ AttemptLeft <=> \A d \in Deliveries : Sound(d)
BY DEF RowCoherent, ScheduleEnds, AttemptLeft, Sound, AttemptsOf

(* A row that a step leaves as it is, or deletes, stays sound.             *)
LEMMA SoundStays ==
    ASSUME TypeOK, TypeOK', NEW d \in Deliveries, Sound(d), reached \subseteq reached', lost <= lost',
           delivery'[d] = delivery[d] \/ delivery'[d] = NoRow,
           Holding(d)' = {} => Holding(d) = {} \/ lost < lost'
    PROVE  Sound(d)'
<1>1. lost \in Nat /\ lost' \in Nat /\ AttemptsOf(d) \in Nat \ {0} /\ AttemptsOf(d)' = AttemptsOf(d)
  BY AttemptsAreMany DEF TypeOK, AttemptsOf, IsTest
<1>2. delivery[d].attempts \in Nat /\ delivery'[d].attempts \in Nat
  BY DEF TypeOK, DeliveryRow
<1>3. CASE delivery'[d] = delivery[d]
  BY <1>1, <1>2, <1>3 DEF Sound
<1>4. CASE delivery'[d] = NoRow
  BY <1>1, <1>2, <1>4 DEF Sound, NoRow
<1> QED BY <1>3, <1>4

(* The steps that move no claim and write no row but to delete it.         *)
LEMMA CoherentQuiet ==
    ASSUME CoherentInv, ClaimInv', UNCHANGED <<slot, reached>>, lost <= lost',
           \A d \in Deliveries : delivery'[d] = delivery[d] \/ delivery'[d] = NoRow
    PROVE  CoherentInv'
<1>1. TypeOK /\ TypeOK'
  BY DEF CoherentInv, ClaimInv, PublishInv
<1>2. Held' = Held /\ \A d : Holding(d)' = Holding(d)
  BY DEF Held, Holding
<1>3. \A d \in Deliveries : Sound(d)'
  BY <1>1, <1>2, RowsSound, SoundStays DEF CoherentInv
<1>4. AnswerReceived'
  BY <1>2 DEF CoherentInv, AnswerReceived
<1> QED BY <1>3, <1>4, RowsSound DEF CoherentInv, Sound, RowCoherent, ScheduleEnds, AttemptLeft, AttemptsOf

(* A claim leaves memory, having settled the row, put it off, or been      *)
(* lost: what it held is sound again, and nothing else was touched.        *)
LEMMA CoherentRelease ==
    ASSUME CoherentInv, ClaimInv', NEW s \in Slots, slot[s] # Free, NEW own, own = slot[s].d,
           slot' = [slot EXCEPT ![s] = Free], UNCHANGED reached, lost <= lost',
           \A d \in Deliveries : d # own => delivery'[d] = delivery[d],
           Sound(own)'
    PROVE  CoherentInv'
<1>1. TypeOK /\ TypeOK' /\ own \in Deliveries /\ s \in Holding(own)
  BY HeldFacts DEF CoherentInv, ClaimInv, PublishInv
<1>2. \A t \in Slots : slot'[t] = IF t = s THEN Free ELSE slot[t]
  BY <1>1 DEF TypeOK
<1>3. /\ Held' = Held \ {s}
      /\ \A d : Holding(d)' = Holding(d) \ {s}
  BY <1>2 DEF Held, Holding, Free
<1>4. \A d \in Deliveries : d # own => Holding(d)' = Holding(d)
  BY <1>3 DEF Holding
<1>5. ASSUME NEW d \in Deliveries PROVE Sound(d)'
  <2>1. CASE d = own
    BY <2>1
  <2>2. CASE d # own
    BY <1>1, <1>4, <2>2, RowsSound, SoundStays DEF CoherentInv
  <2> QED BY <2>1, <2>2
<1>6. AnswerReceived'
  BY <1>2, <1>3 DEF CoherentInv, AnswerReceived, Held
<1> QED BY <1>5, <1>6, RowsSound DEF CoherentInv, Sound, RowCoherent, ScheduleEnds, AttemptLeft, AttemptsOf

LEMMA CoherentNext ==
    ASSUME ~MayStall, OneRetry, CoherentInv, [Next]_vars
    PROVE  CoherentInv'
<1>0. /\ ClaimInv /\ ClaimInv' /\ TypeOK /\ TypeOK'
      /\ \A d \in Deliveries : Sound(d)
      /\ lost \in Nat
  BY ClaimNext, RowsSound DEF CoherentInv, ClaimInv, PublishInv, TypeOK
<1>a. ASSUME \A d \in Deliveries : Sound(d)', AnswerReceived' PROVE CoherentInv'
  BY <1>0, <1>a DEF CoherentInv, Sound, RowCoherent, ScheduleEnds, AttemptLeft, AttemptsOf
<1>b. ASSUME NEW d \in Deliveries
      PROVE  /\ AttemptsOf(d) \in Nat \ {0} /\ AttemptsOf(d)' = AttemptsOf(d)
             /\ delivery[d].attempts \in Nat
  BY <1>0, AttemptsAreMany DEF AttemptsOf, IsTest, TypeOK, DeliveryRow
<1>1. ASSUME NEW e \in Events, Emit(e) PROVE CoherentInv'
  BY <1>0, <1>1, CoherentQuiet DEF Emit, Written
<1>2. ASSUME NEW e \in Events, NEW p \in Endpoints, WebhookTest(e, p) PROVE CoherentInv'
  BY <1>0, <1>2, CoherentQuiet DEF WebhookTest, Written
<1>3. ASSUME NEW w \in Publishers, PublishSelect(w) PROVE CoherentInv'
  BY <1>0, <1>3, CoherentQuiet DEF PublishSelect, history
<1>4. ASSUME NEW w \in Publishers, PublishRollback(w) PROVE CoherentInv'
  <2>1. lost <= lost'
    BY <1>0, <1>4 DEF PublishRollback
  <2> QED BY <1>0, <1>4, <2>1, CoherentQuiet DEF PublishRollback, history
<1>5. ASSUME NEW w \in Publishers, PublishCommit(w) PROVE CoherentInv'
  <2>1. UNCHANGED <<slot, reached, lost>> /\ Held' = Held /\ \A d : Holding(d)' = Holding(d)
    BY <1>5 DEF PublishCommit, Held, Holding
  <2>2. \A d \in Deliveries : delivery'[d] = delivery[d] \/ delivery'[d] = Queued
    BY <1>5 DEF PublishCommit
  <2>3. ASSUME NEW d \in Deliveries PROVE Sound(d)'
    <3>1. CASE delivery'[d] = delivery[d]
      BY <1>0, <2>1, <3>1, SoundStays
    <3>2. CASE delivery'[d] = Queued
      BY <1>0, <1>b, <2>1, <3>2 DEF Sound, Queued
    <3> QED BY <2>2, <3>1, <3>2
  <2>4. AnswerReceived'
    BY <2>1 DEF CoherentInv, AnswerReceived
  <2> QED BY <1>a, <2>3, <2>4
<1>6. ASSUME NEW s \in Slots, NEW d \in Deliveries, Claim(s, d) PROVE CoherentInv'
  <2>1. /\ slot[s] = Free /\ delivery[d].status = "pending" /\ ~delivery[d].leased
        /\ UNCHANGED <<reached, lost>>
    BY <1>6 DEF Claim, Claimable, history
  <2>2. /\ slot'[s].phase = "claimed" /\ slot'[s].d = d
        /\ \A t \in Slots : t # s => slot'[t] = slot[t]
    BY <1>0, <1>6 DEF Claim, TypeOK
  <2>3. /\ delivery'[d].status = "pending" /\ delivery'[d].next = "due"
        /\ delivery'[d].attempts = delivery[d].attempts + 1
        /\ \A x \in Deliveries : x # d => delivery'[x] = delivery[x]
    BY <1>0, <1>6, <2>1 DEF Claim, Claimable, TypeOK, DeliveryRow
  <2>4. /\ s \in Holding(d)' /\ Held' = Held \cup {s}
        /\ \A x \in Deliveries : x # d => Holding(x)' = Holding(x)
    BY <2>1, <2>2 DEF Holding, Held, Free
  <2>5. Holding(d) = {}
    <3> SUFFICES ASSUME NEW t \in Holding(d) PROVE FALSE
      OBVIOUS
    <3>1. t \in Held /\ slot[t].d = d
      BY DEF Holding, Held
    <3> QED BY <1>0, <2>1, <3>1 DEF ClaimInv, ExclusiveClaim, Exists
  <2>6. ASSUME NEW x \in Deliveries PROVE Sound(x)'
    <3>1. CASE x = d
      BY <1>0, <1>b, <2>1, <2>3, <2>4, <2>5, <3>1 DEF Sound
    <3>2. CASE x # d
      BY <1>0, <2>1, <2>3, <2>4, <3>2, SoundStays
    <3> QED BY <3>1, <3>2
  <2>7. AnswerReceived'
    BY <2>1, <2>2, <2>4 DEF CoherentInv, AnswerReceived, Held
  <2> QED BY <1>a, <2>6, <2>7
<1>7. ASSUME NEW s \in Slots, Attempt(s) PROVE CoherentInv'
  <2>1. slot[s] # Free
    BY <1>7 DEF Attempt, Free
  <2>2. slot[s] \in Claimed /\ s \in Held
    BY <1>0, <2>1, HeldFacts
  <2>3. /\ UNCHANGED <<delivery, lost>> /\ reached \subseteq reached'
        /\ slot'[s].phase # "free" /\ slot'[s].d = slot[s].d
        /\ slot'[s].phase = "ok" => slot[s].d \in reached'
        /\ \A t \in Slots : t # s => slot'[t] = slot[t]
    BY <1>0, <1>7, <2>2 DEF Attempt, TypeOK, Claimed
  <2>4. Held' = Held /\ \A d : Holding(d)' = Holding(d)
    BY <2>2, <2>3 DEF Held, Holding
  <2>5. \A d \in Deliveries : Sound(d)'
    BY <1>0, <2>3, <2>4, SoundStays
  <2>6. AnswerReceived'
    BY <2>3, <2>4 DEF CoherentInv, AnswerReceived, Held
  <2> QED BY <1>a, <2>5, <2>6
<1>8. ASSUME NEW s \in Slots, slot[s] # Free
      PROVE  /\ slot[s].d \in Deliveries
             /\ \A new : WriteRow(slot[s].d, new) =>
                   /\ \A d \in Deliveries : d # slot[s].d => delivery'[d] = delivery[d]
                   /\ delivery'[slot[s].d] = IF Exists(slot[s].d) THEN new ELSE delivery[slot[s].d]
  <2>1. slot[s].d \in Deliveries
    BY <1>0, <1>8, HeldFacts
  <2> QED BY <1>0, <2>1 DEF WriteRow, TypeOK
<1>9. ASSUME NEW s \in Slots, RecordSuccess(s) PROVE CoherentInv'
  <2>0. PICK d : d = slot[s].d
    OBVIOUS
  <2>1. /\ slot[s] # Free /\ s \in Held /\ slot[s].phase = "ok"
        /\ slot' = [slot EXCEPT ![s] = Free] /\ UNCHANGED <<reached, lost>>
        /\ WriteRow(d, Verdict(d, "succeeded"))
    BY <1>9, <2>0 DEF RecordSuccess, Free, Held
  <2>2. d \in Deliveries /\ d \in reached
    BY <1>8, <2>0, <2>1 DEF CoherentInv, AnswerReceived
  <2>3. Sound(d)'
    <3>1. CASE Exists(d)
      <4>0. delivery[d] \in DeliveryRow /\ delivery'[d] = Verdict(d, "succeeded")
        BY <1>0, <1>8, <2>0, <2>1, <2>2, <3>1 DEF TypeOK
      <4>1. /\ delivery'[d].status = "succeeded" /\ delivery'[d].next = "null" /\ ~delivery'[d].leased
            /\ delivery'[d].attempts = delivery[d].attempts
        BY <4>0 DEF Verdict, DeliveryRow
      <4> QED BY <1>0, <1>b, <2>1, <2>2, <4>1 DEF Sound
    <3>2. CASE ~Exists(d)
      BY <1>0, <1>b, <1>8, <2>0, <2>1, <2>2, <3>2 DEF Sound, Exists
    <3> QED BY <3>1, <3>2
  <2>4. lost <= lost'
    BY <1>0, <2>1
  <2> QED BY <1>0, <1>8, <2>0, <2>1, <2>3, <2>4, CoherentRelease
<1>10. ASSUME NEW s \in Slots, RecordRetry(s) PROVE CoherentInv'
  <2>0. PICK d : d = slot[s].d
    OBVIOUS
  <2>1. /\ slot[s] # Free /\ slot' = [slot EXCEPT ![s] = Free] /\ UNCHANGED <<reached, lost>>
        /\ WriteRow(d, [delivery[d] EXCEPT !.next = "later", !.leased = FALSE])
        /\ ~IsTest(d) /\ slot[s].attempts < MaxAttempts
    BY <1>10, <2>0 DEF RecordRetry, Retriable, Free, history
  <2>2. d \in Deliveries
    BY <1>8, <2>0, <2>1
  <2>3. Sound(d)'
    <3>1. CASE Exists(d)
      <4>0. /\ delivery[d] \in DeliveryRow /\ delivery'[d] = [delivery[d] EXCEPT !.next = "later", !.leased = FALSE]
            /\ delivery[d].status = "pending" /\ delivery[d].attempts = slot[s].attempts
        BY <1>0, <1>8, <2>0, <2>1, <2>2, <3>1, HeldRow DEF TypeOK
      <4>1. /\ delivery'[d].status = "pending" /\ delivery'[d].next = "later" /\ ~delivery'[d].leased
            /\ delivery'[d].attempts = slot[s].attempts /\ delivery[d].attempts = slot[s].attempts
        BY <4>0 DEF DeliveryRow
      <4>2. AttemptsOf(d) = MaxAttempts
        BY <2>1 DEF AttemptsOf
      <4> QED BY <1>0, <1>b, <2>1, <2>2, <4>1, <4>2 DEF Sound
    <3>2. CASE ~Exists(d)
      BY <1>0, <1>b, <1>8, <2>0, <2>1, <2>2, <3>2 DEF Sound, Exists
    <3> QED BY <3>1, <3>2
  <2>4. lost <= lost'
    BY <1>0, <2>1
  <2> QED BY <1>0, <1>8, <2>0, <2>1, <2>3, <2>4, CoherentRelease
<1>11. ASSUME NEW s \in Slots, RecordFailure(s) PROVE CoherentInv'
  <2>0. PICK d : d = slot[s].d
    OBVIOUS
  <2>1. /\ slot[s] # Free /\ slot' = [slot EXCEPT ![s] = Free] /\ UNCHANGED <<reached, lost>>
        /\ WriteRow(d, Verdict(d, "failed"))
    BY <1>11, <2>0 DEF RecordFailure, Free
  <2>2. d \in Deliveries
    BY <1>8, <2>0, <2>1
  <2>3. Sound(d)'
    <3>1. CASE Exists(d)
      <4>0. delivery[d] \in DeliveryRow /\ delivery'[d] = Verdict(d, "failed")
        BY <1>0, <1>8, <2>0, <2>1, <2>2, <3>1 DEF TypeOK
      <4>1. /\ delivery'[d].status = "failed" /\ delivery'[d].next = "null" /\ ~delivery'[d].leased
            /\ delivery'[d].attempts = delivery[d].attempts
        BY <4>0 DEF Verdict, DeliveryRow
      <4> QED BY <1>0, <1>b, <2>1, <2>2, <4>1 DEF Sound
    <3>2. CASE ~Exists(d)
      BY <1>0, <1>b, <1>8, <2>0, <2>1, <2>2, <3>2 DEF Sound, Exists
    <3> QED BY <3>1, <3>2
  <2>4. lost <= lost'
    BY <1>0, <2>1
  <2> QED BY <1>0, <1>8, <2>0, <2>1, <2>3, <2>4, CoherentRelease
<1>12. ASSUME NEW s \in Slots, LoseClaim(s) PROVE CoherentInv'
  <2>0. PICK d : d = slot[s].d
    OBVIOUS
  <2>1. /\ slot[s] # Free /\ slot' = [slot EXCEPT ![s] = Free] /\ UNCHANGED <<delivery, reached>>
        /\ lost' = lost + 1
    BY <1>12, <2>0 DEF LoseClaim, history
  <2>2. d \in Deliveries /\ lost < lost' /\ lost <= lost'
    BY <1>0, <1>8, <2>0, <2>1
  <2>3. Sound(d)'
    <3>1. Holding(d)' = {} => lost < lost'
      BY <2>2
    <3> QED BY <1>0, <2>1, <2>2, <3>1, SoundStays
  <2> QED BY <1>0, <2>0, <2>1, <2>2, <2>3, CoherentRelease
<1>13. ASSUME NEW x \in Deliveries, LeaseLapse(x) \/ RetryDue(x) PROVE CoherentInv'
  <2>1. UNCHANGED <<slot, lost, reached>> /\ Held' = Held /\ \A d : Holding(d)' = Holding(d)
    BY <1>13 DEF LeaseLapse, RetryDue, history, Held, Holding
  <2>2. ASSUME NEW d \in Deliveries
        PROVE  /\ delivery'[d].status = delivery[d].status /\ delivery'[d].attempts = delivery[d].attempts
               /\ (delivery'[d].next = "null") <=> (delivery[d].next = "null")
               /\ delivery'[d].leased => delivery[d].leased
    BY <1>0, <1>13 DEF LeaseLapse, RetryDue, TypeOK, DeliveryRow
  <2>3. \A d \in Deliveries : Sound(d)'
    BY <1>0, <1>b, <2>1, <2>2 DEF Sound
  <2>4. AnswerReceived'
    BY <2>1 DEF CoherentInv, AnswerReceived
  <2> QED BY <1>a, <2>3, <2>4
<1>14. ASSUME NEW p \in Endpoints, NEW new, Edit(p, new), delivery' = delivery \/ Delete(p)
       PROVE  CoherentInv'
  <2>1. UNCHANGED <<slot, reached, lost>> /\ lost <= lost'
    BY <1>0, <1>14 DEF Edit
  <2>2. \A d \in Deliveries : delivery'[d] = delivery[d] \/ delivery'[d] = NoRow
    BY <1>14 DEF Delete
  <2> QED BY <1>0, <2>1, <2>2, CoherentQuiet
<1>15. ASSUME NEW p \in Endpoints, Disable(p) \/ Enable(p) \/ Delete(p) PROVE CoherentInv'
  BY <1>14, <1>15 DEF Disable, Enable, Delete
<1>16. ASSUME NEW p \in Endpoints, NEW subs \in Subscriptions, Create(p, subs) \/ Resubscribe(p, subs)
       PROVE  CoherentInv'
  BY <1>14, <1>16 DEF Create, Resubscribe
<1>17. ASSUME NEW r \in Requests, NEW d \in Deliveries, RetryRead(r, d) PROVE CoherentInv'
  BY <1>0, <1>17, CoherentQuiet DEF RetryRead, history
<1>18. ASSUME NEW r \in Requests, NEW x \in Deliveries, RetryWrite(r, x) PROVE CoherentInv'
  <2>1. /\ UNCHANGED <<slot, lost, reached>> /\ Held' = Held /\ \A d : Holding(d)' = Holding(d)
        /\ \A d \in Deliveries : delivery'[d] = delivery[d] \/ delivery'[d] = Queued
    BY <1>0, <1>18 DEF RetryWrite, WriteRow, history, Held, Holding, TypeOK
  <2>2. ASSUME NEW d \in Deliveries PROVE Sound(d)'
    <3>1. CASE delivery'[d] = delivery[d]
      BY <1>0, <2>1, <3>1, SoundStays
    <3>2. CASE delivery'[d] = Queued
      BY <1>0, <1>b, <2>1, <3>2 DEF Sound, Queued
    <3> QED BY <2>1, <3>1, <3>2
  <2>3. AnswerReceived'
    BY <2>1 DEF CoherentInv, AnswerReceived
  <2> QED BY <1>a, <2>2, <2>3
<1>19. CASE UNCHANGED vars
  BY <1>0, <1>19, CoherentQuiet DEF vars
<1> QED
  BY <1>1, <1>2, <1>3, <1>4, <1>5, <1>6, <1>7, <1>9, <1>10, <1>11, <1>12, <1>13, <1>15, <1>16, <1>17,
     <1>18, <1>19, NextCases

(* What an endpoint counts needs none of this.                             *)
LEMMA DisableNext == TypeOK /\ DisableEarned /\ [Next]_vars => DisableEarned'
<1> SUFFICES ASSUME TypeOK, DisableEarned, [Next]_vars PROVE DisableEarned'
  OBVIOUS
<1>0. TypeOK'
  BY TypeNext
<1>1. CASE UNCHANGED <<endpoint, spent>>
  BY <1>1 DEF DisableEarned
<1>2. ASSUME NEW p \in Endpoints, NEW new \in EndpointRow, NEW n \in Nat,
             endpoint' = [endpoint EXCEPT ![p] = new], spent' = [spent EXCEPT ![p] = n],
             new.failures <= n, new.auto => ~new.enabled /\ n >= DisableAfter
      PROVE  DisableEarned'
  <2>1. \A q \in Endpoints : /\ endpoint'[q] = IF q = p THEN new ELSE endpoint[q]
                             /\ spent'[q] = IF q = p THEN n ELSE spent[q]
    BY <1>2 DEF TypeOK
  <2> QED BY <1>2, <2>1 DEF DisableEarned
<1>3. ASSUME NEW p \in Endpoints
      PROVE  /\ endpoint[p] \in EndpointRow /\ spent[p] \in Nat /\ endpoint[p].failures \in Nat
             /\ endpoint[p].failures <= spent[p]
             /\ endpoint[p].auto => ~endpoint[p].enabled /\ spent[p] >= DisableAfter
             /\ spent = [spent EXCEPT ![p] = spent[p]]
  BY DEF TypeOK, DisableEarned, EndpointRow
<1>4. ASSUME NEW s \in Slots, slot[s].phase \in {"ok", "error"} PROVE EndpointOf(slot[s].d) \in Endpoints
  BY <1>4, HeldFacts DEF Free
<1>5. ASSUME NEW s \in Slots, RecordSuccess(s) PROVE DisableEarned'
  <2> DEFINE p == EndpointOf(slot[s].d)
             new == [endpoint[p] EXCEPT !.failures = IF slot[s].failures > 0 /\ ~IsTest(slot[s].d) THEN 0 ELSE @]
  <2>1. p \in Endpoints
    BY <1>4, <1>5 DEF RecordSuccess
  <2>2. endpoint' = [endpoint EXCEPT ![p] = new] /\ UNCHANGED spent
    BY <1>5, <2>1 DEF RecordSuccess, TypeOK
  <2>3. new \in EndpointRow /\ new.auto = endpoint[p].auto /\ new.enabled = endpoint[p].enabled
    BY <1>3, <2>1 DEF EndpointRow
  <2>4. new.failures <= spent[p]
    BY <1>3, <2>1 DEF EndpointRow
  <2> HIDE DEF new
  <2> QED BY <1>2, <1>3, <2>1, <2>2, <2>3, <2>4
<1>6. ASSUME NEW s \in Slots, RecordFailure(s) PROVE DisableEarned'
  <2> DEFINE p == EndpointOf(slot[s].d)
             n == endpoint[p].failures + 1
             new == IF Tripped(n) THEN [endpoint[p] EXCEPT !.failures = n, !.enabled = FALSE, !.auto = TRUE]
                                  ELSE [endpoint[p] EXCEPT !.failures = n]
  <2>1. p \in Endpoints
    BY <1>4, <1>6 DEF RecordFailure
  <2>2. CASE UNCHANGED <<endpoint, spent>>
    BY <1>1, <2>2
  <2>3. CASE endpoint' = [endpoint EXCEPT ![p] = new] /\ spent' = [spent EXCEPT ![p] = spent[p] + 1]
    <3>0. n \in Nat /\ n <= spent[p] + 1 /\ spent[p] + 1 \in Nat
      BY <1>3, <2>1
    <3>1. new \in EndpointRow /\ new.failures = n
      BY <1>3, <2>1, <3>0 DEF EndpointRow
    <3>2. new.auto => ~new.enabled /\ spent[p] + 1 >= DisableAfter
      <4>1. CASE Tripped(n)
        BY <1>3, <2>1, <3>0, <4>1, OutboxAssumption DEF Tripped, EndpointRow
      <4>2. CASE ~Tripped(n)
        BY <1>3, <2>1, <4>2, OutboxAssumption DEF EndpointRow
      <4> QED BY <4>1, <4>2
    <3> HIDE DEF new, n
    <3> QED BY <1>2, <2>1, <2>3, <3>0, <3>1, <3>2
  <2> QED BY <1>6, <2>1, <2>2, <2>3 DEF RecordFailure, TypeOK
<1>7. ASSUME NEW p \in Endpoints, NEW subs \in Subscriptions, Create(p, subs) PROVE DisableEarned'
  <2> DEFINE new == [NoEndpoint EXCEPT !.state = "present", !.enabled = TRUE, !.subs = subs]
  <2>1. new \in EndpointRow /\ new.failures = 0 /\ new.auto = FALSE
    BY DEF NoEndpoint, EndpointRow
  <2>2. endpoint' = [endpoint EXCEPT ![p] = new] /\ UNCHANGED spent
    BY <1>7 DEF Create, Edit
  <2>3. new.failures <= spent[p] /\ 0 <= spent[p]
    BY <1>3, <2>1
  <2> HIDE DEF new
  <2> QED BY <1>2, <1>3, <2>1, <2>2, <2>3
<1>8. ASSUME NEW p \in Endpoints, NEW subs \in Subscriptions, Resubscribe(p, subs) PROVE DisableEarned'
  <2> DEFINE new == [endpoint[p] EXCEPT !.subs = subs]
  <2>1. new \in EndpointRow /\ new.failures = endpoint[p].failures /\ new.auto = endpoint[p].auto
                            /\ new.enabled = endpoint[p].enabled
    BY <1>3 DEF EndpointRow
  <2>2. endpoint' = [endpoint EXCEPT ![p] = new] /\ UNCHANGED spent
    BY <1>8 DEF Resubscribe, Edit
  <2> QED BY <1>2, <1>3, <2>1, <2>2
<1>9. ASSUME NEW p \in Endpoints, Disable(p) PROVE DisableEarned'
  <2> DEFINE new == [endpoint[p] EXCEPT !.enabled = FALSE]
  <2>1. new \in EndpointRow /\ new.failures = endpoint[p].failures /\ new.auto = endpoint[p].auto
                            /\ new.enabled = FALSE
    BY <1>3 DEF EndpointRow
  <2>2. endpoint' = [endpoint EXCEPT ![p] = new] /\ UNCHANGED spent
    BY <1>9 DEF Disable, Edit
  <2> QED BY <1>2, <1>3, <2>1, <2>2
<1>10. ASSUME NEW p \in Endpoints, Enable(p) PROVE DisableEarned'
  <2> DEFINE new == [endpoint[p] EXCEPT !.enabled = TRUE, !.auto = FALSE, !.failures = 0]
  <2>1. new \in EndpointRow /\ new.failures = 0 /\ new.auto = FALSE
    BY <1>3 DEF EndpointRow
  <2>2. endpoint' = [endpoint EXCEPT ![p] = new] /\ spent' = [spent EXCEPT ![p] = 0]
    BY <1>10 DEF Enable, Edit
  <2>3. new.failures <= 0 /\ 0 \in Nat /\ ~new.auto
    BY <2>1
  <2> HIDE DEF new
  <2> QED BY <1>2, <2>1, <2>2, <2>3
<1>11. ASSUME NEW p \in Endpoints, Delete(p) PROVE DisableEarned'
  <2> DEFINE new == [NoEndpoint EXCEPT !.state = "deleted"]
  <2>1. new \in EndpointRow /\ new.failures = 0 /\ new.auto = FALSE
    BY DEF NoEndpoint, EndpointRow, Subscriptions
  <2>2. endpoint' = [endpoint EXCEPT ![p] = new] /\ UNCHANGED spent
    BY <1>11 DEF Delete, Edit
  <2>3. new.failures <= spent[p] /\ (new.auto => ~new.enabled /\ spent[p] >= DisableAfter)
    BY <1>3, <2>1
  <2>4. spent' = [spent EXCEPT ![p] = spent[p]] /\ spent[p] \in Nat
    BY <1>3, <2>2
  <2> HIDE DEF new
  <2> QED BY <1>2, <2>1, <2>2, <2>3, <2>4
<1>12. ASSUME NEW w \in Publishers, PublishSelect(w) \/ PublishCommit(w) \/ PublishRollback(w) PROVE DisableEarned'
  BY <1>1, <1>12 DEF PublishSelect, PublishCommit, PublishRollback, history
<1>13. ASSUME NEW s \in Slots, Attempt(s) \/ RecordRetry(s) \/ LoseClaim(s) PROVE DisableEarned'
  BY <1>1, <1>13 DEF Attempt, RecordRetry, LoseClaim, history
<1>14. ASSUME NEW s \in Slots, NEW d \in Deliveries, Claim(s, d) PROVE DisableEarned'
  BY <1>1, <1>14 DEF Claim, history
<1>15. ASSUME NEW d \in Deliveries, LeaseLapse(d) \/ RetryDue(d) PROVE DisableEarned'
  BY <1>1, <1>15 DEF LeaseLapse, RetryDue, history
<1>16. ASSUME NEW r \in Requests, NEW d \in Deliveries, RetryRead(r, d) \/ RetryWrite(r, d) PROVE DisableEarned'
  BY <1>1, <1>16 DEF RetryRead, RetryWrite, history
<1>17. ASSUME NEW e \in Events, Emit(e) \/ \E p \in Endpoints : WebhookTest(e, p) PROVE DisableEarned'
  BY <1>1, <1>17 DEF Emit, WebhookTest, Written
<1>18. CASE UNCHANGED vars
  BY <1>1, <1>18 DEF vars
<1> QED
  BY <1>5, <1>6, <1>7, <1>8, <1>9, <1>10, <1>11, <1>12, <1>13, <1>14, <1>15, <1>16, <1>17, <1>18, NextCases

(* Whatever crashes, a row says what became of its delivery, and its       *)
(* attempts come to an end; an endpoint is switched off only for failures  *)
(* it has had since it was enabled.                                        *)
THEOREM CoherentAlways ==
    ASSUME ~MayStall, OneRetry
    PROVE  Spec => []DeliveriesCoherent
<1> DEFINE Inv == CoherentInv /\ DisableEarned
<1>1. Init => Inv
  BY CoherentInit DEF Init, DisableEarned, NoEndpoint
<1>2. Inv /\ [Next]_vars => Inv'
  BY CoherentNext, DisableNext DEF CoherentInv, ClaimInv, PublishInv
<1>3. Inv => DeliveriesCoherent
  BY DEF CoherentInv, DeliveriesCoherent
<1> QED BY <1>1, <1>2, <1>3, PTL DEF Spec

-----------------------------------------------------------------------------
(***************************************************************************)
(* The dispatcher implements the ledger.  The state of a delivery is the   *)
(* status of its row, or gone with its endpoint; ClaimInv says that whoever*)
(* settles a delivery found it pending, that whoever queues it again found *)
(* it failed, and that it was in no queue before its event was published.  *)
(***************************************************************************)
StateOf(d) == IF endpoint[EndpointOf(d)].state = "deleted" THEN "gone" ELSE delivery[d].status

LedgerState == [d \in Deliveries |-> StateOf(d)]

LEMMA LedgerInit == Init => Ledger!Init
BY DEF Init, Ledger!Init, NoRow, NoEndpoint, Deliveries, EndpointOf

(* A step that gives the deliveries in D, and no others, the state `to'.   *)
LEMMA LedgerMove ==
    ASSUME NEW D \in SUBSET Deliveries, NEW from, NEW to,
           \A d \in D : StateOf(d) \in from /\ StateOf(d)' = to,
           \A d \in Deliveries \ D : StateOf(d)' = StateOf(d)
    PROVE  Ledger!Move(D, from, to)
BY DEF Ledger!Move, StateOf

LEMMA LedgerStutters ==
    ASSUME \A d \in Deliveries : StateOf(d)' = StateOf(d)
    PROVE  UNCHANGED LedgerState
BY DEF LedgerState

(* Endpoints are changed without becoming deleted, and rows keep their     *)
(* status.                                                                 *)
LEMMA LedgerSame ==
    ASSUME \A p \in Endpoints : endpoint'[p].state = "deleted" <=> endpoint[p].state = "deleted",
           \A d \in Deliveries : delivery'[d].status = delivery[d].status
    PROVE  UNCHANGED LedgerState
<1>1. \A d \in Deliveries : EndpointOf(d) \in Endpoints /\ EndpointOf(d)' = EndpointOf(d)
  BY DEF Deliveries, EndpointOf
<1> QED BY <1>1, LedgerStutters DEF StateOf

LEMMA LedgerNext ==
    ASSUME ~MayStall, OneRetry, ClaimInv, [Next]_vars
    PROVE  Ledger!Next \/ UNCHANGED LedgerState
<1>0. TypeOK /\ TypeOK'
  BY TypeNext DEF ClaimInv, PublishInv
<1>1. ASSUME NEW d \in Deliveries PROVE EndpointOf(d) \in Endpoints
  BY DEF Deliveries, EndpointOf
<1>2. ASSUME UNCHANGED <<endpoint, delivery>> PROVE UNCHANGED LedgerState
  BY <1>2, LedgerSame
<1>3. ASSUME NEW w \in Publishers, PublishCommit(w) PROVE Ledger!Next
  <2> DEFINE T == pub[w].targets
  <2>1. T \in SUBSET Deliveries /\ \A d \in T : outbox[EventOf(d)] = "unpublished" /\ Present(EndpointOf(d))
    BY <1>0, <1>3 DEF ClaimInv, PublishInv, OpenBatches, TypeOK, EventOf, PublishCommit
  <2>2. /\ endpoint' = endpoint
        /\ \A d \in Deliveries : delivery'[d] = IF d \in T THEN Queued ELSE delivery[d]
    BY <1>3 DEF PublishCommit
  <2>3. \A d \in T : StateOf(d) \in {"none"} /\ StateOf(d)' = "pending"
    BY <2>1, <2>2 DEF ClaimInv, NothingBeforePublished, StateOf, Present, Queued
  <2>4. \A d \in Deliveries \ T : StateOf(d)' = StateOf(d)
    BY <2>2 DEF StateOf
  <2>5. Ledger!Move(T, {"none"}, "pending")
    BY <2>1, <2>3, <2>4, LedgerMove
  <2> QED BY <2>1, <2>5 DEF Ledger!Next, Ledger!Queue
<1>4. ASSUME NEW s \in Slots, RecordSuccess(s) \/ RecordFailure(s)
      PROVE  Ledger!Next \/ UNCHANGED LedgerState
  <2>0. PICK d : d = slot[s].d
    OBVIOUS
  <2>1. PICK result \in {"succeeded", "failed"} : WriteRow(d, Verdict(d, result))
    BY <1>4, <2>0 DEF RecordSuccess, RecordFailure
  <2>2. slot[s] # Free
    BY <1>4 DEF RecordSuccess, RecordFailure, Free
  <2>3. d \in Deliveries /\ EndpointOf(d) \in Endpoints
    BY <1>0, <2>0, <2>2, HeldFacts
  <2>4. \A p \in Endpoints : endpoint'[p].state = endpoint[p].state
    <3> DEFINE Failed(n) == [endpoint[EndpointOf(d)] EXCEPT !.failures = n]
               SwitchedOff(n) == [endpoint[EndpointOf(d)] EXCEPT !.failures = n, !.enabled = FALSE, !.auto = TRUE]
    <3>1. \A n : /\ Failed(n).state = endpoint[EndpointOf(d)].state
                 /\ SwitchedOff(n).state = endpoint[EndpointOf(d)].state
      BY <1>0, <2>3 DEF TypeOK, EndpointRow
    <3>2. \/ endpoint' = endpoint
          \/ \E n : \/ endpoint' = [endpoint EXCEPT ![EndpointOf(d)] = Failed(n)]
                    \/ endpoint' = [endpoint EXCEPT ![EndpointOf(d)] = SwitchedOff(n)]
      <4>1. CASE RecordSuccess(s)
        BY <1>0, <2>0, <2>3, <4>1 DEF RecordSuccess, TypeOK
      <4>2. CASE RecordFailure(s) /\ endpoint' # endpoint
        BY <2>0, <2>3, <4>2, Zenon DEF RecordFailure
      <4> QED BY <1>4, <4>1, <4>2
    <3> HIDE DEF Failed, SwitchedOff
    <3> QED BY <1>0, <2>3, <3>1, <3>2 DEF TypeOK
  <2>5. \A x \in Deliveries : x # d => delivery'[x] = delivery[x]
    BY <1>0, <2>1, <2>3 DEF WriteRow, TypeOK
  <2>6. CASE ~Exists(d)
    <3>1. \A x \in Deliveries : delivery'[x] = delivery[x]
      BY <1>0, <2>1, <2>3, <2>5, <2>6 DEF WriteRow, TypeOK
    <3> QED BY <2>4, <3>1, LedgerSame
  <2>7. CASE Exists(d)
    <3>1. delivery[d].status = "pending"
      BY <2>0, <2>2, <2>7, HeldRow
    <3>2. delivery[d] \in DeliveryRow /\ delivery'[d] = Verdict(d, result)
      BY <1>0, <2>1, <2>3, <2>7 DEF WriteRow, TypeOK
    <3>3. delivery'[d].status = result
      BY <3>2 DEF Verdict, DeliveryRow
    <3>4. \A x \in Deliveries : x # d => StateOf(x)' = StateOf(x)
      BY <1>1, <2>4, <2>5 DEF StateOf
    <3>5. CASE endpoint[EndpointOf(d)].state = "deleted"
      <4>1. StateOf(d)' = StateOf(d)
        BY <2>3, <2>4, <3>5 DEF StateOf
      <4> QED BY <3>4, <4>1, LedgerStutters
    <3>6. CASE endpoint[EndpointOf(d)].state # "deleted"
      <4>1. StateOf(d) \in {"pending"} /\ StateOf(d)' = result
        BY <2>3, <2>4, <3>1, <3>3, <3>6 DEF StateOf
      <4>2. Ledger!Move({d}, {"pending"}, result)
        BY <2>3, <3>4, <4>1, LedgerMove
      <4> QED BY <2>3, <4>2 DEF Ledger!Next, Ledger!Settle
    <3> QED BY <3>5, <3>6
  <2> QED BY <2>6, <2>7
<1>5. ASSUME NEW s \in Slots, RecordRetry(s) PROVE UNCHANGED LedgerState
  <2>0. PICK d : d = slot[s].d
    OBVIOUS
  <2>1. d \in Deliveries
    BY <1>0, <1>5, <2>0, HeldFacts DEF RecordRetry, Free
  <2>2. /\ endpoint' = endpoint
        /\ \A x \in Deliveries : delivery'[x].status = delivery[x].status
    BY <1>0, <1>5, <2>0, <2>1 DEF RecordRetry, WriteRow, TypeOK, DeliveryRow
  <2> QED BY <2>2, LedgerSame
<1>6. ASSUME NEW s \in Slots, NEW d \in Deliveries, Claim(s, d) PROVE UNCHANGED LedgerState
  <2>1. /\ endpoint' = endpoint
        /\ \A x \in Deliveries : delivery'[x].status = delivery[x].status
    BY <1>0, <1>6 DEF Claim, TypeOK, DeliveryRow
  <2> QED BY <2>1, LedgerSame
<1>7. ASSUME NEW d \in Deliveries, LeaseLapse(d) \/ RetryDue(d) PROVE UNCHANGED LedgerState
  <2>1. /\ endpoint' = endpoint
        /\ \A x \in Deliveries : delivery'[x].status = delivery[x].status
    BY <1>0, <1>7 DEF LeaseLapse, RetryDue, TypeOK, DeliveryRow
  <2> QED BY <2>1, LedgerSame
<1>8. ASSUME NEW p \in Endpoints, NEW new, endpoint[p].state # "deleted", new.state # "deleted",
             endpoint' = [endpoint EXCEPT ![p] = new], UNCHANGED delivery
      PROVE  UNCHANGED LedgerState
  <2>1. \A q \in Endpoints : endpoint'[q].state = "deleted" <=> endpoint[q].state = "deleted"
    BY <1>0, <1>8 DEF TypeOK
  <2> QED BY <1>8, <2>1, LedgerSame
<1>9. ASSUME NEW p \in Endpoints, NEW subs \in Subscriptions, Create(p, subs) PROVE UNCHANGED LedgerState
  BY <1>8, <1>9 DEF Create, Edit, NoEndpoint
<1>10. ASSUME NEW p \in Endpoints
       PROVE  endpoint[p] \in EndpointRow
  BY <1>0 DEF TypeOK
<1>11. ASSUME NEW p \in Endpoints, NEW subs \in Subscriptions, Resubscribe(p, subs) PROVE UNCHANGED LedgerState
  BY <1>8, <1>10, <1>11 DEF Resubscribe, Edit, Present, EndpointRow
<1>12. ASSUME NEW p \in Endpoints, Disable(p) PROVE UNCHANGED LedgerState
  BY <1>8, <1>10, <1>12 DEF Disable, Edit, Present, EndpointRow
<1>13. ASSUME NEW p \in Endpoints, Enable(p) PROVE UNCHANGED LedgerState
  BY <1>8, <1>10, <1>13 DEF Enable, Edit, Present, EndpointRow
<1>14. ASSUME NEW p \in Endpoints, Delete(p) PROVE Ledger!Next
  <2> DEFINE D == {d \in Deliveries : EndpointOf(d) = p}
  <2>1. /\ endpoint'[p].state = "deleted" /\ \A q \in Endpoints : q # p => endpoint'[q] = endpoint[q]
        /\ \A d \in Deliveries : EndpointOf(d) # p => delivery'[d] = delivery[d]
    BY <1>0, <1>14 DEF Delete, Edit, NoEndpoint, TypeOK
  <2>2. \A d \in Deliveries : delivery[d].status \in {"none", "pending", "succeeded", "failed"}
    BY <1>0 DEF TypeOK, DeliveryRow
  <2>3. \A d \in D : StateOf(d) \in Ledger!States /\ StateOf(d)' = "gone"
    BY <2>1, <2>2 DEF StateOf, Ledger!States
  <2>4. \A d \in Deliveries \ D : StateOf(d)' = StateOf(d)
    BY <1>1, <2>1 DEF StateOf
  <2>5. Ledger!Move(D, Ledger!States, "gone")
    BY <2>3, <2>4, LedgerMove
  <2> QED BY <2>5 DEF Ledger!Next, Ledger!Withdraw
<1>15. ASSUME NEW r \in Requests, NEW d \in Deliveries, RetryWrite(r, d)
       PROVE  Ledger!Next \/ UNCHANGED LedgerState
  <2>1. /\ d \in request[r] /\ endpoint' = endpoint
        /\ \A x \in Deliveries : x # d => delivery'[x] = delivery[x]
        /\ delivery'[d] = IF Exists(d) THEN Queued ELSE delivery[d]
    BY <1>0, <1>15 DEF RetryWrite, WriteRow, TypeOK
  <2>2. delivery[d].status \in {"failed", "none"}
    BY <2>1 DEF ClaimInv, RetryOfFailed
  <2>3. \A x \in Deliveries : x # d => StateOf(x)' = StateOf(x)
    BY <2>1 DEF StateOf
  <2>4. CASE ~Exists(d) \/ endpoint[EndpointOf(d)].state = "deleted"
    <3>1. StateOf(d)' = StateOf(d)
      BY <2>1, <2>4 DEF StateOf
    <3> QED BY <2>3, <3>1, LedgerStutters
  <2>5. CASE Exists(d) /\ endpoint[EndpointOf(d)].state # "deleted"
    <3>1. StateOf(d) \in {"failed"} /\ StateOf(d)' = "pending"
      BY <2>1, <2>2, <2>5 DEF StateOf, Exists, Queued
    <3>2. Ledger!Move({d}, {"failed"}, "pending")
      BY <2>3, <3>1, LedgerMove
    <3> QED BY <3>2 DEF Ledger!Next, Ledger!Requeue
  <2> QED BY <2>4, <2>5
<1>16. ASSUME NEW w \in Publishers, PublishSelect(w) \/ PublishRollback(w) PROVE UNCHANGED LedgerState
  BY <1>2, <1>16 DEF PublishSelect, PublishRollback
<1>17. ASSUME NEW e \in Events, Emit(e) \/ \E p \in Endpoints : WebhookTest(e, p) PROVE UNCHANGED LedgerState
  BY <1>2, <1>17 DEF Emit, WebhookTest, Written
<1>18. ASSUME NEW s \in Slots, Attempt(s) \/ LoseClaim(s) PROVE UNCHANGED LedgerState
  BY <1>2, <1>18 DEF Attempt, LoseClaim
<1>19. ASSUME NEW r \in Requests, NEW d \in Deliveries, RetryRead(r, d) PROVE UNCHANGED LedgerState
  BY <1>2, <1>19 DEF RetryRead
<1>20. CASE UNCHANGED vars
  BY <1>2, <1>20 DEF vars
<1> QED
  BY <1>3, <1>4, <1>5, <1>6, <1>7, <1>9, <1>11, <1>12, <1>13, <1>14, <1>15, <1>16, <1>17, <1>18, <1>19,
     <1>20, NextCases

(* Under the same assumptions every behaviour of the dispatcher is one of  *)
(* the ledger's: a delivery is queued once, settled, queued again only     *)
(* after it failed, and gone with its endpoint.                            *)
THEOREM ImplementsTheLedger ==
    ASSUME ~MayStall, OneRetry
    PROVE  Spec => ImplementsLedger
<1>1. ClaimInv /\ [Next]_vars => ClaimInv'
  BY ClaimNext
<1>2. ClaimInv /\ [Next]_vars => [Ledger!Next]_LedgerState
  BY LedgerNext
<1>3. ClaimInv /\ [Next]_vars => [Ledger!Next]_([d \in Deliveries |->
          IF endpoint[EndpointOf(d)].state = "deleted" THEN "gone" ELSE delivery[d].status])
  BY <1>2 DEF LedgerState, StateOf
<1> QED BY <1>1, <1>3, ClaimInit, LedgerInit, PTL DEF Spec, ImplementsLedger, Ledger!Spec

-----------------------------------------------------------------------------
(***************************************************************************)
(* Renewals.  A sweep may rely on what it read of an asset until somebody  *)
(* changes the row, and on what it marked, which it has locked.            *)
(***************************************************************************)
AssetRows == [status : Rn!Statuses \cup {"absent"}, expires : Rn!Dates \cup {None},
              noticed : Rn!Dates \cup {None}, decommissioned : BOOLEAN]
SweepRows == [day : Rn!Dates \cup {None}, read : [Assets -> Rn!Dates \cup {None}],
              marked : SUBSET Assets, overtaken : SUBSET Assets]

RenewalsShape ==
    /\ today \in Rn!Dates
    /\ asset \in [Assets -> AssetRows]
    /\ sweep \in [Sweepers -> SweepRows]
    /\ said \subseteq Assets

(* An asset put away is stamped, and one announced shows its date so.      *)
Stamped ==
    /\ \A a \in Assets : asset[a].decommissioned <=> asset[a].status = "decommissioned"
    /\ \A a \in said : Rn!Stored(a) /\ asset[a].noticed = asset[a].expires

(* What a sweep read stays due until it is overtaken.                      *)
StillDue(s, a) ==
    /\ s.day \in 0..today /\ s.read[a] <= s.day + Horizon
    /\ a \notin s.overtaken =>
          /\ asset[a].expires = s.read[a] /\ asset[a].status = "active"
          /\ asset[a].noticed # asset[a].expires

(* What a sweep has marked was due, can be written, and is locked by it.   *)
Markable(w, s, a) ==
    /\ s.read[a] # None /\ Rn!Stored(a)
    /\ s.read[a] < s.day => ~asset[a].decommissioned
    /\ \A v \in Sweepers : a \in sweep[v].marked => v = w

RenewalsInv ==
    /\ RenewalsShape
    /\ Stamped
    /\ \A w \in Sweepers, a \in Assets : sweep[w].read[a] # None => StillDue(sweep[w], a)
    /\ \A w \in Sweepers : \A a \in sweep[w].marked : Markable(w, sweep[w], a)

LEMMA RestingRow == Rn!Resting \in SweepRows /\ \A a \in Assets : Rn!Resting.read[a] = None
BY DEF Rn!Resting, SweepRows

LEMMA RenewalsInit == Rn!Init => RenewalsInv
<1> SUFFICES ASSUME Rn!Init PROVE RenewalsInv
  OBVIOUS
<1>1. Rn!NoAsset \in AssetRows /\ Rn!NoAsset.decommissioned = FALSE /\ Rn!NoAsset.status = "absent"
  BY DEF Rn!NoAsset, AssetRows
<1>2. RenewalsShape
  BY <1>1, RestingRow, WorkerAssumption DEF Rn!Init, RenewalsShape, Rn!Dates
<1>3. Stamped
  BY <1>1 DEF Rn!Init, Stamped
<1>4. \A w \in Sweepers : sweep[w] = Rn!Resting /\ sweep[w].marked = {}
  BY DEF Rn!Init, Rn!Resting
<1> QED BY <1>2, <1>3, <1>4, RestingRow DEF RenewalsInv

(* A change by people, of a row that nobody has marked: it is a row again, *)
(* is not announced unless it shows it, and whoever read it is overtaken.  *)
LEMMA RowChanged ==
    ASSUME RenewalsInv, NEW b \in Assets, NEW x \in AssetRows,
           asset' = [asset EXCEPT ![b] = x], sweep' = Rn!Overtaking({b}), today' = today,
           Rn!Unlocked(b), said' \subseteq said,
           x.decommissioned <=> x.status = "decommissioned",
           b \in said' => x.status # "absent" /\ x.noticed = x.expires
    PROVE  RenewalsInv'
<1>1. \A w \in Sweepers :
        /\ sweep'[w] \in SweepRows
        /\ sweep'[w].day = sweep[w].day /\ sweep'[w].read = sweep[w].read /\ sweep'[w].marked = sweep[w].marked
        /\ sweep'[w].overtaken = IF Rn!Sweeping(w) THEN sweep[w].overtaken \cup {b} ELSE sweep[w].overtaken
  <2> SUFFICES ASSUME NEW w \in Sweepers
               PROVE  /\ sweep'[w] \in SweepRows
                      /\ sweep'[w].day = sweep[w].day /\ sweep'[w].read = sweep[w].read
                      /\ sweep'[w].marked = sweep[w].marked
                      /\ sweep'[w].overtaken =
                            IF Rn!Sweeping(w) THEN sweep[w].overtaken \cup {b} ELSE sweep[w].overtaken
    OBVIOUS
  <2>1. sweep[w] \in SweepRows
    BY DEF RenewalsInv, RenewalsShape
  <2>2. sweep'[w] = [sweep[w] EXCEPT !.overtaken =
                        IF Rn!Sweeping(w) THEN sweep[w].overtaken \cup {b} ELSE sweep[w].overtaken]
    BY DEF Rn!Overtaking
  <2>3. CASE Rn!Sweeping(w)
    <3>1. sweep'[w] = [sweep[w] EXCEPT !.overtaken = sweep[w].overtaken \cup {b}]
      BY <2>2, <2>3
    <3>2. sweep[w].overtaken \cup {b} \in SUBSET Assets
      BY <2>1 DEF SweepRows
    <3>3. \A o \in SUBSET Assets : [sweep[w] EXCEPT !.overtaken = o] \in SweepRows
      BY <2>1 DEF SweepRows
    <3>4. sweep'[w] \in SweepRows
      BY <3>1, <3>2, <3>3
    <3> QED BY <2>1, <2>3, <3>1, <3>4 DEF SweepRows
  <2>4. CASE ~Rn!Sweeping(w)
    <3>1. sweep'[w] = [sweep[w] EXCEPT !.overtaken = sweep[w].overtaken]
      BY <2>2, <2>4
    <3> QED BY <2>1, <2>4, <3>1 DEF SweepRows
  <2> QED BY <2>3, <2>4
<1>2. /\ asset' \in [Assets -> AssetRows]
      /\ asset'[b] = x /\ \A a \in Assets : a # b => asset'[a] = asset[a]
  BY DEF RenewalsInv, RenewalsShape
<1>3. RenewalsShape'
  <2>1. sweep' \in [Sweepers -> SweepRows]
    BY <1>1 DEF Rn!Overtaking
  <2> QED BY <1>2, <2>1 DEF RenewalsInv, RenewalsShape, Rn!Dates
<1>4. Stamped'
  BY <1>2 DEF RenewalsInv, RenewalsShape, Stamped, Rn!Stored
<1>5. \A w \in Sweepers, a \in Assets : sweep'[w].read[a] # None => StillDue(sweep[w], a)'
  <2> SUFFICES ASSUME NEW w \in Sweepers, NEW a \in Assets, sweep'[w].read[a] # None
               PROVE  StillDue(sweep[w], a)'
    OBVIOUS
  <2>1. StillDue(sweep[w], a) /\ Rn!Sweeping(w)
    <3>1. sweep[w].read[a] # None
      BY <1>1
    <3>2. sweep[w] # Rn!Resting
      BY <3>1, RestingRow
    <3> QED BY <3>1, <3>2 DEF RenewalsInv, Rn!Sweeping
  <2>2. CASE a = b
    BY <1>1, <2>1, <2>2 DEF StillDue
  <2>3. CASE a # b
    BY <1>1, <1>2, <2>1, <2>3 DEF StillDue
  <2> QED BY <2>2, <2>3
<1>6. \A w \in Sweepers : \A a \in sweep'[w].marked : Markable(w, sweep[w], a)'
  <2> SUFFICES ASSUME NEW w \in Sweepers, NEW a \in sweep'[w].marked PROVE Markable(w, sweep[w], a)'
    OBVIOUS
  <2>1. a \in sweep[w].marked /\ a \in Assets /\ a # b
    BY <1>1 DEF RenewalsInv, RenewalsShape, SweepRows, Rn!Unlocked
  <2>2. Markable(w, sweep[w], a)
    BY <2>1 DEF RenewalsInv
  <2> QED BY <1>1, <1>2, <2>1, <2>2 DEF Markable, Rn!Stored
<1> QED BY <1>3, <1>4, <1>5, <1>6 DEF RenewalsInv

(* The sweep by one worker, while the rows stay.                           *)
LEMMA SweepMoved ==
    ASSUME RenewalsInv, NEW w \in Sweepers, NEW s \in SweepRows,
           sweep' = [sweep EXCEPT ![w] = s], UNCHANGED <<today, asset, said>>,
           \A a \in Assets : s.read[a] # None => StillDue(s, a),
           \A a \in s.marked : Markable(w, s, a)
    PROVE  RenewalsInv'
<1>1. sweep'[w] = s /\ \A v \in Sweepers : v # w => sweep'[v] = sweep[v]
  BY DEF RenewalsInv, RenewalsShape
<1>2. RenewalsShape'
  BY DEF RenewalsInv, RenewalsShape
<1>3. Stamped'
  BY DEF RenewalsInv, Stamped, Rn!Stored
<1>4. ASSUME NEW v \in Sweepers, NEW a \in Assets, sweep'[v].read[a] # None PROVE StillDue(sweep[v], a)'
  <2>1. CASE v = w
    BY <1>1, <1>4, <2>1 DEF StillDue
  <2>2. CASE v # w
    BY <1>1, <1>4, <2>2 DEF RenewalsInv, StillDue
  <2> QED BY <2>1, <2>2
<1>5. ASSUME NEW v \in Sweepers, NEW a \in sweep'[v].marked PROVE Markable(v, sweep[v], a)'
  <2>1. CASE v = w
    BY <1>1, <1>5, <2>1 DEF Markable, Rn!Stored
  <2>2. CASE v # w
    <3>1. Markable(v, sweep[v], a) /\ a \in sweep[v].marked
      BY <1>1, <1>5, <2>2 DEF RenewalsInv
    <3>2. a \notin s.marked
      BY <2>2, <3>1 DEF Markable
    <3> QED BY <1>1, <2>2, <3>1, <3>2 DEF Markable, Rn!Stored
  <2> QED BY <2>1, <2>2
<1> QED BY <1>2, <1>3, <1>4, <1>5 DEF RenewalsInv

LEMMA SweepReads ==
    ASSUME RenewalsInv, NEW w \in Sweepers, Rn!SweepRead(w)
    PROVE  RenewalsInv'
<1> DEFINE read == [a \in Assets |-> IF Rn!Due(a) THEN asset[a].expires ELSE None]
           s == [Rn!Resting EXCEPT !.day = today, !.read = read]
<1>1. read \in [Assets -> Rn!Dates \cup {None}]
  BY DEF RenewalsInv, RenewalsShape, AssetRows
<1>2. sweep' = [sweep EXCEPT ![w] = s]
  BY DEF Rn!SweepRead
<1>3. s \in SweepRows
  BY <1>1, RestingRow DEF RenewalsInv, RenewalsShape, SweepRows
<1>4. ASSUME NEW a \in Assets, read[a] # None
      PROVE  /\ today \in 0..today /\ read[a] <= today + Horizon
             /\ asset[a].expires = read[a] /\ asset[a].status = "active"
             /\ asset[a].noticed # asset[a].expires
  BY <1>4, WorkerAssumption DEF Rn!Due, Rn!Live, RenewalsInv, RenewalsShape, Rn!Dates
<1>5. s.day = today /\ s.read = read /\ s.marked = {} /\ s.overtaken = {}
  <2>1. Rn!Resting.marked = {} /\ Rn!Resting.overtaken = {}
    BY DEF Rn!Resting
  <2> HIDE DEF read
  <2> QED BY <2>1, RestingRow DEF SweepRows
<1>6. UNCHANGED <<today, asset, said>>
  BY DEF Rn!SweepRead
<1> HIDE DEF s, read
<1>7. \A a \in Assets : s.read[a] # None => StillDue(s, a)
  BY <1>4, <1>5 DEF StillDue
<1>8. \A a \in s.marked : Markable(w, s, a)
  BY <1>5
<1> QED BY <1>2, <1>3, <1>6, <1>7, <1>8, SweepMoved

LEMMA SweepMarks ==
    ASSUME RenewalsInv, NEW w \in Sweepers, NEW b \in Assets, Rn!SweepMark(w, b)
    PROVE  RenewalsInv'
<1>1. sweep[w] \in SweepRows
  BY DEF RenewalsInv, RenewalsShape
<1>2. PICK s \in SweepRows : s = [sweep[w] EXCEPT !.marked = sweep[w].marked \cup {b}]
  <2>1. sweep[w].marked \cup {b} \in SUBSET Assets
    BY <1>1 DEF SweepRows
  <2>2. \A m \in SUBSET Assets : [sweep[w] EXCEPT !.marked = m] \in SweepRows
    BY <1>1 DEF SweepRows
  <2> QED BY <2>1, <2>2
<1>3. /\ s.day = sweep[w].day /\ s.read = sweep[w].read /\ s.overtaken = sweep[w].overtaken
      /\ s.marked = sweep[w].marked \cup {b}
  BY <1>1, <1>2 DEF SweepRows
<1>4. sweep' = [sweep EXCEPT ![w] = s] /\ UNCHANGED <<today, asset, said>>
  BY <1>2 DEF Rn!SweepMark
<1>5. \A a \in Assets : s.read[a] # None => StillDue(s, a)
  BY <1>3 DEF RenewalsInv, StillDue
<1>6. ASSUME NEW a \in s.marked PROVE Markable(w, s, a)
  <2>1. CASE a \in sweep[w].marked
    BY <1>3, <2>1 DEF RenewalsInv, Markable
  <2>2. CASE a = b
    BY <1>3, <2>2 DEF Rn!SweepMark, Rn!ToDo, Rn!Refused, Rn!Passed, Rn!Unlocked, Markable
  <2> QED BY <1>3, <2>1, <2>2
<1> QED BY <1>4, <1>5, <1>6, SweepMoved

LEMMA SweepStops ==
    ASSUME RenewalsInv, NEW w \in Sweepers, Rn!SweepFails(w)
    PROVE  RenewalsInv'
<1>1. sweep' = [sweep EXCEPT ![w] = Rn!Resting] /\ UNCHANGED <<today, asset, said>>
  BY DEF Rn!SweepFails
<1>2. Rn!Resting.marked = {}
  BY DEF Rn!Resting
<1> QED BY <1>1, <1>2, RestingRow, SweepMoved

(* What the committing sweep has marked is as it was read, or was changed  *)
(* meanwhile; it is announced, and whoever else read it is overtaken.      *)
LEMMA SweepCommits ==
    ASSUME RenewalsInv, NEW w \in Sweepers, Rn!SweepCommit(w)
    PROVE  RenewalsInv'
<1> DEFINE M == sweep[w].marked
<1>1. /\ M \subseteq Assets /\ sweep[w] \in SweepRows
      /\ \A a \in M : Markable(w, sweep[w], a)
  BY DEF RenewalsInv, RenewalsShape, SweepRows
<1>2. \A a \in Assets :
        /\ a \notin M => asset'[a] = asset[a]
        /\ a \in M => asset'[a] = Rn!Marked(w, a)
  BY DEF Rn!SweepCommit
<1>3. ASSUME NEW a \in M
      PROVE  /\ asset'[a] \in AssetRows
             /\ asset'[a].expires = asset[a].expires /\ asset'[a].decommissioned = asset[a].decommissioned
             /\ asset'[a].noticed = sweep[w].read[a]
             /\ asset'[a].status = IF sweep[w].read[a] < sweep[w].day THEN "expired" ELSE asset[a].status
  <2>1. a \in Assets /\ asset[a] \in AssetRows /\ sweep[w].read[a] \in Rn!Dates \cup {None}
    BY <1>1 DEF RenewalsInv, RenewalsShape, SweepRows
  <2>2. asset'[a] = [asset[a] EXCEPT !.noticed = sweep[w].read[a],
                                     !.status = IF sweep[w].read[a] < sweep[w].day THEN "expired" ELSE asset[a].status]
    BY <1>2, <2>1 DEF Rn!Marked, Rn!Passed
  <2>3. CASE sweep[w].read[a] < sweep[w].day
    <3>1. asset'[a] = [asset[a] EXCEPT !.noticed = sweep[w].read[a], !.status = "expired"]
      BY <2>2, <2>3
    <3> QED BY <2>1, <2>3, <3>1 DEF AssetRows, Rn!Statuses
  <2>4. CASE ~(sweep[w].read[a] < sweep[w].day)
    <3>1. asset'[a] = [asset[a] EXCEPT !.noticed = sweep[w].read[a], !.status = asset[a].status]
      BY <2>2, <2>4
    <3> QED BY <2>1, <2>4, <3>1 DEF AssetRows
  <2> QED BY <2>3, <2>4
<1>4. /\ sweep'[w] = Rn!Resting
      /\ \A v \in Sweepers : v # w =>
            /\ sweep'[v] \in SweepRows
            /\ sweep'[v].day = sweep[v].day /\ sweep'[v].read = sweep[v].read /\ sweep'[v].marked = sweep[v].marked
            /\ sweep'[v].overtaken = IF Rn!Sweeping(v) THEN sweep[v].overtaken \cup M ELSE sweep[v].overtaken
  <2>1. DOMAIN Rn!Overtaking(M) = Sweepers
    BY DEF Rn!Overtaking
  <2>2. sweep'[w] = Rn!Resting /\ \A v \in Sweepers : v # w => sweep'[v] = Rn!Overtaking(M)[v]
    BY <2>1 DEF Rn!SweepCommit
  <2>3. ASSUME NEW v \in Sweepers, v # w
        PROVE  /\ sweep'[v] \in SweepRows
               /\ sweep'[v].day = sweep[v].day /\ sweep'[v].read = sweep[v].read
               /\ sweep'[v].marked = sweep[v].marked
               /\ sweep'[v].overtaken = IF Rn!Sweeping(v) THEN sweep[v].overtaken \cup M ELSE sweep[v].overtaken
    <3>1. sweep[v] \in SweepRows
      BY DEF RenewalsInv, RenewalsShape
    <3> DEFINE o == IF Rn!Sweeping(v) THEN sweep[v].overtaken \cup M ELSE sweep[v].overtaken
    <3>2. sweep'[v] = [sweep[v] EXCEPT !.overtaken = o]
      BY <2>2, <2>3 DEF Rn!Overtaking
    <3>3. o \in SUBSET Assets
      <4>1. sweep[v].overtaken \subseteq Assets
        BY <3>1 DEF SweepRows
      <4> QED BY <1>1, <4>1
    <3> HIDE DEF o
    <3>4. sweep'[v] \in SweepRows /\ sweep'[v].overtaken = o
      BY <3>1, <3>2, <3>3 DEF SweepRows
    <3> QED BY <3>1, <3>2, <3>4 DEF SweepRows, o
  <2> QED BY <2>2, <2>3
<1>5. RenewalsShape'
  <2>1. sweep' \in [Sweepers -> SweepRows]
    <3>1. DOMAIN sweep' = Sweepers /\ sweep' = [v \in DOMAIN sweep' |-> sweep'[v]]
      BY DEF Rn!SweepCommit, Rn!Overtaking
    <3> QED BY <1>4, <3>1, RestingRow
  <2>2. asset' \in [Assets -> AssetRows]
    <3>1. \A a \in Assets : asset'[a] \in AssetRows
      BY <1>2, <1>3 DEF RenewalsInv, RenewalsShape
    <3>2. DOMAIN asset' = Assets /\ asset' = [a \in DOMAIN asset' |-> asset'[a]]
      BY DEF Rn!SweepCommit
    <3> QED BY <3>1, <3>2
  <2>3. said' \subseteq Assets /\ today' = today
    BY <1>1 DEF Rn!SweepCommit, RenewalsInv, RenewalsShape
  <2> QED BY <2>1, <2>2, <2>3 DEF RenewalsInv, RenewalsShape, Rn!Dates
<1>6. Stamped'
  <2>1. ASSUME NEW a \in Assets PROVE asset'[a].decommissioned <=> asset'[a].status = "decommissioned"
    <3>1. CASE a \in M
      <4>1. sweep[w].read[a] < sweep[w].day => ~asset[a].decommissioned
        BY <1>1, <3>1 DEF Markable
      <4> QED BY <1>3, <3>1, <4>1 DEF RenewalsInv, Stamped
    <3>2. CASE a \notin M
      BY <1>2, <3>2 DEF RenewalsInv, Stamped
    <3> QED BY <3>1, <3>2
  <2>2. ASSUME NEW a \in said' PROVE Rn!Stored(a)' /\ asset'[a].noticed = asset'[a].expires
    <3>1. (a \in said /\ a \notin M) \/ (a \in M /\ sweep[w].read[a] = asset[a].expires)
      BY <2>2 DEF Rn!SweepCommit
    <3>2. CASE a \in M /\ sweep[w].read[a] = asset[a].expires
      <4>1. Rn!Stored(a)
        BY <1>1, <3>2 DEF Markable
      <4> QED BY <1>3, <3>2, <4>1 DEF Rn!Stored
    <3>3. CASE a \in said /\ a \notin M
      BY <1>2, <3>3 DEF RenewalsInv, RenewalsShape, Stamped, Rn!Stored
    <3> QED BY <3>1, <3>2, <3>3
  <2> QED BY <2>1, <2>2 DEF Stamped
<1>7. ASSUME NEW v \in Sweepers, NEW a \in Assets, sweep'[v].read[a] # None PROVE StillDue(sweep[v], a)'
  <2>1. v # w
    BY <1>4, <1>7, RestingRow
  <2>2. sweep[v].read[a] # None /\ StillDue(sweep[v], a)
    BY <1>4, <1>7, <2>1 DEF RenewalsInv
  <2>3. Rn!Sweeping(v)
    BY <2>2, RestingRow DEF Rn!Sweeping
  <2>4. today' = today
    BY DEF Rn!SweepCommit
  <2>5. a \notin sweep'[v].overtaken => a \notin M /\ a \notin sweep[v].overtaken
    BY <1>4, <2>1, <2>3
  <2> QED BY <1>2, <1>4, <2>1, <2>2, <2>4, <2>5 DEF StillDue
<1>8. ASSUME NEW v \in Sweepers, NEW a \in sweep'[v].marked PROVE Markable(v, sweep[v], a)'
  <2>1. v # w
    BY <1>4, <1>8 DEF Rn!Resting
  <2>2. a \in sweep[v].marked /\ Markable(v, sweep[v], a)
    BY <1>4, <1>8, <2>1 DEF RenewalsInv
  <2>3. a \notin M /\ a \in Assets
    <3>1. a \notin M
      BY <2>1, <2>2 DEF Markable
    <3>2. sweep[v].marked \subseteq Assets
      BY DEF RenewalsInv, RenewalsShape, SweepRows
    <3> QED BY <2>2, <3>1, <3>2
  <2>4. asset'[a] = asset[a]
    BY <1>2, <2>3
  <2>5. ASSUME NEW u \in Sweepers, a \in sweep'[u].marked PROVE a \in sweep[u].marked
    <3>1. Rn!Resting.marked = {}
      BY DEF Rn!Resting
    <3>2. u # w
      BY <1>4, <2>5, <3>1
    <3> QED BY <1>4, <2>5, <3>2
  <2> QED BY <1>4, <2>1, <2>2, <2>4, <2>5 DEF Markable, Rn!Stored
<1> QED BY <1>5, <1>6, <1>7, <1>8 DEF RenewalsInv

LEMMA RenewalsNextStep ==
    ASSUME RenewalsInv, Rn!Next \/ UNCHANGED renewalsVars
    PROVE  RenewalsInv'
<1>1. ASSUME Rn!Tick PROVE RenewalsInv'
  <2>1. /\ UNCHANGED <<asset, sweep, said>> /\ today' = today + 1 /\ today' \in Rn!Dates
    BY <1>1, WorkerAssumption DEF Rn!Tick, RenewalsInv, RenewalsShape, Rn!Dates
  <2>2. RenewalsShape' /\ Stamped'
    BY <2>1 DEF RenewalsInv, RenewalsShape, Stamped, Rn!Stored, Rn!Dates
  <2>3. \A w \in Sweepers, a \in Assets : StillDue(sweep[w], a) => StillDue(sweep[w], a)'
    BY <2>1, WorkerAssumption DEF StillDue, RenewalsInv, RenewalsShape, Rn!Dates
  <2>4. \A w \in Sweepers, a \in Assets : Markable(w, sweep[w], a) => Markable(w, sweep[w], a)'
    BY <2>1 DEF Markable, Rn!Stored
  <2>5. \A w \in Sweepers : sweep[w].marked \subseteq Assets
    BY DEF RenewalsInv, RenewalsShape, SweepRows
  <2> QED BY <2>1, <2>2, <2>3, <2>4, <2>5 DEF RenewalsInv
<1>2. ASSUME NEW a \in Assets, NEW date \in Rn!Dates \cup {None}, Rn!InfrastructureAssetCreate(a, date)
      PROVE  RenewalsInv'
  <2> DEFINE x == [Rn!NoAsset EXCEPT !.status = "active", !.expires = date]
  <2>1. x \in AssetRows /\ x.status = "active" /\ x.decommissioned = FALSE
    BY DEF Rn!NoAsset, AssetRows, Rn!Statuses
  <2>2. asset' = [asset EXCEPT ![a] = x] /\ sweep' = Rn!Overtaking({a}) /\ UNCHANGED <<today, said>>
    BY <1>2 DEF Rn!InfrastructureAssetCreate
  <2>3. a \notin said /\ Rn!Unlocked(a)
    BY <1>2 DEF Rn!InfrastructureAssetCreate, RenewalsInv, Stamped, Markable, Rn!Stored, Rn!Unlocked
  <2> HIDE DEF x
  <2> QED BY <2>1, <2>2, <2>3, RowChanged
<1>3. ASSUME NEW a \in Assets, NEW date \in Rn!Dates \cup {None}, NEW status \in Rn!Statuses,
             Rn!InfrastructureAssetUpdate(a, status, date)
      PROVE  RenewalsInv'
  <2> DEFINE x == Rn!Patched(asset[a], status, date)
  <2>1. asset[a] \in AssetRows
    BY DEF RenewalsInv, RenewalsShape
  <2>2. /\ x.status = status /\ x.expires = date /\ (x.decommissioned <=> x.status = "decommissioned")
        /\ x \in AssetRows
        /\ date = asset[a].expires => x.noticed = asset[a].noticed
    <3> DEFINE n == IF date = asset[a].expires THEN asset[a].noticed ELSE None
               z == status = "decommissioned"
    <3>1. n \in Rn!Dates \cup {None} /\ z \in BOOLEAN
      BY <2>1 DEF AssetRows
    <3>2. x = [asset[a] EXCEPT !.status = status, !.expires = date, !.noticed = n, !.decommissioned = z]
      BY DEF Rn!Patched
    <3>3. n = IF date = asset[a].expires THEN asset[a].noticed ELSE None
      OBVIOUS
    <3>4. z <=> status = "decommissioned"
      OBVIOUS
    <3> HIDE DEF n, z, x
    <3> QED BY <2>1, <3>1, <3>2, <3>3, <3>4 DEF AssetRows
  <2>3. /\ asset' = [asset EXCEPT ![a] = x] /\ sweep' = Rn!Overtaking({a}) /\ today' = today
        /\ Rn!Unlocked(a) /\ said' \subseteq said
        /\ a \in said' => date = asset[a].expires /\ a \in said
    BY <1>3 DEF Rn!InfrastructureAssetUpdate
  <2>4. a \in said' => x.status # "absent" /\ x.noticed = x.expires
    BY <2>2, <2>3 DEF RenewalsInv, Stamped, Rn!Statuses
  <2> HIDE DEF x
  <2> QED BY <2>2, <2>3, <2>4, RowChanged
<1>4. ASSUME NEW a \in Assets, Rn!InfrastructureAssetDelete(a) PROVE RenewalsInv'
  <2>1. Rn!NoAsset \in AssetRows /\ Rn!NoAsset.decommissioned = FALSE /\ Rn!NoAsset.status = "absent"
    BY DEF Rn!NoAsset, AssetRows
  <2>2. /\ asset' = [asset EXCEPT ![a] = Rn!NoAsset] /\ sweep' = Rn!Overtaking({a}) /\ today' = today
        /\ Rn!Unlocked(a) /\ said' \subseteq said /\ a \notin said'
    BY <1>4 DEF Rn!InfrastructureAssetDelete
  <2> QED BY <2>1, <2>2, RowChanged
<1>5. ASSUME NEW w \in Sweepers, Rn!SweepStep(w) PROVE RenewalsInv'
  BY <1>5, SweepReads, SweepMarks, SweepStops, SweepCommits DEF Rn!SweepStep
<1>6. CASE UNCHANGED renewalsVars
  BY <1>6 DEF renewalsVars, RenewalsInv, RenewalsShape, Stamped, StillDue, Markable, Rn!Stored
<1> QED BY <1>1, <1>2, <1>3, <1>4, <1>5, <1>6 DEF Rn!Next

LEMMA RenewalsInvHolds == RenewalsInv => Rn!TypeOK
<1> SUFFICES ASSUME RenewalsInv PROVE Rn!TypeOK
  OBVIOUS
<1>1. \A a \in Assets : asset[a] \in AssetRows
  BY DEF RenewalsInv, RenewalsShape
<1>2. \A v, w \in Sweepers : v # w => sweep[v].marked \cap sweep[w].marked = {}
  BY DEF RenewalsInv, Markable
<1> QED BY <1>1, <1>2 DEF RenewalsInv, RenewalsShape, Stamped, Rn!TypeOK, AssetRows

(* What a sweep that nobody overtook marks was still due.                  *)
LEMMA Announces ==
    ASSUME RenewalsInv, NEW w \in Sweepers, Rn!SweepCommit(w), NEW a \in sweep[w].marked \ sweep[w].overtaken
    PROVE  /\ a \notin said /\ asset[a].status \in Rn!Live
           /\ asset[a].expires <= today + Horizon
           /\ asset'[a].status = "expired" => asset[a].expires < today
<1>1. a \in Assets /\ Markable(w, sweep[w], a)
  BY DEF RenewalsInv, RenewalsShape, SweepRows
<1>2. sweep[w].read[a] # None /\ StillDue(sweep[w], a)
  BY <1>1 DEF RenewalsInv, Markable
<1>3. /\ asset[a].expires = sweep[w].read[a] /\ asset[a].status = "active"
      /\ asset[a].noticed # asset[a].expires
  BY <1>2 DEF StillDue
<1>4. a \notin said
  BY <1>3 DEF RenewalsInv, Stamped
<1>5. sweep[w].read[a] \in Rn!Dates
  BY <1>1, <1>2 DEF RenewalsInv, RenewalsShape, SweepRows
<1>6. asset[a].expires <= today + Horizon
  BY <1>2, <1>3, <1>5, WorkerAssumption DEF StillDue, Rn!Dates, RenewalsInv, RenewalsShape
<1>7. asset'[a].status = "expired" => sweep[w].read[a] < sweep[w].day
  <2>1. asset'[a] = Rn!Marked(w, a)
    BY <1>1 DEF Rn!SweepCommit
  <2>2. asset[a] \in AssetRows
    BY <1>1 DEF RenewalsInv, RenewalsShape
  <2>3. ~(sweep[w].read[a] < sweep[w].day) => asset'[a].status = asset[a].status
    BY <2>1, <2>2 DEF Rn!Marked, Rn!Passed, AssetRows
  <2> QED BY <1>3, <2>3
<1>8. asset'[a].status = "expired" => asset[a].expires < today
  BY <1>2, <1>3, <1>5, <1>7 DEF StillDue, Rn!Dates, RenewalsInv, RenewalsShape
<1> QED BY <1>3, <1>4, <1>6, <1>8 DEF Rn!Live

(* The row of an asset is marked by one sweep at a time, and a date is     *)
(* announced once by sweeps that nobody overtook, and only when it is in   *)
(* sight (sweepExpiringAssets; the schema: "an unchanged date is announced *)
(* once").                                                                 *)
THEOREM AlwaysAnnouncedOnce == AllSpec => AnnouncedOnce
<1>1. AllInit => RenewalsInv
  BY RenewalsInit DEF AllInit
<1>2. RenewalsInv /\ [AllNext]_allVars => RenewalsInv'
  <2>1. [AllNext]_allVars => Rn!Next \/ UNCHANGED renewalsVars
    BY DEF AllNext, OutboxNext, RenewalsNext, InboxNext, allVars
  <2> QED BY <2>1, RenewalsNextStep
<1>3. RenewalsInv => Rn!TypeOK
  BY RenewalsInvHolds
<1>4. RenewalsInv => [ \A w \in Sweepers : Rn!SweepCommit(w) => \A a \in sweep[w].marked \ sweep[w].overtaken :
                         /\ a \notin said /\ asset[a].status \in Rn!Live
                         /\ asset[a].expires <= today + Horizon
                         /\ asset'[a].status = "expired" => asset[a].expires < today ]_(Rn!vars)
  BY Announces
<1> QED BY <1>1, <1>2, <1>3, <1>4, PTL DEF AllSpec, AnnouncedOnce, Rn!NoticeOnce
=============================================================================
