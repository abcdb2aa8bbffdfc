---------------------------- MODULE ClientProofs ----------------------------
(***************************************************************************)
(* Proofs about what is promised to clients and kept about them, for every *)
(* set of the rows and requests concerned: quotes and their acceptance     *)
(* (QuoteAcceptance), tickets and their targets (Tickets), and the records *)
(* of companies, contacts, leads and deals (Crm).                          *)
(*                                                                         *)
(* Quotes: what a transaction has locked is still as it found it, and no   *)
(* two hold the same row; so an acceptance writes what it decided on, and  *)
(* adds to the contract of a project that nobody else is adding to.        *)
(*                                                                         *)
(* Tickets: a stamp is there exactly while the status or an answer asks    *)
(* for it, and is no later than now; so a step that sets one of a ticket   *)
(* that is late leaves it late, unless the request began in time.          *)
(*                                                                         *)
(* Crm: no step takes back a row, the company of a deal or what a lead     *)
(* became.  A request that resolved an activity before its lead was        *)
(* converted says so; one that did after names what the lead became.       *)
(***************************************************************************)
EXTENDS QuoteAcceptance, MCOffice, FiniteSetTheorems, WellFoundedInduction, TLAPS

(* Every step is one of these; the proofs below go through them in order.  *)
LEMMA NextCases ==
    ASSUME Next
    PROVE  \/ \E q \in Quotes, g \in Groups \cup {None}, p \in MadeProjects \cup {None} : Create(q, g, p)
           \/ \E q \in Quotes, g \in Groups \cup {None}, p \in MadeProjects \cup {None}, lapsed \in BOOLEAN :
                Update(q, g, p, lapsed)
           \/ \E q \in Quotes : Delete(q)
           \/ \E q, d \in Quotes : Duplicate(q, d)
           \/ \E q, d \in Quotes, g \in Groups : DuplicateAsOption(q, d, g)
           \/ \E g \in Groups, qs \in SUBSET Quotes : CreateGroup(g, qs)
           \/ \E t \in Txs, q \in Quotes : SendBegin(t, q)
           \/ \E t \in Txs, q \in Quotes : AcceptBegin(t, q)
           \/ \E t \in Txs : SendCommit(t)
           \/ \E t \in Txs : Choose(t)
           \/ \E t \in Txs, r \in Quotes : LockRival(t, r)
           \/ \E t \in Txs, p \in Projects \cup {None}, as \in {"base", "addition", "none"} : Resolve(t, p, as)
           \/ \E t \in Txs : CommitAccept(t)
           \/ \E t \in Txs : RollBack(t)
           \/ \E q \in Quotes : Decline(q)
           \/ \E q \in Quotes : Lapse(q)
           \/ ExpireDueQuotes
           \/ \E p \in Projects, price \in Prices \cup {None} : CreateProject(p, price)
           \/ \E p \in Projects, price \in Prices \cup {None} : SetPrice(p, price)
           \/ \E r \in Revisions, p \in Projects, q \in Quotes, amount \in Amounts : CreateRevision(r, p, q, amount)
           \/ \E r \in Revisions, q \in Quotes, amount \in Amounts : UpdateRevision(r, q, amount)
           \/ \E r \in Revisions : AcceptRevision(r)
           \/ \E r \in Revisions, from, to \in {"draft", "sent", "declined", "withdrawn", "deleted"} :
                MoveRevision(r, from, to)
BY DEF Next, Drafting, Answering, Contracting, Finish

-----------------------------------------------------------------------------
(* Types *)

(* The first state has the types and refers to nothing.                    *)
LEMMA TypeInit == Init => TypeOK
BY QuoteAcceptanceAssumption
DEF Init, TypeOK, Shapes, References, Absent, Blank, Idle, QuoteRows, RevisionRows, TxRows, Answered, Made

(* A row some of whose columns are written is a row still.                 *)
LEMMA QuotesAsWritten ==
    /\ Absent \in QuoteRows
    /\ \A g \in Groups \cup {None}, p \in Projects \cup {None} :
         [status |-> "draft", group |-> g, project |-> p, lapsed |-> FALSE] \in QuoteRows
    /\ \A row \in QuoteRows : row.project \in Projects \cup {None} /\ row.group \in Groups \cup {None}
    /\ \A row \in QuoteRows, st \in {"sent"} \cup Answered : [row EXCEPT !.status = st] \in QuoteRows
    /\ \A row \in QuoteRows, p \in Projects \cup {None} :
         [row EXCEPT !.status = "accepted", !.project = p] \in QuoteRows
    /\ \A row \in QuoteRows, g \in Groups \cup {None} : [row EXCEPT !.group = g] \in QuoteRows
    /\ \A row \in QuoteRows, g \in Groups \cup {None}, p \in Projects \cup {None}, lapsed \in BOOLEAN :
         [row EXCEPT !.group = g, !.project = p, !.lapsed = lapsed] \in QuoteRows
    /\ \A row \in QuoteRows : [row EXCEPT !.lapsed = TRUE] \in QuoteRows
BY DEF QuoteRows, Answered, Absent

LEMMA RevisionsAsWritten ==
    /\ Blank \in RevisionRows /\ Deleted \in RevisionRows
    /\ \A row \in RevisionRows, to \in {"sent", "accepted", "declined", "withdrawn"} :
         [row EXCEPT !.status = to] \in RevisionRows
    /\ \A row \in RevisionRows, q \in Quotes, amount \in Int :
         [row EXCEPT !.quote = q, !.amount = amount] \in RevisionRows
<1>1. Blank \in RevisionRows /\ Deleted \in RevisionRows
  BY DEF RevisionRows, Blank, Deleted
<1>2. \A row \in RevisionRows, to \in {"sent", "accepted", "declined", "withdrawn"} :
         [row EXCEPT !.status = to] \in RevisionRows
  BY DEF RevisionRows
<1>3. \A row \in RevisionRows, q \in Quotes, amount \in Int :
         [row EXCEPT !.quote = q, !.amount = amount] \in RevisionRows
  BY DEF RevisionRows
<1> QED
  BY <1>1, <1>2, <1>3

LEMMA TxsAsWritten ==
    /\ Idle \in TxRows
    /\ \A q \in Quotes : [Idle EXCEPT !.step = "sending", !.quote = q] \in TxRows
    /\ \A q \in Quotes, g \in Groups \cup {None} :
         [Idle EXCEPT !.step = "opened", !.quote = q, !.group = g] \in TxRows
    /\ \A row \in TxRows : [row EXCEPT !.step = "choosing"] \in TxRows
    /\ \A row \in TxRows, rs \in SUBSET Quotes :
         [row EXCEPT !.step = "choosing", !.rivals = rs] \in TxRows
    /\ \A row \in TxRows, rs, ls \in SUBSET Quotes : [row EXCEPT !.rivals = rs, !.losers = ls] \in TxRows
    /\ \A row \in TxRows, p \in Projects \cup {None}, as \in {"base", "addition", "none"},
          r \in Revisions \cup {None}, seen \in {"absent", "draft", "sent"} :
         [row EXCEPT !.step = "applying", !.project = p, !.as = as, !.revision = r, !.seen = seen] \in TxRows
<1>1. Idle \in TxRows /\ \A q \in Quotes : [Idle EXCEPT !.step = "sending", !.quote = q] \in TxRows
  BY DEF TxRows, Idle
<1>2. \A q \in Quotes, g \in Groups \cup {None} :
         [Idle EXCEPT !.step = "opened", !.quote = q, !.group = g] \in TxRows
  BY DEF TxRows, Idle
<1>3. \A row \in TxRows : [row EXCEPT !.step = "choosing"] \in TxRows
  BY DEF TxRows
<1>4. \A row \in TxRows, rs \in SUBSET Quotes : [row EXCEPT !.step = "choosing", !.rivals = rs] \in TxRows
  BY DEF TxRows
<1>5. \A row \in TxRows, rs, ls \in SUBSET Quotes : [row EXCEPT !.rivals = rs, !.losers = ls] \in TxRows
  BY DEF TxRows
<1>6. ASSUME NEW row \in TxRows, NEW p \in Projects \cup {None}, NEW as \in {"base", "addition", "none"},
             NEW r \in Revisions \cup {None}, NEW seen \in {"absent", "draft", "sent"}
      PROVE  [row EXCEPT !.step = "applying", !.project = p, !.as = as, !.revision = r, !.seen = seen] \in TxRows
  BY ZenonT(40) DEF TxRows
<1> QED
  BY <1>1, <1>2, <1>3, <1>4, <1>5, <1>6

(* Every step keeps the types of the rows.                                 *)
LEMMA ShapesNext == Shapes /\ [Next]_vars => Shapes'
<1> SUFFICES ASSUME Shapes, [Next]_vars PROVE Shapes'
  OBVIOUS
<1>0. /\ quote \in [Quotes -> QuoteRows] /\ revision \in [Revisions -> RevisionRows]
      /\ tx \in [Txs -> TxRows] /\ (\A t \in Txs : tx[t].step # "idle" => tx[t].quote # None)
      /\ group \in [Groups -> [made : BOOLEAN, decided : Quotes \cup {None}]]
      /\ project \in [Projects -> [made : BOOLEAN, price : Nat \cup {None}]]
      /\ overlapped \subseteq Quotes
  BY DEF Shapes
<1>1. Absent \in QuoteRows /\ Idle \in TxRows /\ Deleted \in RevisionRows
  BY QuotesAsWritten, RevisionsAsWritten, TxsAsWritten
<1>2. MadeProjects \subseteq Projects
  BY DEF MadeProjects
<1>3. ASSUME NEW q \in Quotes, NEW g \in Groups \cup {None}, NEW p \in MadeProjects \cup {None}, Create(q, g, p)
      PROVE  Shapes'
  BY <1>0, <1>3, <1>2, QuotesAsWritten DEF Create, Shapes
<1>4. ASSUME NEW q \in Quotes, NEW g \in Groups \cup {None}, NEW p \in MadeProjects \cup {None},
             NEW lapsed \in BOOLEAN, Update(q, g, p, lapsed)
      PROVE  Shapes'
  <2>1. [quote[q] EXCEPT !.group = g, !.project = p, !.lapsed = lapsed] \in QuoteRows
    BY <1>0, <1>2, QuotesAsWritten
  <2>2. quote' \in [Quotes -> QuoteRows]
    BY <1>0, <2>1, <1>4 DEF Update
  <2> QED
    BY <1>0, <2>2, <1>4 DEF Update, Shapes
<1>5. ASSUME NEW q \in Quotes, Delete(q) PROVE Shapes'
  BY <1>0, <1>5, <1>1 DEF Delete, Shapes
<1>6. ASSUME NEW q \in Quotes, NEW d \in Quotes, Duplicate(q, d) PROVE Shapes'
  <2>1. [Absent EXCEPT !.status = "draft", !.project = quote[q].project] \in QuoteRows
    <3>1. quote[q].project \in Projects \cup {None}
      BY <1>0, QuotesAsWritten
    <3> QED
      BY <3>1 DEF Absent, QuoteRows
  <2> QED
    BY <1>0, <1>6, <2>1 DEF Duplicate, Shapes
<1>7. ASSUME NEW q \in Quotes, NEW d \in Quotes, NEW g \in Groups, DuplicateAsOption(q, d, g) PROVE Shapes'
  <2>1. [quote[q] EXCEPT !.group = g] \in QuoteRows
    BY <1>0, QuotesAsWritten
  <2>2. [Absent EXCEPT !.status = "draft", !.group = g, !.project = quote[q].project] \in QuoteRows
    <3>1. quote[q].project \in Projects \cup {None}
      BY <1>0, QuotesAsWritten
    <3> QED
      BY <3>1 DEF Absent, QuoteRows
  <2>3. quote' \in [Quotes -> QuoteRows]
    BY <1>0, <1>7, <2>1, <2>2 DEF DuplicateAsOption
  <2>4. group' \in [Groups -> [made : BOOLEAN, decided : Quotes \cup {None}]]
    <3>1. CASE UNCHANGED group
      BY <1>0, <3>1
    <3>2. CASE group' = [group EXCEPT ![g].made = TRUE]
      BY <1>0, <3>2
    <3> QED
      BY <1>0, <1>7, <3>1, <3>2 DEF DuplicateAsOption, Stored
  <2> QED
    BY <1>0, <1>7, <2>3, <2>4 DEF DuplicateAsOption, Shapes
<1>8. ASSUME NEW g \in Groups, NEW qs \in SUBSET Quotes, CreateGroup(g, qs) PROVE Shapes'
  <2>1. group' = [group EXCEPT ![g].made = TRUE]
    BY <1>0, <1>8 DEF CreateGroup, Stored
  <2>2. group' \in [Groups -> [made : BOOLEAN, decided : Quotes \cup {None}]]
    BY <1>0, <2>1
  <2>3. \A q \in Quotes : [quote[q] EXCEPT !.group = g] \in QuoteRows
    BY <1>0, QuotesAsWritten
  <2>4. quote' \in [Quotes -> QuoteRows]
    BY <1>0, <1>8, <2>3 DEF CreateGroup
  <2> QED
    BY <1>0, <1>8, <2>2, <2>4 DEF CreateGroup, Shapes
<1>9. ASSUME NEW t \in Txs, NEW q \in Quotes, SendBegin(t, q) PROVE Shapes'
  <2>1. [Idle EXCEPT !.step = "sending", !.quote = q] \in TxRows
    BY <1>0, TxsAsWritten
  <2>2. tx' \in [Txs -> TxRows] /\ \A s \in Txs : tx'[s].quote \in {tx[s].quote, q} /\ (s # t => tx'[s] = tx[s])
    BY <1>0, <1>9, <2>1 DEF SendBegin, Idle
  <2>3. tx'[t].quote = q /\ q # None
    BY <1>0, <1>9, QuoteAcceptanceAssumption DEF SendBegin, Idle
  <2> QED
    BY <1>0, <1>9, <2>2, <2>3, SMTT(30) DEF SendBegin, Shapes
<1>10. ASSUME NEW t \in Txs, NEW q \in Quotes, AcceptBegin(t, q) PROVE Shapes'
  <2>1. [Idle EXCEPT !.step = "opened", !.quote = q, !.group = quote[q].group] \in TxRows
    BY <1>0, QuotesAsWritten, TxsAsWritten
  <2>2. tx' \in [Txs -> TxRows] /\ \A s \in Txs : tx'[s].quote \in {tx[s].quote, q} /\ (s # t => tx'[s] = tx[s])
    BY <1>0, <1>10, <2>1 DEF AcceptBegin, Idle
  <2>3. tx'[t].quote = q /\ q # None
    BY <1>0, <1>10, QuoteAcceptanceAssumption DEF AcceptBegin, Idle
  <2> QED
    BY <1>0, <1>10, <2>2, <2>3 DEF AcceptBegin, Shapes
<1>11. ASSUME NEW t \in Txs, SendCommit(t) PROVE Shapes'
  <2>1. \A o \in Quotes : [quote[o] EXCEPT !.status = "sent"] \in QuoteRows
    BY <1>0, QuotesAsWritten
  <2>2. quote' \in [Quotes -> QuoteRows]
    BY <1>0, <1>11, <2>1, ZenonT(40) DEF SendCommit
  <2> QED
    BY <1>0, <1>11, <1>1, <2>2 DEF SendCommit, Idle, Shapes
<1>12. ASSUME NEW t \in Txs, Choose(t) PROVE Shapes'
  <2>1. Rivals(tx[t].quote, tx[t].group) \subseteq Quotes
    BY <1>0 DEF Rivals, Options
  <2>2. [tx[t] EXCEPT !.step = "choosing"] \in TxRows
    BY <1>0, TxsAsWritten
  <2>3. [tx[t] EXCEPT !.step = "choosing", !.rivals = Rivals(tx[t].quote, tx[t].group)] \in TxRows
    BY <1>0, <2>1, TxsAsWritten
  <2>4. tx' \in [Txs -> TxRows]
    BY <1>0, <1>12, <2>2, <2>3 DEF Choose
  <2>5. tx[t].step = "opened" /\ \A s \in Txs : tx'[s].quote = tx[s].quote /\ (s # t => tx'[s].step = tx[s].step)
    BY <1>0, <1>12 DEF Choose, TxRows
  <2>6. {tx[s].quote : s \in {s \in Txs : tx[s].step = "sending" /\ quote[tx[s].quote].group = tx[t].group}}
            \subseteq Quotes
    BY <1>0, QuoteAcceptanceAssumption DEF TxRows
  <2>7. overlapped' \subseteq Quotes
    BY <1>0, <1>12, <2>6 DEF Choose
  <2> QED
    BY <1>0, <1>12, <2>4, <2>5, <2>7 DEF Choose, Shapes
<1>13. ASSUME NEW t \in Txs, NEW r \in Quotes, LockRival(t, r) PROVE Shapes'
  <2> DEFINE rs == tx[t].rivals \ {r}
             ls == IF Loses(r) THEN tx[t].losers \cup {r} ELSE tx[t].losers
  <2>1. rs \in SUBSET Quotes /\ ls \in SUBSET Quotes
    BY <1>0 DEF TxRows
  <2>2. tx' \in [Txs -> TxRows]
    <3>1. [tx[t] EXCEPT !.rivals = rs, !.losers = ls] \in TxRows
      BY <1>0, <2>1, TxsAsWritten
    <3> QED
      BY <1>0, <1>13, <3>1, SMTT(30) DEF LockRival
  <2>3. \A s \in Txs : tx'[s].quote = tx[s].quote /\ tx'[s].step = tx[s].step
    BY <1>0, <1>13 DEF LockRival, TxRows
  <2> QED
    BY <1>0, <1>13, <2>2, <2>3 DEF LockRival, Shapes
<1>14. ASSUME NEW t \in Txs, NEW p \in Projects \cup {None}, NEW as \in {"base", "addition", "none"}, Resolve(t, p, as)
       PROVE  Shapes'
  <2>1. PICK r \in Revisions \cup {None} :
          /\ r # None => revision[r].status \in {"draft", "sent"}
          /\ tx' = [tx EXCEPT ![t].step = "applying", ![t].project = p, ![t].as = as, ![t].revision = r,
                              ![t].seen = IF r = None THEN "absent" ELSE revision[r].status]
    BY <1>0, <1>14 DEF Resolve, Named
  <2>2. PICK seen \in {"absent", "draft", "sent"} : seen = IF r = None THEN "absent" ELSE revision[r].status
    BY <1>0, <2>1, SMTT(30)
  <2>3. [tx[t] EXCEPT !.step = "applying", !.project = p, !.as = as, !.revision = r, !.seen = seen] \in TxRows
    <3>1. tx[t] \in TxRows
      BY <1>0
    <3> QED
      BY <3>1, TxsAsWritten, ZenonT(40)
  <2>4. tx' \in [Txs -> TxRows]
    BY <1>0, <2>1, <2>2, <2>3
  <2>5. \A s \in Txs : tx'[s].quote = tx[s].quote /\ (s # t => tx'[s].step = tx[s].step)
    BY <1>0, <2>1 DEF TxRows
  <2>6. tx[t].step = "choosing"
    BY <1>0, <1>14 DEF Resolve
  <2> QED
    BY <1>0, <1>14, <2>4, <2>5, <2>6 DEF Resolve, Shapes
<1>15. ASSUME NEW t \in Txs, CommitAccept(t) PROVE Shapes'
  <2> DEFINE q == tx[t].quote
             p == tx[t].project
             g == tx[t].group
  <2>1. q \in Quotes \cup {None} /\ p \in Projects \cup {None} /\ g \in Groups \cup {None}
    BY <1>0 DEF TxRows
  <2>2. quote' \in [Quotes -> QuoteRows]
    <3>1. ASSUME NEW o \in Quotes PROVE quote'[o] \in QuoteRows
      <4>0. quote[o] \in QuoteRows
        BY <1>0
      <4>1. CASE o = q
        <5>1. quote'[o] = [quote[o] EXCEPT !.status = "accepted", !.project = p]
          BY <1>0, <1>15, <4>1 DEF CommitAccept
        <5> QED
          BY <4>0, <5>1, <2>1 DEF QuoteRows, Answered
      <4>2. CASE o # q
        <5>1. quote'[o] = [quote[o] EXCEPT !.status = "declined"] \/ quote'[o] = quote[o]
          BY <1>0, <1>15, <4>2 DEF CommitAccept
        <5> QED
          BY <4>0, <5>1 DEF QuoteRows, Answered
      <4> QED
        BY <1>0, <4>1, <4>2
    <3>2. quote' = [o \in Quotes |-> quote'[o]]
      BY <1>0, <1>15 DEF CommitAccept
    <3> QED
      BY <1>0, <3>1, <3>2
  <2>3. q \in Quotes /\ OneTime[q] \in Nat
    BY <1>0, <1>15, <2>1, QuoteAcceptanceAssumption DEF CommitAccept
  <2>4. group' \in [Groups -> [made : BOOLEAN, decided : Quotes \cup {None}]]
    <3>1. CASE UNCHANGED group
      BY <1>0, <3>1
    <3>2. CASE group' = [group EXCEPT ![g].decided = q]
      BY <1>0, <2>1, <3>2
    <3> QED
      BY <1>0, <1>15, <3>1, <3>2 DEF CommitAccept
  <2>5. project' \in [Projects -> [made : BOOLEAN, price : Nat \cup {None}]]
    <3>1. CASE p = None
      <4>1. project' = project
        BY <1>0, <1>15, <3>1 DEF CommitAccept
      <4> QED
        BY <1>0, <4>1
    <3>2. CASE p # None
      <4>1. PICK price \in Nat \cup {None} : project' = [project EXCEPT ![p] = [made |-> TRUE, price |-> price]]
        BY <1>0, <1>15, <2>1, <2>3, <3>2 DEF CommitAccept
      <4> QED
        BY <1>0, <4>1
    <3> QED
      BY <1>0, <3>1, <3>2
  <2>6. revision' \in [Revisions -> RevisionRows]
    <3>1. CASE UNCHANGED revision
      BY <1>0, <3>1
    <3>2. ASSUME NEW r \in Revisions, revision' = [revision EXCEPT ![r] = Addition(t, r)]
          PROVE  revision' \in [Revisions -> RevisionRows]
      <4>1. [status |-> "accepted", project |-> p, quote |-> q, amount |-> OneTime[q]] \in RevisionRows
        BY <1>0, <2>1, <2>3 DEF RevisionRows
      <4>2. [revision[r] EXCEPT !.status = "accepted"] \in RevisionRows
        BY <1>0, RevisionsAsWritten
      <4>3. Addition(t, r) \in RevisionRows
        BY <1>0, <4>1, <4>2 DEF Addition
      <4> QED
        BY <1>0, <3>2, <4>3
    <3> QED
      BY <1>0, <1>15, <3>1, <3>2 DEF CommitAccept
  <2>7. tx' \in [Txs -> TxRows] /\ (\A s \in Txs : tx'[s].step # "idle" => tx'[s].quote # None)
    BY <1>0, <1>15, <1>1 DEF CommitAccept, Idle
  <2> QED
    BY <1>0, <1>15, <2>2, <2>4, <2>5, <2>6, <2>7 DEF CommitAccept, Shapes
<1>16. ASSUME NEW t \in Txs, RollBack(t) PROVE Shapes'
  BY <1>0, <1>16, <1>1 DEF RollBack, Idle, Shapes
<1>17. ASSUME NEW q \in Quotes, Decline(q) PROVE Shapes'
  <2>1. [quote[q] EXCEPT !.status = "declined"] \in QuoteRows
    BY <1>0, QuotesAsWritten DEF Answered
  <2> QED
    BY <1>0, <1>17, <2>1 DEF Decline, Shapes
<1>18. ASSUME NEW q \in Quotes, Lapse(q) PROVE Shapes'
  <2>1. [quote[q] EXCEPT !.lapsed = TRUE] \in QuoteRows
    BY <1>0, QuotesAsWritten
  <2> QED
    BY <1>0, <1>18, <2>1 DEF Lapse, Shapes
<1>19. ASSUME ExpireDueQuotes PROVE Shapes'
  <2>1. \A q \in Quotes : [quote[q] EXCEPT !.status = "expired"] \in QuoteRows
    BY <1>0, QuotesAsWritten DEF Answered
  <2> QED
    BY <1>0, <1>19, <2>1 DEF ExpireDueQuotes, Shapes
<1>20. ASSUME NEW p \in Projects, NEW price \in Prices \cup {None}, CreateProject(p, price) PROVE Shapes'
  BY <1>0, <1>20, QuoteAcceptanceAssumption DEF CreateProject, Shapes
<1>21. ASSUME NEW p \in Projects, NEW price \in Prices \cup {None}, SetPrice(p, price) PROVE Shapes'
  BY <1>0, <1>21, QuoteAcceptanceAssumption DEF SetPrice, Shapes
<1>22. ASSUME NEW r \in Revisions, NEW p \in Projects, NEW q \in Quotes, NEW amount \in Amounts,
              CreateRevision(r, p, q, amount)
       PROVE  Shapes'
  BY <1>0, <1>22, QuoteAcceptanceAssumption DEF CreateRevision, RevisionRows, Shapes
<1>23. ASSUME NEW r \in Revisions, NEW q \in Quotes, NEW amount \in Amounts, UpdateRevision(r, q, amount)
       PROVE  Shapes'
  <2>1. amount \in Int
    BY <1>0, QuoteAcceptanceAssumption
  <2>2. [revision[r] EXCEPT !.quote = q, !.amount = amount] \in RevisionRows
    BY <1>0, <2>1, RevisionsAsWritten
  <2> QED
    BY <1>0, <1>23, <2>2 DEF UpdateRevision, Shapes
<1>24. ASSUME NEW r \in Revisions, AcceptRevision(r) PROVE Shapes'
  <2>1. [revision[r] EXCEPT !.status = "accepted"] \in RevisionRows
    BY <1>0, RevisionsAsWritten
  <2> QED
    BY <1>0, <1>24, <2>1 DEF AcceptRevision, Shapes
<1>25. ASSUME NEW r \in Revisions, NEW from \in {"draft", "sent", "declined", "withdrawn", "deleted"},
              NEW to \in {"draft", "sent", "declined", "withdrawn", "deleted"}, MoveRevision(r, from, to)
       PROVE  Shapes'
  <2>1. CASE to = "deleted"
    <3>1. revision' = [revision EXCEPT ![r] = Deleted]
      BY <1>25, <2>1 DEF MoveRevision
    <3>2. revision' \in [Revisions -> RevisionRows]
      BY <1>0, <1>1, <3>1
    <3> QED
      BY <1>0, <1>25, <3>2 DEF MoveRevision, Shapes
  <2>2. CASE to \in {"sent", "declined", "withdrawn"}
    <3>1. revision' = [revision EXCEPT ![r] = [revision[r] EXCEPT !.status = to]]
      BY <1>25, <2>2 DEF MoveRevision
    <3>2. [revision[r] EXCEPT !.status = to] \in RevisionRows
      BY <1>0, <2>2, RevisionsAsWritten
    <3>3. revision' \in [Revisions -> RevisionRows]
      BY <1>0, <3>1, <3>2
    <3> QED
      BY <1>0, <1>25, <3>3 DEF MoveRevision, Shapes
  <2> QED
    BY <1>0, <1>25, <2>1, <2>2 DEF MoveRevision, Shapes
<1>26. ASSUME UNCHANGED vars PROVE Shapes'
  BY <1>0, <1>26 DEF vars, Shapes
<1> QED
  <2> HIDE DEF vars
  <2>1. CASE UNCHANGED vars
    BY <2>1, <1>26
  <2>2. CASE Next
    BY <2>2, NextCases, <1>3, <1>4, <1>5, <1>6, <1>7, <1>8, <1>9, <1>10, <1>11, <1>12, <1>13, <1>14, <1>15, <1>16,
       <1>17, <1>18, <1>19, <1>20, <1>21, <1>22, <1>23, <1>24, <1>25, Zenon
  <2> QED
    BY <2>1, <2>2

(* Every step keeps the rows that others refer to.                         *)
LEMMA ReferencesNext == Shapes /\ Shapes' /\ References /\ [Next]_vars => References'
<1> SUFFICES ASSUME Shapes, Shapes', References, [Next]_vars PROVE References'
  OBVIOUS
<1>0. /\ quote \in [Quotes -> QuoteRows] /\ revision \in [Revisions -> RevisionRows] /\ tx \in [Txs -> TxRows]
      /\ group \in [Groups -> [made : BOOLEAN, decided : Quotes \cup {None}]]
      /\ project \in [Projects -> [made : BOOLEAN, price : Nat \cup {None}]]
  BY DEF Shapes
<1> USE QuoteAcceptanceAssumption DEF Shapes, References, QuoteRows, RevisionRows, TxRows, Made
<1>1. ASSUME NEW q \in Quotes, NEW g \in Groups \cup {None}, NEW p \in MadeProjects \cup {None},
             Create(q, g, p)
      PROVE  References'
  BY <1>1 DEF Create, OpenGroup, MadeProjects
<1>2. ASSUME NEW q \in Quotes, NEW g \in Groups \cup {None}, NEW p \in MadeProjects \cup {None}, NEW lapsed \in BOOLEAN,
             Update(q, g, p, lapsed)
      PROVE  References'
  BY <1>2 DEF Update, OpenGroup, MadeProjects
<1>3. ASSUME NEW q \in Quotes, Delete(q) PROVE References'
  BY <1>3 DEF Delete, Absent
<1>4. ASSUME NEW q \in Quotes, NEW d \in Quotes, Duplicate(q, d) PROVE References'
  BY <1>4 DEF Duplicate, Absent
<1>5. ASSUME NEW q \in Quotes, NEW d \in Quotes, NEW g \in Groups,
             DuplicateAsOption(q, d, g)
      PROVE  References'
  <2> HIDE QuoteAcceptanceAssumption DEF Shapes, References, QuoteRows, RevisionRows, TxRows, Made
  <2>1. group' \in {group, [group EXCEPT ![g].made = TRUE]} /\ group'[g].made
    BY <1>0, <1>5, QuoteAcceptanceAssumption DEF DuplicateAsOption, OpenGroup, Stored
  <2>2. \A h \in Groups : group[h].made => group'[h].made
    BY <1>0, <2>1
  <2>3. \A o \in Quotes :
           /\ Made(o) => Made(o)'
           /\ quote'[o].group \in {quote[o].group, g}
           /\ quote'[o].project \in {quote[o].project, quote[q].project}
    BY <1>0, <1>5 DEF DuplicateAsOption, Absent, QuoteRows, Made
  <2>4. UNCHANGED <<project, revision, tx>>
    BY <1>5 DEF DuplicateAsOption
  <2> QED
    <3>1. \A o \in Quotes : quote[o].group \in Groups \cup {None} /\ quote[o].project \in Projects \cup {None}
      BY <1>0 DEF QuoteRows
    <3>2. \A o \in Quotes :
             /\ quote'[o].group # None => group'[quote'[o].group].made
             /\ quote'[o].project # None => project'[quote'[o].project].made
      BY <2>1, <2>2, <2>3, <2>4, <3>1 DEF References
    <3>3. \A r \in Revisions : revision[r].status \notin {"absent", "deleted"} => revision[r].quote \in Quotes
      BY <1>0 DEF References, RevisionRows
    <3> QED
      BY <2>3, <2>4, <3>2, <3>3 DEF References, Made
<1>6. ASSUME NEW g \in Groups, NEW qs \in SUBSET Quotes, CreateGroup(g, qs) PROVE References'
  BY <1>6 DEF CreateGroup, Stored
<1>7. ASSUME NEW t \in Txs, NEW q \in Quotes, SendBegin(t, q) PROVE References'
  BY <1>7 DEF SendBegin, Idle
<1>8. ASSUME NEW t \in Txs, NEW q \in Quotes, AcceptBegin(t, q) PROVE References'
  BY <1>8 DEF AcceptBegin, Idle
<1>9. ASSUME NEW t \in Txs, SendCommit(t) PROVE References'
  BY <1>9 DEF SendCommit, Idle
<1>10. ASSUME NEW t \in Txs, Choose(t) PROVE References'
  BY <1>10 DEF Choose
<1>11. ASSUME NEW t \in Txs, NEW r \in Quotes, LockRival(t, r) PROVE References'
  BY <1>11 DEF LockRival
<1>12. ASSUME NEW t \in Txs, NEW p \in Projects \cup {None}, NEW as \in {"base", "addition", "none"},
             Resolve(t, p, as)
      PROVE  References'
  <2> HIDE QuoteAcceptanceAssumption DEF Shapes, References, QuoteRows, RevisionRows, TxRows, Made
  <2>1. PICK r \in Revisions \cup {None} :
          /\ r # None => revision[r].status \in {"draft", "sent"}
          /\ tx' = [tx EXCEPT ![t].step = "applying", ![t].project = p, ![t].as = as, ![t].revision = r,
                              ![t].seen = IF r = None THEN "absent" ELSE revision[r].status]
    BY <1>12 DEF Resolve, Named
  <2>2. as = "addition" => p # None
    BY <1>12 DEF Resolve, Ways
  <2>3. \A s \in Txs :
           /\ tx'[s].as = "addition" => tx'[s].project # None
           /\ tx'[s].revision # None => tx'[s].seen # "absent"
    <3>1. \A s \in Txs \ {t} : tx'[s] = tx[s]
      BY <1>0, <2>1
    <3>2. tx'[t].project = p /\ tx'[t].as = as /\ tx'[t].revision = r
      BY <1>0, <2>1 DEF TxRows
    <3>3. r # None => tx'[t].seen # "absent"
      BY <1>0, <2>1 DEF TxRows
    <3> QED
      BY <3>1, <3>2, <3>3, <2>2 DEF References
  <2>4. UNCHANGED <<quote, group, project, revision>>
    BY <1>12 DEF Resolve
  <2> QED
    BY <2>3, <2>4 DEF References, Made
<1>13. ASSUME NEW t \in Txs, CommitAccept(t) PROVE References'
  <2> DEFINE q == tx[t].quote
             p == tx[t].project
  <2> HIDE QuoteAcceptanceAssumption DEF Shapes, References, QuoteRows, RevisionRows, TxRows, Made
  <2>0. tx[t].step = "applying"
    BY <1>13 DEF CommitAccept
  <2>1. q \in Quotes /\ p \in Projects \cup {None}
    BY <1>0, <2>0 DEF Shapes, TxRows
  <2>2. \A h \in Groups : group[h].made => group'[h].made
    <3>1. group' = IF tx[t].group = None THEN group ELSE [group EXCEPT ![tx[t].group].decided = q]
      BY <1>13 DEF CommitAccept
    <3> QED
      BY <1>0, <3>1
  <2>3. \A x \in Projects : (project[x].made \/ x = p) => project'[x].made
    <3>1. CASE p = None
      <4>1. project' = project /\ p \notin Projects
        BY <1>13, <3>1, QuoteAcceptanceAssumption DEF CommitAccept
      <4> QED
        BY <4>1
    <3>2. CASE p # None
      <4>1. PICK price : project' = [project EXCEPT ![p] = [made |-> TRUE, price |-> price]]
        BY <1>13, <3>2 DEF CommitAccept
      <4> QED
        BY <1>0, <2>1, <4>1
    <3> QED
      BY <3>1, <3>2
  <2>4. \A o \in Quotes :
           /\ Made(o) \/ o = q => Made(o)'
           /\ quote'[o].group = quote[o].group
           /\ quote'[o].project \in {quote[o].project, p}
    <3> TAKE o \in Quotes
    <3>1. quote[o] \in QuoteRows
      BY <1>0
    <3>2. CASE o = q
      <4>1. quote'[o] = [quote[o] EXCEPT !.status = "accepted", !.project = p]
        BY <1>13, <3>2 DEF CommitAccept
      <4> QED
        BY <3>1, <4>1 DEF QuoteRows, Made
    <3>3. CASE o # q
      <4>1. quote'[o] = [quote[o] EXCEPT !.status = "declined"] \/ quote'[o] = quote[o]
        BY <1>13, <3>3 DEF CommitAccept
      <4> QED
        BY <3>1, <3>3, <4>1 DEF QuoteRows, Made
    <3> QED
      BY <3>2, <3>3
  <2>5. \A r \in Revisions : revision'[r] = revision[r] \/
           /\ tx[t].as = "addition"
           /\ revision'[r] = Addition(t, r)
           /\ tx[t].revision # None => revision[r].status \notin {"absent", "deleted"}
    <3>1. UNCHANGED revision \/ \E r \in Revisions :
             tx[t].as = "addition" /\ MayAdd(t, r) /\ revision' = [revision EXCEPT ![r] = Addition(t, r)]
      BY <1>13 DEF CommitAccept
    <3>2. tx[t].revision # None => tx[t].seen \notin {"absent", "deleted"}
      BY <1>0 DEF References, TxRows
    <3> QED
      BY <1>0, <3>1, <3>2 DEF MayAdd
  <2>6. \A r \in Revisions : revision'[r].status \notin {"absent", "deleted"} =>
           \/ revision'[r].quote = q /\ revision'[r].project = p /\ p # None
           \/ /\ revision[r].status \notin {"absent", "deleted"}
              /\ revision'[r].quote = revision[r].quote /\ revision'[r].project = revision[r].project
    <3> TAKE r \in Revisions
    <3>1. CASE revision'[r] = revision[r]
      BY <3>1
    <3>2. CASE tx[t].as = "addition" /\ tx[t].revision = None /\ revision'[r] = Addition(t, r)
      BY <3>2 DEF Addition, References
    <3>3. CASE /\ tx[t].revision # None /\ revision[r].status \notin {"absent", "deleted"}
               /\ revision'[r] = Addition(t, r)
      <4>1. revision'[r] = [revision[r] EXCEPT !.status = "accepted"] /\ revision[r] \in RevisionRows
        BY <1>0, <3>3 DEF Addition
      <4> QED
        BY <3>3, <4>1 DEF RevisionRows
    <3> QED
      BY <2>5, <3>1, <3>2, <3>3
  <2>7. \A r \in Revisions : revision'[r].status \notin {"absent", "deleted"} =>
           /\ revision'[r].quote # None /\ quote'[revision'[r].quote].status # "absent"
           /\ revision'[r].project # None /\ project'[revision'[r].project].made
    <3> SUFFICES ASSUME NEW r \in Revisions, revision'[r].status \notin {"absent", "deleted"}
                 PROVE  /\ revision'[r].quote # None /\ quote'[revision'[r].quote].status # "absent"
                        /\ revision'[r].project # None /\ project'[revision'[r].project].made
      OBVIOUS
    <3>1. CASE revision'[r].quote = q /\ revision'[r].project = p /\ p # None
      BY <2>1, <2>3, <2>4, <3>1, QuoteAcceptanceAssumption DEF Made
    <3>2. CASE /\ revision[r].status \notin {"absent", "deleted"}
               /\ revision'[r].quote = revision[r].quote /\ revision'[r].project = revision[r].project
      <4>1. revision[r].quote \in Quotes /\ revision[r].project \in Projects
        BY <1>0, <3>2 DEF References, RevisionRows
      <4> QED
        BY <2>3, <2>4, <3>2, <4>1, QuoteAcceptanceAssumption DEF References, Made
    <3> QED
      BY <2>6, <3>1, <3>2
  <2>8. \A s \in Txs :
           /\ tx'[s].as = "addition" => tx'[s].project # None
           /\ tx'[s].revision # None => tx'[s].seen # "absent"
    <3>1. tx' = [tx EXCEPT ![t] = Idle]
      BY <1>13 DEF CommitAccept
    <3> QED
      BY <1>0, <3>1 DEF Idle, References
  <2> QED
    <3>1. \A o \in Quotes : quote[o].group \in Groups \cup {None} /\ quote[o].project \in Projects \cup {None}
      BY <1>0 DEF QuoteRows
    <3>2. \A o \in Quotes :
             /\ quote'[o].group # None => group'[quote'[o].group].made
             /\ quote'[o].project # None => project'[quote'[o].project].made
      BY <2>1, <2>2, <2>3, <2>4, <3>1 DEF References
    <3> QED
      BY <2>7, <2>8, <3>2 DEF References, Made
<1>14. ASSUME NEW t \in Txs, RollBack(t) PROVE References'
  BY <1>14 DEF RollBack, Idle
<1>15. ASSUME NEW q \in Quotes, Decline(q) PROVE References'
  BY <1>15 DEF Decline
<1>16. ASSUME NEW q \in Quotes, Lapse(q) PROVE References'
  BY <1>16 DEF Lapse
<1>17. ASSUME ExpireDueQuotes PROVE References'
  BY <1>17 DEF ExpireDueQuotes
<1>18. ASSUME NEW p \in Projects, NEW price \in Prices \cup {None},
             CreateProject(p, price)
      PROVE  References'
  BY <1>18 DEF CreateProject
<1>19. ASSUME NEW p \in Projects, NEW price \in Prices \cup {None},
             SetPrice(p, price)
      PROVE  References'
  BY <1>19 DEF SetPrice
<1>20. ASSUME NEW r \in Revisions, NEW p \in Projects, NEW q \in Quotes, NEW amount \in Amounts,
             CreateRevision(r, p, q, amount)
      PROVE  References'
  BY <1>20 DEF CreateRevision
<1>21. ASSUME NEW r \in Revisions, NEW q \in Quotes, NEW amount \in Amounts,
             UpdateRevision(r, q, amount)
      PROVE  References'
  BY <1>21 DEF UpdateRevision
<1>22. ASSUME NEW r \in Revisions, AcceptRevision(r) PROVE References'
  BY <1>22 DEF AcceptRevision
<1>23. ASSUME NEW r \in Revisions, NEW from \in {"draft", "sent", "declined", "withdrawn", "deleted"},
              NEW to \in {"draft", "sent", "declined", "withdrawn", "deleted"},
              MoveRevision(r, from, to)
      PROVE  References'
  BY <1>23 DEF MoveRevision, Blank, Deleted
<1>24. ASSUME UNCHANGED vars PROVE References'
  BY <1>24 DEF vars
<1> HIDE QuoteAcceptanceAssumption DEF Shapes, References, QuoteRows, RevisionRows, TxRows, Made
<1> QED
  <2> HIDE DEF vars
  <2>1. CASE UNCHANGED vars
    BY <2>1, <1>24
  <2>2. CASE Next
    BY <2>2, NextCases, <1>1, <1>2, <1>3, <1>4, <1>5, <1>6, <1>7, <1>8, <1>9, <1>10, <1>11, <1>12, <1>13, <1>14,
       <1>15, <1>16, <1>17, <1>18, <1>19, <1>20, <1>21, <1>22, <1>23, Zenon
  <2> QED
    BY <2>1, <2>2

(* Every row has its type, and the rows it refers to exist.                *)
THEOREM TypeCorrect == Spec => []TypeOK
<1>1. TypeOK /\ [Next]_vars => TypeOK'
  BY ShapesNext, ReferencesNext DEF TypeOK
<1> QED
  BY TypeInit, <1>1, PTL DEF Spec

-----------------------------------------------------------------------------
(* The choice among options                                                *)

\* No two transactions hold a row: not the quote each is about, nor the
\* options it declines.
LocksApart == \A s, t \in Txs : s # t =>
    /\ tx[s].quote # None => tx[s].quote # tx[t].quote /\ tx[s].quote \notin tx[t].losers
    /\ tx[s].losers \cap tx[t].losers = {}

\* What a transaction has locked is still as it found it.
Found(t) ==
    /\ tx[t].step = "idle" => tx[t] = Idle
    /\ tx[t].step = "sending" => quote[tx[t].quote].status = "draft" /\ tx[t].losers = {}
    /\ tx[t].step \in {"opened", "choosing", "applying"} =>
         quote[tx[t].quote].status = "sent" /\ quote[tx[t].quote].group = tx[t].group
    /\ tx[t].step = "opened" => tx[t].rivals = {} /\ tx[t].losers = {}
    /\ tx[t].step = "applying" => tx[t].rivals = {}
    /\ \A o \in tx[t].rivals \cup tx[t].losers :
         /\ tx[t].step \in {"choosing", "applying"}
         /\ o # tx[t].quote /\ tx[t].group # None /\ quote[o].group = tx[t].group
         /\ quote[o].status \in {"sent"} \cup Answered
    /\ \A o \in tx[t].losers : quote[o].status = "sent"

\* A group being chosen from is locked by one transaction and undecided.
ChosenFrom == \A t \in Txs, g \in Groups : Choosing(t, g) =>
    /\ group[g].made /\ group[g].decided = None
    /\ \A s \in Txs : Choosing(s, g) => s = t

\* What a group says was chosen is one of its options, accepted.
Decided == \A g \in Groups : group[g].decided # None =>
    /\ group[g].made
    /\ quote[group[g].decided].status = "accepted" /\ quote[group[g].decided].group = g

ChoiceInv == TypeOK /\ LocksApart /\ (\A t \in Txs : Found(t)) /\ ChosenFrom /\ Decided /\ ChoiceRecorded

\* An open option of a group being chosen from is among those the choice
\* declines, or its sending ran beside it; so was one still being sent.
Noticed ==
    /\ \A t \in Txs, g \in Groups, o \in Quotes :
         /\ Choosing(t, g) /\ o # tx[t].quote /\ quote[o].status = "sent" /\ quote[o].group = g
         => o \in tx[t].rivals \cup tx[t].losers \cup overlapped
    /\ \A t \in Txs, g \in Groups :
         /\ tx[t].step = "sending" /\ quote[tx[t].quote].group = g
         /\ group[g].decided # None \/ ~GroupFree(g)
         => tx[t].quote \in overlapped

\* A step that begins, moves and ends no transaction: rows that are locked, and
\* answers given, stay; nothing is sent or accepted; an open option stays in
\* its group, and a quote without one joins only a new or an undecided group.
QuietStep ==
    /\ UNCHANGED <<tx, overlapped>>
    /\ \A g \in Groups : group'[g].decided = group[g].decided /\ (group[g].made => group'[g].made)
    /\ \A q \in Quotes :
         /\ ~QuoteFree(q) => quote'[q].status = quote[q].status /\ quote'[q].group = quote[q].group
         /\ quote'[q].status = "accepted" <=> quote[q].status = "accepted"
         /\ quote'[q].status = "sent" => quote[q].status = "sent"
         /\ quote[q].status = "sent" => quote'[q].status \in {"sent"} \cup Answered
         /\ quote[q].status = "sent" /\ quote[q].group # None => quote'[q].group = quote[q].group
         /\ quote[q].status \in Answered => quote'[q] = quote[q]
         /\ quote'[q].group \notin {quote[q].group, None} =>
              /\ group[quote'[q].group].decided = None
              /\ quote[q].status = "sent" => ~group[quote'[q].group].made

(* What types say of the rows that others name.                            *)
LEMMA Typed ==
    ASSUME TypeOK
    PROVE  /\ \A t \in Txs : /\ tx[t].step # "idle" => tx[t].quote \in Quotes
                             /\ tx[t].rivals \subseteq Quotes /\ tx[t].losers \subseteq Quotes
                             /\ tx[t].group \in Groups \cup {None} /\ tx[t].quote \in Quotes \cup {None}
                             /\ tx[t].step \in {"idle", "sending", "opened", "choosing", "applying"}
           /\ \A q \in Quotes :
             quote[q].group \in Groups \cup {None} /\ quote[q].status \in {"absent", "draft", "sent"} \cup Answered
           /\ \A q \in Quotes : quote[q].group # None => group[quote[q].group].made
           /\ None \notin Quotes /\ None \notin Groups
<1>1. quote \in [Quotes -> QuoteRows] /\ tx \in [Txs -> TxRows]
      /\ \A t \in Txs : tx[t].step # "idle" => tx[t].quote # None
  BY DEF TypeOK, Shapes
<1>2. \A t \in Txs : /\ tx[t].step # "idle" => tx[t].quote \in Quotes
                     /\ tx[t].rivals \subseteq Quotes /\ tx[t].losers \subseteq Quotes
                     /\ tx[t].group \in Groups \cup {None} /\ tx[t].quote \in Quotes \cup {None}
                     /\ tx[t].step \in {"idle", "sending", "opened", "choosing", "applying"}
  BY <1>1 DEF TxRows
<1>3. \A q \in Quotes :
             quote[q].group \in Groups \cup {None} /\ quote[q].status \in {"absent", "draft", "sent"} \cup Answered
  BY <1>1 DEF QuoteRows
<1> QED
  BY <1>2, <1>3, QuoteAcceptanceAssumption DEF TypeOK, References

(* The steps that are quiet.                                               *)
LEMMA QuietSteps ==
    ASSUME TypeOK, \A t \in Txs : Found(t), Decided, [Next]_vars
    PROVE  \/ QuietStep
           \/ \E t \in Txs, q \in Quotes : SendBegin(t, q)
           \/ \E t \in Txs, q \in Quotes : AcceptBegin(t, q)
           \/ \E t \in Txs : SendCommit(t)
           \/ \E t \in Txs : Choose(t)
           \/ \E t \in Txs, r \in Quotes : LockRival(t, r)
           \/ \E t \in Txs, p \in Projects \cup {None}, as \in {"base", "addition", "none"} : Resolve(t, p, as)
           \/ \E t \in Txs : CommitAccept(t)
           \/ \E t \in Txs : RollBack(t)
<1>0. /\ quote \in [Quotes -> QuoteRows]
      /\ group \in [Groups -> [made : BOOLEAN, decided : Quotes \cup {None}]]
      /\ \A q \in Quotes : quote[q].group \in Groups \cup {None}
      /\ None \notin Quotes /\ None \notin Groups
  BY Typed DEF TypeOK, Shapes
<1>a. \A q \in Quotes : ~Made(q) => QuoteFree(q)
  <2> SUFFICES ASSUME NEW q \in Quotes, NEW t \in Txs, q = tx[t].quote \/ q \in tx[t].losers
               PROVE  quote[q].status # "absent"
    BY DEF Made, QuoteFree
  <2>1. Found(t)
    OBVIOUS
  <2>2. tx[t].step # "idle"
    BY <2>1, <1>0 DEF Found, Idle
  <2> QED
    BY <2>1, <2>2, Typed DEF Found
<1>1. ASSUME NEW q \in Quotes, NEW g \in Groups \cup {None}, NEW p \in MadeProjects \cup {None},
             Create(q, g, p)
      PROVE  QuietStep
  BY <1>a, <1>1 DEF Create, OpenGroup, Made, QuietStep, Answered
<1>2. ASSUME NEW q \in Quotes, NEW g \in Groups \cup {None}, NEW p \in MadeProjects \cup {None}, NEW lapsed \in BOOLEAN,
             Update(q, g, p, lapsed)
      PROVE  QuietStep
  BY <1>0, <1>2 DEF Update, OpenGroup, QuietStep, Answered
<1>3. ASSUME NEW q \in Quotes, Delete(q) PROVE QuietStep
  BY <1>3 DEF Delete, Absent, QuietStep, Answered
<1>4. ASSUME NEW q \in Quotes, NEW d \in Quotes, Duplicate(q, d) PROVE QuietStep
  BY <1>a, <1>4 DEF Duplicate, Absent, Made, QuietStep, Answered
<1>5. ASSUME NEW q \in Quotes, NEW d \in Quotes, NEW g \in Groups,
             DuplicateAsOption(q, d, g)
      PROVE  QuietStep
  <2>1. /\ group' \in {group, [group EXCEPT ![g].made = TRUE]}
        /\ quote[q].group # g => ~group[g].made
        /\ group[g].decided = None
    BY <1>0, <1>5 DEF DuplicateAsOption, OpenGroup, Stored, Decided
  <2>2. \A h \in Groups : group'[h].decided = group[h].decided /\ (group[h].made => group'[h].made)
    BY <1>0, <2>1
  <2>3. QuoteFree(q) /\ QuoteFree(d) /\ q # d /\ quote[q].status \notin Answered /\ quote[d].status = "absent"
    BY <1>a, <1>5 DEF DuplicateAsOption, SourceFree, Made
  <2>4. \A o \in Quotes \ {q, d} : quote'[o] = quote[o]
    BY <1>0, <1>5 DEF DuplicateAsOption
  <2>5. quote'[q].status = quote[q].status /\ quote'[q].group = g
    BY <1>0, <2>3, <1>5 DEF DuplicateAsOption, QuoteRows
  <2>6. quote'[d].status = "draft" /\ quote'[d].group = g
    BY <1>0, <2>3, <1>5 DEF DuplicateAsOption, QuoteRows, Absent
  <2>7. UNCHANGED <<tx, overlapped>>
    BY <1>5 DEF DuplicateAsOption
  <2>8. quote[q].group # None => quote[q].group = g
    BY <1>5 DEF DuplicateAsOption
  <2> QED
    BY <2>1, <2>2, <2>3, <2>4, <2>5, <2>6, <2>7, <2>8 DEF QuietStep, Answered
<1>6. ASSUME NEW g \in Groups, NEW qs \in SUBSET Quotes, CreateGroup(g, qs) PROVE QuietStep
  BY <1>6 DEF CreateGroup, Stored, QuietStep, Answered, Decided
<1>7. ASSUME NEW q \in Quotes, Decline(q) PROVE QuietStep
  BY <1>7 DEF Decline, Open, QuietStep, Answered
<1>8. ASSUME NEW q \in Quotes, Lapse(q) PROVE QuietStep
  BY <1>8 DEF Lapse, QuietStep, Answered
<1>9. ASSUME ExpireDueQuotes PROVE QuietStep
  BY <1>9 DEF ExpireDueQuotes, Due, QuietStep, Answered
<1>10. ASSUME NEW p \in Projects, NEW price \in Prices \cup {None},
             CreateProject(p, price)
      PROVE  QuietStep
  BY <1>0, <1>10 DEF CreateProject, QuietStep
<1>11. ASSUME NEW p \in Projects, NEW price \in Prices \cup {None},
             SetPrice(p, price)
      PROVE  QuietStep
  BY <1>0, <1>11 DEF SetPrice, QuietStep
<1>12. ASSUME NEW r \in Revisions, NEW p \in Projects, NEW q \in Quotes, NEW amount \in Amounts,
             CreateRevision(r, p, q, amount)
      PROVE  QuietStep
  BY <1>0, <1>12 DEF CreateRevision, QuietStep
<1>13. ASSUME NEW r \in Revisions, NEW q \in Quotes, NEW amount \in Amounts,
             UpdateRevision(r, q, amount)
      PROVE  QuietStep
  BY <1>0, <1>13 DEF UpdateRevision, QuietStep
<1>14. ASSUME NEW r \in Revisions, AcceptRevision(r) PROVE QuietStep
  BY <1>0, <1>14 DEF AcceptRevision, QuietStep
<1>15. ASSUME NEW r \in Revisions, NEW from \in {"draft", "sent", "declined", "withdrawn", "deleted"},
              NEW to \in {"draft", "sent", "declined", "withdrawn", "deleted"},
              MoveRevision(r, from, to)
      PROVE  QuietStep
  BY <1>0, <1>15 DEF MoveRevision, QuietStep
<1>16. ASSUME UNCHANGED vars PROVE QuietStep
  BY <1>16 DEF vars, QuietStep
<1> QED
  BY NextCases, <1>1, <1>2, <1>3, <1>4, <1>5, <1>6, <1>7, <1>8, <1>9, <1>10, <1>11, <1>12, <1>13, <1>14, <1>15, <1>16, Zenon

(* Quiet steps keep the invariant of the choice...                         *)
LEMMA QuietKeepsChoice ==
    ASSUME ChoiceInv, TypeOK', QuietStep
    PROVE  ChoiceInv'
<1>1. /\ tx' = tx
      /\ \A t \in Txs : Found(t) /\ (tx[t].step # "idle" => tx[t].quote \in Quotes)
      /\ \A t \in Txs : tx[t].rivals \subseteq Quotes /\ tx[t].losers \subseteq Quotes
      /\ \A q \in Quotes : quote[q].group \in Groups \cup {None} /\ quote'[q].group \in Groups \cup {None}
      /\ None \notin Quotes /\ None \notin Groups
  BY Typed DEF ChoiceInv, QuietStep, TypeOK, Shapes, QuoteRows
<1>2. LocksApart'
  BY <1>1 DEF ChoiceInv, LocksApart
<1>3. ASSUME NEW t \in Txs PROVE Found(t)'
  <2>1. tx[t].step # "idle" => /\ quote'[tx[t].quote].status = quote[tx[t].quote].status
                               /\ quote'[tx[t].quote].group = quote[tx[t].quote].group
    BY <1>1 DEF QuietStep, QuoteFree
  <2>2. \A o \in tx[t].losers : quote'[o].status = quote[o].status
    BY <1>1 DEF QuietStep, QuoteFree
  <2>3. \A o \in tx[t].rivals \cup tx[t].losers :
           quote'[o].group = quote[o].group /\ quote'[o].status \in {"sent"} \cup Answered
    BY <1>1 DEF QuietStep, Found, Answered
  <2> QED
    BY <1>1, <2>1, <2>2, <2>3 DEF Found
<1>4. ChosenFrom'
  BY <1>1 DEF ChoiceInv, QuietStep, ChosenFrom, Choosing
<1>5. Decided'
  <2> SUFFICES ASSUME NEW g \in Groups, group'[g].decided # None
               PROVE  /\ group'[g].made
                      /\ quote'[group'[g].decided].status = "accepted" /\ quote'[group'[g].decided].group = g
    BY DEF Decided
  <2>1. group'[g].decided = group[g].decided /\ (group[g].made => group'[g].made)
    BY DEF QuietStep
  <2>2. group[g].made /\ quote[group[g].decided].status = "accepted" /\ quote[group[g].decided].group = g
    BY <2>1 DEF ChoiceInv, Decided
  <2>3. group[g].decided \in Quotes
    BY <2>1 DEF ChoiceInv, TypeOK, Shapes
  <2> QED
    BY <2>1, <2>2, <2>3 DEF QuietStep, Answered
<1>6. ChoiceRecorded'
  BY <1>1 DEF ChoiceInv, QuietStep, ChoiceRecorded, Answered
<1> QED
  BY <1>2, <1>3, <1>4, <1>5, <1>6 DEF ChoiceInv

(* ... and every open option noticed.                                      *)
LEMMA QuietKeepsNoticed ==
    ASSUME ChoiceInv, TypeOK', Noticed, LosersClosed, QuietStep
    PROVE  Noticed' /\ LosersClosed'
<1>1. /\ tx' = tx /\ overlapped' = overlapped
      /\ \A t \in Txs : Found(t) /\ (tx[t].step # "idle" => tx[t].quote \in Quotes)
      /\ \A q \in Quotes : quote[q].group \in Groups \cup {None} /\ quote'[q].group \in Groups \cup {None}
      /\ None \notin Quotes /\ None \notin Groups
  BY Typed DEF ChoiceInv, QuietStep, TypeOK, Shapes, QuoteRows
<1>2. \A g \in Groups : group'[g].decided = group[g].decided
  BY DEF QuietStep
<1>3. ASSUME NEW o \in Quotes, quote'[o].status = "sent", quote'[o].group # None
      PROVE  /\ quote[o].status = "sent"
             /\ quote'[o].group # quote[o].group =>
                  ~group[quote'[o].group].made /\ group[quote'[o].group].decided = None
  BY <1>3 DEF QuietStep
<1>4. LosersClosed'
  BY <1>1, <1>2, <1>3 DEF LosersClosed
<1>5. ASSUME NEW t \in Txs, NEW g \in Groups, NEW o \in Quotes,
             Choosing(t, g), o # tx[t].quote, quote'[o].status = "sent", quote'[o].group = g
      PROVE  o \in tx[t].rivals \cup tx[t].losers \cup overlapped
  <2>1. quote[o].status = "sent" /\ quote[o].group = g
    BY <1>1, <1>3, <1>5 DEF ChoiceInv, ChosenFrom
  <2> QED
    BY <2>1, <1>5 DEF Noticed
<1>6. ASSUME NEW t \in Txs, NEW g \in Groups, tx[t].step = "sending", quote'[tx[t].quote].group = g,
             group[g].decided # None \/ ~GroupFree(g)
      PROVE  tx[t].quote \in overlapped
  <2>1. quote[tx[t].quote].group = g
    BY <1>1, <1>6 DEF QuietStep, QuoteFree
  <2> QED
    BY <2>1, <1>6 DEF Noticed
<1>7. \A t \in Txs, g \in Groups : Choosing(t, g)' <=> Choosing(t, g)
  BY <1>1 DEF Choosing
<1>8. \A g \in Groups : GroupFree(g)' <=> GroupFree(g)
  BY <1>7 DEF GroupFree
<1> QED
  BY <1>1, <1>2, <1>4, <1>5, <1>6, <1>7, <1>8 DEF Noticed

(* A step of a transaction that leaves the quotes and groups alone.        *)
LEMMA MoveKeepsChoice ==
    ASSUME ChoiceInv, TypeOK', UNCHANGED <<quote, group>>, NEW t \in Txs,
           \A s \in Txs \ {t} : tx'[s] = tx[s],
           Found(t)',
           tx'[t].quote # None => tx'[t].quote = tx[t].quote \/ QuoteFree(tx'[t].quote),
           \A o \in tx'[t].losers \ tx[t].losers : QuoteFree(o),
           \A g \in Groups : Choosing(t, g)' =>
               Choosing(t, g) \/ (GroupFree(g) /\ group[g].made /\ group[g].decided = None)
    PROVE  ChoiceInv'
<1>1. /\ \A s \in Txs : tx[s].losers \subseteq Quotes /\ tx'[s].losers \subseteq Quotes
      /\ \A s \in Txs : tx[s].quote \in Quotes \cup {None} /\ tx'[s].quote \in Quotes \cup {None}
      /\ None \notin Quotes
  BY Typed, QuoteAcceptanceAssumption DEF ChoiceInv, TypeOK, Shapes, TxRows
<1>2. LocksApart'
  <2> SUFFICES ASSUME NEW a \in Txs, NEW b \in Txs, a # b
               PROVE  /\ tx'[a].quote # None => tx'[a].quote # tx'[b].quote /\ tx'[a].quote \notin tx'[b].losers
                      /\ tx'[a].losers \cap tx'[b].losers = {}
    BY DEF LocksApart
  <2>1. LocksApart
    BY DEF ChoiceInv
  <2>2. CASE a # t /\ b # t
    BY <2>1, <2>2 DEF LocksApart
  <2>3. CASE a = t /\ b # t
    BY <1>1, <2>1, <2>3 DEF LocksApart, QuoteFree
  <2>4. CASE a # t /\ b = t
    BY <1>1, <2>1, <2>4 DEF LocksApart, QuoteFree
  <2> QED
    BY <2>2, <2>3, <2>4
<1>3. \A s \in Txs : Found(s)'
  <2>1. ASSUME NEW s \in Txs \ {t} PROVE Found(s)'
    BY <2>1 DEF ChoiceInv, Found
  <2> QED
    BY <2>1
<1>4. ChosenFrom'
  <2>1. \A s \in Txs \ {t}, g \in Groups : Choosing(s, g)' <=> Choosing(s, g)
    BY DEF Choosing
  <2> QED
    BY <2>1 DEF ChoiceInv, ChosenFrom, GroupFree
<1>5. Decided' /\ ChoiceRecorded'
  BY DEF ChoiceInv, Decided, ChoiceRecorded
<1> QED
  BY <1>2, <1>3, <1>4, <1>5 DEF ChoiceInv

(* So do the steps of a transaction before its last...                     *)
LEMMA StepsKeepChoice ==
    ASSUME ChoiceInv, TypeOK', NEW t \in Txs,
           \/ \E q \in Quotes : SendBegin(t, q)
           \/ \E q \in Quotes : AcceptBegin(t, q)
           \/ Choose(t)
           \/ \E r \in Quotes : LockRival(t, r)
           \/ \E p \in Projects \cup {None}, as \in {"base", "addition", "none"} : Resolve(t, p, as)
           \/ RollBack(t)
    PROVE  ChoiceInv'
<1>1. /\ tx \in [Txs -> TxRows] /\ quote \in [Quotes -> QuoteRows]
      /\ Found(t) /\ (tx[t].step # "idle" => tx[t].quote \in Quotes)
      /\ tx[t].rivals \subseteq Quotes /\ tx[t].losers \subseteq Quotes
      /\ None \notin Quotes /\ None \notin Groups
      /\ \A q \in Quotes : quote[q].group # None => quote[q].group \in Groups /\ group[quote[q].group].made
  BY Typed DEF ChoiceInv, TypeOK, Shapes
<1>2. ASSUME NEW q \in Quotes, SendBegin(t, q) PROVE ChoiceInv'
  <2>1. tx' = [tx EXCEPT ![t] = [Idle EXCEPT !.step = "sending", !.quote = q]]
    BY <1>2 DEF SendBegin
  <2>2. tx'[t].step = "sending" /\ tx'[t].quote = q /\ tx'[t].rivals = {} /\ tx'[t].losers = {}
    BY <1>1, <2>1 DEF Idle
  <2>3. Found(t)'
    BY <1>2, <2>2 DEF SendBegin, MaySend, Found
  <2> QED
    BY <1>1, <1>2, <2>1, <2>2, <2>3, MoveKeepsChoice DEF SendBegin, Choosing
<1>3. ASSUME NEW q \in Quotes, AcceptBegin(t, q) PROVE ChoiceInv'
  <2>1. tx' = [tx EXCEPT ![t] = [Idle EXCEPT !.step = "opened", !.quote = q, !.group = quote[q].group]]
    BY <1>3 DEF AcceptBegin
  <2>2. /\ tx'[t].step = "opened" /\ tx'[t].quote = q /\ tx'[t].group = quote[q].group
        /\ tx'[t].rivals = {} /\ tx'[t].losers = {}
    BY <1>1, <2>1 DEF Idle
  <2>3. Found(t)'
    BY <1>3, <2>2 DEF AcceptBegin, Open, Found
  <2> QED
    BY <1>1, <1>3, <2>1, <2>2, <2>3, MoveKeepsChoice DEF AcceptBegin, Choosing
<1>4. ASSUME Choose(t) PROVE ChoiceInv'
  <2> DEFINE g == tx[t].group
             rs == IF g = None THEN {} ELSE Rivals(tx[t].quote, g)
  <2>1. tx[t].step = "opened" /\ tx[t].rivals = {} /\ tx[t].losers = {}
    BY <1>1, <1>4 DEF Choose, Found
  <2>2. tx' = [tx EXCEPT ![t] = [tx[t] EXCEPT !.step = "choosing", !.rivals = rs]]
    <3>1. CASE g = None
      <4>1. tx' = [tx EXCEPT ![t].step = "choosing"]
        BY <1>4, <3>1 DEF Choose
      <4>2. [tx[t] EXCEPT !.step = "choosing"] = [tx[t] EXCEPT !.step = "choosing", !.rivals = rs]
        BY <1>1, <2>1, <3>1 DEF TxRows
      <4> QED
        BY <1>1, <4>1, <4>2
    <3>2. CASE g # None
      <4>1. tx' = [tx EXCEPT ![t].step = "choosing", ![t].rivals = Rivals(tx[t].quote, g)]
        BY <1>4, <3>2 DEF Choose
      <4> QED
        BY <1>1, <3>2, <4>1 DEF TxRows
    <3> QED
      BY <3>1, <3>2
  <2>3. /\ tx'[t].step = "choosing" /\ tx'[t].quote = tx[t].quote /\ tx'[t].group = g
        /\ tx'[t].rivals = rs /\ tx'[t].losers = {}
    BY <1>1, <2>1, <2>2 DEF TxRows
  <2>4. UNCHANGED <<quote, group>>
    BY <1>4 DEF Choose
  <2>5. \A o \in rs : o # tx[t].quote /\ g # None /\ quote[o].group = g /\ quote[o].status = "sent"
    BY DEF Rivals, Options
  <2>6. Found(t)'
    BY <1>1, <2>1, <2>3, <2>4, <2>5 DEF Found
  <2>7. g # None => GroupFree(g) /\ group[g].decided = None /\ g \in Groups /\ group[g].made
    BY <1>1, <1>4, <2>1 DEF Choose, Found
  <2> QED
    BY <1>1, <2>2, <2>3, <2>4, <2>6, <2>7, MoveKeepsChoice DEF Choosing
<1>5. ASSUME NEW r \in Quotes, LockRival(t, r) PROVE ChoiceInv'
  <2>1. /\ tx'[t].step = tx[t].step /\ tx'[t].quote = tx[t].quote /\ tx'[t].group = tx[t].group
        /\ tx'[t].rivals = tx[t].rivals \ {r}
        /\ tx'[t].losers = IF Loses(r) THEN tx[t].losers \cup {r} ELSE tx[t].losers
        /\ \A s \in Txs \ {t} : tx'[s] = tx[s]
    BY <1>1, <1>5, ZenonT(40) DEF LockRival, TxRows
  <2>2. UNCHANGED <<quote, group>> /\ tx[t].step = "choosing" /\ r \in tx[t].rivals /\ QuoteFree(r)
    BY <1>5 DEF LockRival
  <2>3. Found(t)'
    BY <1>1, <2>1, <2>2 DEF Found, Loses
  <2> QED
    BY <1>1, <2>1, <2>2, <2>3, MoveKeepsChoice DEF Choosing
<1>6. ASSUME NEW p \in Projects \cup {None}, NEW as \in {"base", "addition", "none"}, Resolve(t, p, as)
      PROVE  ChoiceInv'
  <2>1. PICK r, seen : tx' = [tx EXCEPT ![t].step = "applying", ![t].project = p, ![t].as = as,
                                        ![t].revision = r, ![t].seen = seen]
    BY <1>6 DEF Resolve
  <2>2. /\ tx'[t].step = "applying" /\ tx'[t].quote = tx[t].quote /\ tx'[t].group = tx[t].group
        /\ tx'[t].rivals = tx[t].rivals /\ tx'[t].losers = tx[t].losers
        /\ \A s \in Txs \ {t} : tx'[s] = tx[s]
    BY <1>1, <2>1 DEF TxRows
  <2>3. UNCHANGED <<quote, group>> /\ tx[t].step = "choosing" /\ tx[t].rivals = {}
    BY <1>6 DEF Resolve
  <2>4. Found(t)'
    BY <1>1, <2>2, <2>3 DEF Found
  <2> QED
    BY <1>1, <2>2, <2>3, <2>4, MoveKeepsChoice DEF Choosing
<1>7. ASSUME RollBack(t) PROVE ChoiceInv'
  <2>1. tx' = [tx EXCEPT ![t] = Idle] /\ UNCHANGED <<quote, group>>
    BY <1>7 DEF RollBack
  <2>2. tx'[t] = Idle /\ \A s \in Txs \ {t} : tx'[s] = tx[s]
    BY <1>1, <2>1
  <2>3. Found(t)'
    BY <2>2 DEF Found, Idle
  <2> QED
    BY <1>1, <2>1, <2>2, <2>3, MoveKeepsChoice DEF Choosing, Idle
<1> QED
  BY <1>2, <1>3, <1>4, <1>5, <1>6, <1>7

(* ... the last of a sending...                                            *)
LEMMA SendingKeepsChoice ==
    ASSUME ChoiceInv, TypeOK', NEW t \in Txs, SendCommit(t)
    PROVE  ChoiceInv'
<1> DEFINE q == tx[t].quote
<1>1. /\ tx \in [Txs -> TxRows] /\ quote \in [Quotes -> QuoteRows] /\ q \in Quotes
      /\ group \in [Groups -> [made : BOOLEAN, decided : Quotes \cup {None}]]
      /\ \A s \in Txs : tx[s].rivals \subseteq Quotes /\ tx[s].losers \subseteq Quotes
      /\ \A s \in Txs : Found(s) /\ (tx[s].step # "idle" => tx[s].quote \in Quotes)
      /\ None \notin Quotes /\ None \notin Groups
  BY Typed DEF ChoiceInv, TypeOK, Shapes, SendCommit
<1>2. UNCHANGED <<group, overlapped>> /\ quote[q].status = "draft" /\ tx[t].step = "sending"
  BY <1>1 DEF SendCommit, Found
<1>3. /\ tx'[t] = Idle /\ \A s \in Txs \ {t} : tx'[s] = tx[s]
      /\ quote'[q] = [quote[q] EXCEPT !.status = "sent"]
      /\ \A o \in Quotes \ {q} : quote'[o] = quote[o]
  BY <1>1 DEF SendCommit
<1>4. \A o \in Quotes : quote'[o].group = quote[o].group
  BY <1>1, <1>3 DEF QuoteRows
<1>5. LocksApart'
  BY <1>1, <1>3 DEF ChoiceInv, LocksApart, Idle
<1>6. ASSUME NEW s \in Txs PROVE Found(s)'
  <2>1. CASE s = t
    BY <1>3, <2>1 DEF Found, Idle
  <2>2. CASE s # t
    <3>1. tx[s].step # "idle" => tx[s].quote # q /\ tx[s].quote \in Quotes
      BY <1>1, <2>2 DEF ChoiceInv, LocksApart
    <3>2. q \notin tx[s].rivals \cup tx[s].losers
      BY <1>1, <1>2, <2>2 DEF Found, Answered
    <3> QED
      BY <1>1, <1>3, <2>2, <3>1, <3>2 DEF Found
  <2> QED
    BY <2>1, <2>2
<1>7. ChosenFrom'
  BY <1>2, <1>3 DEF ChoiceInv, ChosenFrom, Choosing, Idle
<1>8. Decided'
  BY <1>1, <1>2, <1>3 DEF ChoiceInv, Decided
<1>9. ChoiceRecorded'
  <2>1. \A o \in Quotes : quote'[o].status = "accepted" <=> quote[o].status = "accepted"
    BY <1>1, <1>2, <1>3 DEF QuoteRows
  <2> QED
    BY <1>2, <1>4, <2>1 DEF ChoiceInv, ChoiceRecorded
<1> QED
  BY <1>5, <1>6, <1>7, <1>8, <1>9 DEF ChoiceInv

(* What an acceptance writes.                                              *)
LEMMA AcceptanceWrites ==
    ASSUME ChoiceInv, NEW t \in Txs, CommitAccept(t)
    PROVE  /\ tx[t].step = "applying" /\ tx[t].rivals = {}
           /\ tx[t].quote \in Quotes /\ tx[t].group \in Groups \cup {None}
           /\ quote[tx[t].quote].status = "sent" /\ quote[tx[t].quote].group = tx[t].group
           /\ quote'[tx[t].quote].status = "accepted"
           /\ tx[t].losers \subseteq Quotes \ {tx[t].quote}
           /\ \A o \in tx[t].losers : quote[o].status = "sent" /\ quote'[o].status = "declined"
           /\ \A o \in Quotes \ ({tx[t].quote} \cup tx[t].losers) : quote'[o] = quote[o]
           /\ \A o \in Quotes : quote'[o].group = quote[o].group
           /\ tx'[t] = Idle /\ (\A s \in Txs \ {t} : tx'[s] = tx[s])
           /\ overlapped' = overlapped
           /\ tx[t].group # None =>
                /\ group[tx[t].group].made /\ group[tx[t].group].decided = None
                /\ group'[tx[t].group].made /\ group'[tx[t].group].decided = tx[t].quote
           /\ \A h \in Groups \ {tx[t].group} : group'[h] = group[h]
<1> DEFINE q == tx[t].quote
           g == tx[t].group
<1>1. /\ tx \in [Txs -> TxRows] /\ quote \in [Quotes -> QuoteRows] /\ Found(t)
      /\ group \in [Groups -> [made : BOOLEAN, decided : Quotes \cup {None}]]
      /\ tx[t].losers \subseteq Quotes /\ g \in Groups \cup {None} /\ (tx[t].step # "idle" => q \in Quotes)
      /\ None \notin Groups
  BY Typed DEF ChoiceInv, TypeOK, Shapes
<1>2. tx[t].step = "applying" /\ tx' = [tx EXCEPT ![t] = Idle] /\ overlapped' = overlapped
  BY DEF CommitAccept
<1>3. /\ tx[t].rivals = {} /\ q \in Quotes /\ quote[q].status = "sent" /\ quote[q].group = g
      /\ tx[t].losers \subseteq Quotes \ {q} /\ \A o \in tx[t].losers : quote[o].status = "sent"
  BY <1>1, <1>2 DEF Found
<1>4. /\ quote'[q] = [quote[q] EXCEPT !.status = "accepted", !.project = tx[t].project]
      /\ \A o \in tx[t].losers : quote'[o] = [quote[o] EXCEPT !.status = "declined"]
      /\ \A o \in Quotes \ ({q} \cup tx[t].losers) : quote'[o] = quote[o]
  BY <1>3 DEF CommitAccept
<1>5. quote'[q].status = "accepted" /\ quote'[q].group = quote[q].group
  BY <1>1, <1>3, <1>4 DEF QuoteRows
<1>6. \A o \in tx[t].losers : quote'[o].status = "declined" /\ quote'[o].group = quote[o].group
  <2> SUFFICES ASSUME NEW o \in tx[t].losers
               PROVE  quote'[o].status = "declined" /\ quote'[o].group = quote[o].group
    OBVIOUS
  <2>1. quote[o] \in QuoteRows /\ quote'[o] = [quote[o] EXCEPT !.status = "declined"]
    BY <1>1, <1>4
  <2> QED
    BY <2>1 DEF QuoteRows
<1>7. \A o \in Quotes : quote'[o].group = quote[o].group
  <2> SUFFICES ASSUME NEW o \in Quotes PROVE quote'[o].group = quote[o].group
    OBVIOUS
  <2>1. CASE o \in {q} \cup tx[t].losers
    BY <2>1, <1>5, <1>6
  <2>2. CASE o \notin {q} \cup tx[t].losers
    BY <2>2, <1>4
  <2> QED
    BY <2>1, <2>2
<1>8. group' = IF g = None THEN group ELSE [group EXCEPT ![g].decided = q]
  BY DEF CommitAccept
<1>9. g # None => group[g].made /\ group[g].decided = None
  BY <1>1, <1>2 DEF ChoiceInv, ChosenFrom, Choosing
<1>10. g # None => group'[g].made /\ group'[g].decided = q
  BY <1>1, <1>8, <1>9
<1>11. \A h \in Groups \ {g} : group'[h] = group[h]
  BY <1>1, <1>8
<1>12. tx'[t] = Idle /\ \A s \in Txs \ {t} : tx'[s] = tx[s]
  BY <1>1, <1>2
<1> QED
  BY <1>1, <1>2, <1>3, <1>4, <1>5, <1>6, <1>7, <1>9, <1>10, <1>11, <1>12

(* ... and the last of an acceptance.                                      *)
LEMMA AcceptingKeepsChoice ==
    ASSUME ChoiceInv, TypeOK', NEW t \in Txs, CommitAccept(t)
    PROVE  ChoiceInv'
<1> DEFINE q == tx[t].quote
           g == tx[t].group
<1>1. /\ \A s \in Txs : tx[s].rivals \subseteq Quotes /\ tx[s].losers \subseteq Quotes
      /\ \A s \in Txs : Found(s) /\ (tx[s].step # "idle" => tx[s].quote \in Quotes)
      /\ \A o \in Quotes : quote[o].group \in Groups \cup {None}
      /\ group \in [Groups -> [made : BOOLEAN, decided : Quotes \cup {None}]]
      /\ None \notin Quotes /\ None \notin Groups
  BY Typed DEF ChoiceInv, TypeOK, Shapes
<1>2. LocksApart'
  BY <1>1, AcceptanceWrites DEF ChoiceInv, LocksApart, Idle
<1>3. ASSUME NEW s \in Txs PROVE Found(s)'
  <2>1. CASE s = t
    <3>1. tx'[s] = Idle
      BY <2>1, AcceptanceWrites
    <3> QED
      BY <3>1 DEF Found, Idle
  <2>2. CASE s # t
    <3>1. tx'[s] = tx[s] /\ Found(s)
      BY <1>1, <2>2, AcceptanceWrites
    <3>2. tx[s].step # "idle" => tx[s].quote \in Quotes \ ({q} \cup tx[t].losers)
      BY <1>1, <2>2 DEF ChoiceInv, LocksApart
    <3>3. tx[s].losers \subseteq Quotes \ ({q} \cup tx[t].losers)
      BY <1>1, <2>2, AcceptanceWrites DEF ChoiceInv, LocksApart
    <3>4. \A o \in Quotes : quote[o].status \in {"sent"} \cup Answered => quote'[o].status \in {"sent"} \cup Answered
      BY AcceptanceWrites DEF Answered
    <3> QED
      BY <1>1, <3>1, <3>2, <3>3, <3>4, AcceptanceWrites DEF Found
  <2> QED
    BY <2>1, <2>2
<1>4. ChosenFrom'
  <2> SUFFICES ASSUME NEW s \in Txs, NEW h \in Groups, Choosing(s, h)'
               PROVE  /\ group'[h].made /\ group'[h].decided = None
                      /\ \A r \in Txs : Choosing(r, h)' => r = s
    BY DEF ChosenFrom
  <2>1. s # t /\ \A r \in Txs \ {t} : Choosing(r, h)' <=> Choosing(r, h)
    BY AcceptanceWrites DEF Choosing, Idle
  <2>2. h # g
    BY <2>1, AcceptanceWrites DEF ChoiceInv, ChosenFrom, Choosing
  <2>3. ~Choosing(t, h)'
    BY AcceptanceWrites DEF Choosing, Idle
  <2> QED
    BY <2>1, <2>2, <2>3, AcceptanceWrites DEF ChoiceInv, ChosenFrom
<1>5. Decided'
  <2> SUFFICES ASSUME NEW h \in Groups, group'[h].decided # None
               PROVE  /\ group'[h].made
                      /\ quote'[group'[h].decided].status = "accepted" /\ quote'[group'[h].decided].group = h
    BY DEF Decided
  <2>1. CASE h = g
    BY <1>1, <2>1, AcceptanceWrites
  <2>2. CASE h # g
    <3>1. group'[h] = group[h]
      BY <2>2, AcceptanceWrites
    <3>2. /\ group[h].decided \in Quotes /\ group[h].made
          /\ quote[group[h].decided].status = "accepted" /\ quote[group[h].decided].group = h
      BY <1>1, <3>1 DEF ChoiceInv, Decided
    <3> QED
      BY <3>1, <3>2, AcceptanceWrites
  <2> QED
    BY <2>1, <2>2
<1>6. ChoiceRecorded'
  <2> SUFFICES ASSUME NEW o \in Quotes, quote[o].group # None
               PROVE  quote'[o].status = "accepted" <=> group'[quote[o].group].decided = o
    BY AcceptanceWrites DEF ChoiceRecorded
  <2>1. quote[o].status = "accepted" <=> group[quote[o].group].decided = o
    BY DEF ChoiceInv, ChoiceRecorded
  <2>2. CASE quote[o].group = g
    BY <1>1, <2>1, <2>2, AcceptanceWrites
  <2>3. CASE quote[o].group # g
    <3>1. group'[quote[o].group] = group[quote[o].group]
      BY <1>1, <2>3, AcceptanceWrites
    <3>2. o # q /\ o \notin tx[t].losers
      BY <1>1, <2>3, AcceptanceWrites DEF Found
    <3> QED
      BY <2>1, <3>1, <3>2, AcceptanceWrites
  <2> QED
    BY <2>2, <2>3
<1> QED
  BY <1>2, <1>3, <1>4, <1>5, <1>6 DEF ChoiceInv

(* The same for noticing open options: in a step that leaves quotes and    *)
(* groups alone...                                                         *)
LEMMA MoveKeepsNoticed ==
    ASSUME ChoiceInv, Noticed, LosersClosed, UNCHANGED <<quote, group>>, NEW t \in Txs,
           \A s \in Txs \ {t} : tx'[s] = tx[s],
           \A o \in overlapped \ overlapped' :
               quote[o].status # "sent" /\ \A s \in Txs : tx[s].quote # o,
           \A g \in Groups, o \in Quotes :
               Choosing(t, g)' /\ o # tx'[t].quote /\ quote[o].status = "sent" /\ quote[o].group = g
               => o \in tx'[t].rivals \cup tx'[t].losers \cup overlapped',
           \A g \in Groups :
               /\ tx'[t].step = "sending" /\ quote[tx'[t].quote].group = g
               /\ group[g].decided # None \/ ~GroupFree(g)'
               => tx'[t].quote \in overlapped',
           \A g \in Groups, s \in Txs \ {t} :
               Choosing(t, g)' /\ ~Choosing(t, g) /\ tx[s].step = "sending" /\ quote[tx[s].quote].group = g
               => tx[s].quote \in overlapped'
    PROVE  Noticed' /\ LosersClosed'
<1>1. LosersClosed'
  BY DEF LosersClosed
<1>2. \A s \in Txs \ {t}, g \in Groups : Choosing(s, g)' <=> Choosing(s, g)
  BY DEF Choosing
<1>3. ASSUME NEW s \in Txs, NEW g \in Groups, NEW o \in Quotes,
             Choosing(s, g)', o # tx'[s].quote, quote[o].status = "sent", quote[o].group = g
      PROVE  o \in tx'[s].rivals \cup tx'[s].losers \cup overlapped'
  <2>1. CASE s = t
    BY <1>3, <2>1
  <2>2. CASE s # t
    BY <1>2, <1>3, <2>2 DEF Noticed
  <2> QED
    BY <2>1, <2>2
<1>4. ASSUME NEW s \in Txs, NEW g \in Groups, tx'[s].step = "sending", quote[tx'[s].quote].group = g,
             group[g].decided # None \/ ~GroupFree(g)'
      PROVE  tx'[s].quote \in overlapped'
  <2>1. CASE s = t
    BY <1>4, <2>1
  <2>2. CASE s # t
    <3>1. tx'[s] = tx[s]
      BY <2>2
    <3>2. CASE group[g].decided # None \/ ~GroupFree(g)
      BY <1>4, <3>1, <3>2 DEF Noticed
    <3>3. CASE ~(group[g].decided # None \/ ~GroupFree(g))
      <4>1. Choosing(t, g)' /\ ~Choosing(t, g)
        BY <1>2, <1>4, <3>3 DEF GroupFree
      <4> QED
        BY <1>4, <2>2, <3>1, <4>1
    <3> QED
      BY <3>2, <3>3
  <2> QED
    BY <2>1, <2>2
<1>5. Noticed'
  BY <1>3, <1>4 DEF Noticed
<1> QED
  BY <1>1, <1>5

(* ... in the steps of a transaction before its last...                    *)
LEMMA StepsKeepNoticed ==
    ASSUME ChoiceInv, Noticed, LosersClosed, NEW t \in Txs,
           \/ \E q \in Quotes : SendBegin(t, q)
           \/ \E q \in Quotes : AcceptBegin(t, q)
           \/ Choose(t)
           \/ \E r \in Quotes : LockRival(t, r)
           \/ \E p \in Projects \cup {None}, as \in {"base", "addition", "none"} : Resolve(t, p, as)
           \/ RollBack(t)
    PROVE  Noticed' /\ LosersClosed'
<1>1. /\ tx \in [Txs -> TxRows] /\ Found(t)
      /\ \A g \in Groups : g # None
      /\ \A q \in Quotes : quote[q].group # None => quote[q].group \in Groups
  BY Typed DEF ChoiceInv, TypeOK, Shapes
<1>2. ASSUME NEW q \in Quotes, SendBegin(t, q) PROVE Noticed' /\ LosersClosed'
  <2>1. tx' = [tx EXCEPT ![t] = [Idle EXCEPT !.step = "sending", !.quote = q]] /\ UNCHANGED <<quote, group>>
    BY <1>2 DEF SendBegin
  <2>2. tx'[t].step = "sending" /\ tx'[t].quote = q /\ \A s \in Txs \ {t} : tx'[s] = tx[s]
    BY <1>1, <2>1 DEF Idle
  <2>3. quote[q].status = "draft" /\ (\A s \in Txs : tx[s].quote # q)
    BY <1>2 DEF SendBegin, MaySend, QuoteFree
  <2>4. \A g \in Groups : ~Choosing(t, g)' /\ (GroupFree(g) => GroupFree(g)')
    BY <2>2 DEF GroupFree, Choosing
  <2>5. \A g \in Groups : quote[q].group = g => group[g].decided = None
    BY <1>1, <1>2 DEF SendBegin, MaySend, OpenGroup
  <2>6. overlapped' = overlapped \cup {q} \/ overlapped' = overlapped \ {q}
    BY <1>2 DEF SendBegin
  <2>7. \A g \in Groups : quote[q].group = g /\ ~GroupFree(g) => q \in overlapped'
    BY <1>1, <1>2 DEF SendBegin
  <2> QED
    BY <2>1, <2>2, <2>3, <2>4, <2>5, <2>6, <2>7, MoveKeepsNoticed
<1>3. ASSUME NEW q \in Quotes, AcceptBegin(t, q) PROVE Noticed' /\ LosersClosed'
  <2>1. tx' = [tx EXCEPT ![t] = [Idle EXCEPT !.step = "opened", !.quote = q, !.group = quote[q].group]]
        /\ UNCHANGED <<quote, group, overlapped>>
    BY <1>3 DEF AcceptBegin
  <2>2. tx'[t].step = "opened" /\ \A s \in Txs \ {t} : tx'[s] = tx[s]
    BY <1>1, <2>1 DEF Idle
  <2>3. \A g \in Groups : ~Choosing(t, g)'
    BY <2>2 DEF Choosing
  <2> QED
    BY <2>1, <2>2, <2>3, MoveKeepsNoticed
<1>4. ASSUME Choose(t) PROVE Noticed' /\ LosersClosed'
  <2> DEFINE g == tx[t].group
  <2>1. UNCHANGED <<quote, group>> /\ overlapped \subseteq overlapped'
    BY <1>4 DEF Choose
  <2>2. /\ \A s \in Txs \ {t} : tx'[s] = tx[s]
        /\ tx'[t].step = "choosing" /\ tx'[t].quote = tx[t].quote /\ tx'[t].group = g
    BY <1>1, <1>4 DEF Choose, TxRows
  <2>3. g # None => tx'[t].rivals = Rivals(tx[t].quote, g)
    BY <1>1, <1>4 DEF Choose, TxRows
  <2>4. g # None => \A s \in Txs : tx[s].step = "sending" /\ quote[tx[s].quote].group = g => tx[s].quote \in overlapped'
    BY <1>4 DEF Choose
  <2>5. \A h \in Groups : Choosing(t, h)' => h = g
    BY <2>2 DEF Choosing
  <2>6. \A o \in Quotes : g # None /\ o # tx[t].quote /\ quote[o].status = "sent" /\ quote[o].group = g
                          => o \in Rivals(tx[t].quote, g)
    BY DEF Rivals, Options, Made
  <2> QED
    BY <1>1, <2>1, <2>2, <2>3, <2>4, <2>5, <2>6, MoveKeepsNoticed
<1>5. ASSUME NEW r \in Quotes, LockRival(t, r) PROVE Noticed' /\ LosersClosed'
  <2>1. /\ tx'[t].step = tx[t].step /\ tx'[t].quote = tx[t].quote /\ tx'[t].group = tx[t].group
        /\ tx'[t].rivals = tx[t].rivals \ {r}
        /\ tx'[t].losers = IF Loses(r) THEN tx[t].losers \cup {r} ELSE tx[t].losers
        /\ \A s \in Txs \ {t} : tx'[s] = tx[s]
    BY <1>1, <1>5 DEF LockRival, TxRows
  <2>2. UNCHANGED <<quote, group, overlapped>> /\ tx[t].step = "choosing"
    BY <1>5 DEF LockRival
  <2>3. \A g \in Groups : Choosing(t, g)' <=> Choosing(t, g)
    BY <2>1 DEF Choosing
  <2>4. \A g \in Groups, o \in Quotes :
           Choosing(t, g) /\ o # tx[t].quote /\ quote[o].status = "sent" /\ quote[o].group = g
           => o \in tx'[t].rivals \cup tx'[t].losers \cup overlapped
    BY <2>1 DEF Noticed, Loses
  <2> QED
    BY <2>1, <2>2, <2>3, <2>4, MoveKeepsNoticed
<1>6. ASSUME NEW p \in Projects \cup {None}, NEW as \in {"base", "addition", "none"}, Resolve(t, p, as)
      PROVE  Noticed' /\ LosersClosed'
  <2>1. PICK r, seen : tx' = [tx EXCEPT ![t].step = "applying", ![t].project = p, ![t].as = as,
                                        ![t].revision = r, ![t].seen = seen]
    BY <1>6 DEF Resolve
  <2>2. /\ tx'[t].step = "applying" /\ tx'[t].quote = tx[t].quote /\ tx'[t].group = tx[t].group
        /\ tx'[t].rivals = tx[t].rivals /\ tx'[t].losers = tx[t].losers
        /\ \A s \in Txs \ {t} : tx'[s] = tx[s]
    BY <1>1, <2>1 DEF TxRows
  <2>3. UNCHANGED <<quote, group, overlapped>> /\ tx[t].step = "choosing"
    BY <1>6 DEF Resolve
  <2>4. \A g \in Groups : Choosing(t, g)' <=> Choosing(t, g)
    BY <2>2, <2>3 DEF Choosing
  <2>5. \A g \in Groups, o \in Quotes :
           Choosing(t, g) /\ o # tx[t].quote /\ quote[o].status = "sent" /\ quote[o].group = g
           => o \in tx[t].rivals \cup tx[t].losers \cup overlapped
    BY DEF Noticed
  <2> QED
    BY <2>2, <2>3, <2>4, <2>5, MoveKeepsNoticed
<1>7. ASSUME RollBack(t) PROVE Noticed' /\ LosersClosed'
  <2>1. tx' = [tx EXCEPT ![t] = Idle] /\ UNCHANGED <<quote, group, overlapped>>
    BY <1>7 DEF RollBack
  <2>2. tx'[t].step = "idle" /\ \A s \in Txs \ {t} : tx'[s] = tx[s]
    BY <1>1, <2>1 DEF Idle
  <2>3. \A g \in Groups : ~Choosing(t, g)'
    BY <2>2 DEF Choosing
  <2> QED
    BY <2>1, <2>2, <2>3, MoveKeepsNoticed
<1> QED
  BY <1>2, <1>3, <1>4, <1>5, <1>6, <1>7

(* ... and in the last.                                                    *)
LEMMA CommitsKeepNoticed ==
    ASSUME ChoiceInv, Noticed, LosersClosed, NEW t \in Txs, SendCommit(t) \/ CommitAccept(t)
    PROVE  Noticed' /\ LosersClosed'
<1> DEFINE q == tx[t].quote
           g == tx[t].group
<1>1. /\ tx \in [Txs -> TxRows] /\ quote \in [Quotes -> QuoteRows]
      /\ \A s \in Txs : Found(s) /\ (tx[s].step # "idle" => tx[s].quote \in Quotes)
      /\ \A o \in Quotes : quote[o].group \in Groups \cup {None}
      /\ None \notin Quotes /\ None \notin Groups
  BY Typed DEF ChoiceInv, TypeOK, Shapes
<1>2. CASE SendCommit(t)
  <2>1. UNCHANGED <<group, overlapped>> /\ tx[t].step = "sending" /\ q \in Quotes
    BY <1>1, <1>2 DEF SendCommit
  <2>2. /\ tx'[t] = Idle /\ \A s \in Txs \ {t} : tx'[s] = tx[s]
        /\ quote'[q] = [quote[q] EXCEPT !.status = "sent"]
        /\ \A o \in Quotes \ {q} : quote'[o] = quote[o]
    BY <1>1, <1>2, <2>1 DEF SendCommit
  <2>3. \A o \in Quotes : quote'[o].group = quote[o].group
    BY <1>1, <2>1, <2>2 DEF QuoteRows
  <2>4. ~Choosing(t, g)' /\ \A s \in Txs, h \in Groups : Choosing(s, h)' => Choosing(s, h) /\ s # t
    BY <1>1, <2>2 DEF Choosing, Idle
  <2>5. \A h \in Groups : ~GroupFree(h)' => ~GroupFree(h)
    BY <2>4 DEF GroupFree
  <2>6. \A h \in Groups : quote[q].group = h /\ (group[h].decided # None \/ ~GroupFree(h)) => q \in overlapped
    BY <2>1 DEF Noticed
  <2>7. LosersClosed'
    BY <1>1, <2>1, <2>2, <2>3, <2>6 DEF LosersClosed
  <2>8. \A s \in Txs, h \in Groups, o \in Quotes :
           Choosing(s, h)' /\ o # tx'[s].quote /\ quote'[o].status = "sent" /\ quote'[o].group = h
           => o \in tx'[s].rivals \cup tx'[s].losers \cup overlapped
    <3> SUFFICES ASSUME NEW s \in Txs, NEW h \in Groups, NEW o \in Quotes, Choosing(s, h)', o # tx'[s].quote,
                        quote'[o].status = "sent", quote'[o].group = h
                 PROVE  o \in tx'[s].rivals \cup tx'[s].losers \cup overlapped
      OBVIOUS
    <3>1. s # t /\ Choosing(s, h) /\ tx'[s] = tx[s] /\ quote[o].group = h
      BY <2>2, <2>3, <2>4
    <3>2. CASE o = q
      BY <2>6, <3>1, <3>2 DEF GroupFree
    <3>3. CASE o # q
      BY <2>2, <3>1, <3>3 DEF Noticed
    <3> QED
      BY <3>2, <3>3
  <2>9. \A s \in Txs, h \in Groups :
           /\ tx'[s].step = "sending" /\ quote'[tx'[s].quote].group = h
           /\ group[h].decided # None \/ ~GroupFree(h)'
           => tx'[s].quote \in overlapped
    <3>1. tx'[t].step = "idle"
      BY <2>2 DEF Idle
    <3> QED
      BY <1>1, <2>2, <2>3, <2>5, <3>1 DEF Noticed
  <2> QED
    BY <2>1, <2>7, <2>8, <2>9 DEF Noticed
<1>3. CASE CommitAccept(t)
  <2>1. \A o \in Quotes : quote'[o].status = "sent" =>
           quote[o].status = "sent" /\ o # q /\ o \notin tx[t].losers /\ quote'[o].group = quote[o].group
    BY <1>3, AcceptanceWrites
  <2>2. \A s \in Txs, h \in Groups : Choosing(s, h)' => Choosing(s, h) /\ s # t
    BY <1>3, AcceptanceWrites DEF Choosing, Idle
  <2>3. \A h \in Groups : ~GroupFree(h)' => ~GroupFree(h)
    BY <2>2 DEF GroupFree
  <2>4. g # None => Choosing(t, g)
    BY <1>3, AcceptanceWrites DEF Choosing
  <2>5. LosersClosed'
    <3> SUFFICES ASSUME NEW o \in Quotes, quote'[o].status = "sent", quote'[o].group # None,
                        group'[quote'[o].group].decided # None
                 PROVE  o \in overlapped'
      BY DEF LosersClosed
    <3>1. CASE quote[o].group = g
      BY <1>1, <1>3, <2>1, <2>4, <3>1, AcceptanceWrites DEF Noticed
    <3>2. CASE quote[o].group # g
      BY <1>1, <1>3, <2>1, <3>2, AcceptanceWrites DEF LosersClosed
    <3> QED
      BY <3>1, <3>2
  <2>6. \A s \in Txs, h \in Groups, o \in Quotes :
           Choosing(s, h)' /\ o # tx'[s].quote /\ quote'[o].status = "sent" /\ quote'[o].group = h
           => o \in tx'[s].rivals \cup tx'[s].losers \cup overlapped'
    BY <1>3, <2>1, <2>2, AcceptanceWrites DEF Noticed
  <2>7. ASSUME NEW s \in Txs, NEW h \in Groups, tx'[s].step = "sending", quote'[tx'[s].quote].group = h,
               group'[h].decided # None \/ ~GroupFree(h)'
        PROVE  tx'[s].quote \in overlapped'
    <3>1. s # t /\ tx'[s] = tx[s]
      BY <1>3, <2>7, AcceptanceWrites DEF Idle
    <3>2. quote[tx[s].quote].group = h
      BY <1>1, <1>3, <2>7, <3>1, AcceptanceWrites
    <3>3. group[h].decided # None \/ ~GroupFree(h)
      <4>1. CASE h = g
        BY <1>1, <2>4, <4>1 DEF GroupFree
      <4>2. CASE h # g
        BY <1>3, <2>3, <2>7, <4>2, AcceptanceWrites
      <4> QED
        BY <4>1, <4>2
    <3> QED
      BY <1>3, <2>7, <3>1, <3>2, <3>3, AcceptanceWrites DEF Noticed
  <2> QED
    BY <2>5, <2>6, <2>7 DEF Noticed
<1> QED
  BY <1>2, <1>3

(* Together: the invariant of the choice holds at first...                 *)
LEMMA ChoiceInit == Init => ChoiceInv /\ Noticed /\ LosersClosed
<1> SUFFICES ASSUME Init PROVE ChoiceInv /\ Noticed /\ LosersClosed
  OBVIOUS
<1>1. /\ TypeOK
      /\ \A t \in Txs : tx[t] = Idle
      /\ \A g \in Groups : group[g].decided = None
      /\ \A q \in Quotes : quote[q].status = "absent" /\ quote[q].group = None
  BY TypeInit DEF Init, Absent
<1> QED
  <2>1. \A t \in Txs : tx[t].step = "idle" /\ tx[t].quote = None /\ tx[t].rivals = {} /\ tx[t].losers = {}
    BY <1>1 DEF Idle
  <2>2. \A t \in Txs : Found(t)
    BY <1>1, <2>1 DEF Found
  <2>3. LocksApart
    BY <2>1 DEF LocksApart
  <2>4. ChosenFrom /\ Noticed
    BY <2>1 DEF ChosenFrom, Choosing, Noticed
  <2>5. Decided /\ ChoiceRecorded /\ LosersClosed
    BY <1>1 DEF Decided, ChoiceRecorded, LosersClosed
  <2> QED
    BY <1>1, <2>2, <2>3, <2>4, <2>5 DEF ChoiceInv

(* ... every step keeps it...                                              *)
LEMMA ChoiceNext == ChoiceInv /\ [Next]_vars => ChoiceInv'
<1> SUFFICES ASSUME ChoiceInv, [Next]_vars PROVE ChoiceInv'
  OBVIOUS
<1>1. TypeOK /\ TypeOK' /\ Decided /\ \A t \in Txs : Found(t)
  BY ShapesNext, ReferencesNext DEF ChoiceInv, TypeOK
<1> QED
  BY <1>1, QuietSteps, QuietKeepsChoice, StepsKeepChoice, SendingKeepsChoice, AcceptingKeepsChoice

(* ... and with it, that open options are noticed.                         *)
LEMMA NoticedNext == ChoiceInv /\ Noticed /\ LosersClosed /\ [Next]_vars => Noticed' /\ LosersClosed'
<1> SUFFICES ASSUME ChoiceInv, Noticed, LosersClosed, [Next]_vars PROVE Noticed' /\ LosersClosed'
  OBVIOUS
<1>1. TypeOK /\ TypeOK' /\ Decided /\ \A t \in Txs : Found(t)
  BY ShapesNext, ReferencesNext DEF ChoiceInv, TypeOK
<1> QED
  BY <1>1, QuietSteps, QuietKeepsNoticed, StepsKeepNoticed, CommitsKeepNoticed

(* An option is accepted exactly when its group says that it was chosen.   *)
THEOREM ChoiceIsRecorded == Spec => []ChoiceRecorded
<1>1. ChoiceInv => ChoiceRecorded
  BY DEF ChoiceInv
<1> QED
  BY ChoiceInit, ChoiceNext, <1>1, PTL DEF Spec

(* Once a client has chosen, no other option is open but one whose sending *)
(* ran beside the choice.                                                  *)
THEOREM LosersAreClosed == Spec => []LosersClosed
BY ChoiceInit, ChoiceNext, NoticedNext, PTL DEF Spec

(* No step changes the status, the group or the project of a quote that    *)
(* has been answered.                                                      *)
THEOREM AnswersAreFinal == Spec => AnswerIsFinal
<1> DEFINE Kept == \A q \in Quotes : quote[q].status \in Answered =>
               /\ quote'[q].status = quote[q].status /\ quote'[q].group = quote[q].group
               /\ quote[q].project # None => quote'[q].project = quote[q].project
<1>1. ChoiceInv /\ [Next]_vars => Kept
  <2> SUFFICES ASSUME ChoiceInv, [Next]_vars PROVE Kept
    OBVIOUS
  <2>1. TypeOK /\ Decided /\ (\A t \in Txs : Found(t)) /\ tx \in [Txs -> TxRows] /\ quote \in [Quotes -> QuoteRows]
    BY DEF ChoiceInv, TypeOK, Shapes
  <2>2. CASE QuietStep
    BY <2>2 DEF QuietStep
  <2>3. CASE UNCHANGED quote
    BY <2>3
  <2>4. ASSUME NEW t \in Txs, SendCommit(t) PROVE Kept
    <3>1. quote' = [quote EXCEPT ![tx[t].quote].status = "sent"] /\ quote[tx[t].quote].status = "draft"
      BY <2>1, <2>4 DEF SendCommit, Found
    <3> QED
      BY <2>1, <3>1 DEF Answered
  <2>5. ASSUME NEW t \in Txs, CommitAccept(t) PROVE Kept
    BY <2>5, AcceptanceWrites DEF Answered
  <2>6. QuietStep \/ UNCHANGED quote \/ \E t \in Txs : SendCommit(t) \/ CommitAccept(t)
    <3>1. ASSUME NEW t \in Txs PROVE
            /\ \A q \in Quotes : SendBegin(t, q) \/ AcceptBegin(t, q) \/ LockRival(t, q) => UNCHANGED quote
            /\ \A p, as : Resolve(t, p, as) => UNCHANGED quote
            /\ Choose(t) \/ RollBack(t) => UNCHANGED quote
      BY DEF SendBegin, AcceptBegin, LockRival, Resolve, Choose, RollBack
    <3> QED
      BY <2>1, <3>1, QuietSteps
  <2> QED
    BY <2>2, <2>3, <2>4, <2>5, <2>6
<1>2. ChoiceInv /\ [Next]_vars => [Kept]_vars
  BY <1>1
<1>3. Spec => [][Kept]_vars
  <2> HIDE DEF Kept
  <2> QED
    BY ChoiceInit, ChoiceNext, <1>2, PTL DEF Spec
<1> QED
  BY <1>3 DEF AnswerIsFinal

-----------------------------------------------------------------------------
(* Sums of the amounts of revisions.                                       *)

Top(s) == CHOOSE x \in s : TRUE
Sums(g, row, D) == g = [s \in D |-> IF s = {} THEN 0 ELSE row[Top(s)].amount + g[s \ {Top(s)}]]
Small(S, n) == {s \in SUBSET S : Cardinality(s) <= n}

\* The sum over S, as the folds of the library choose it.
Total(row, S) == CHOOSE g : Sums(g, row, SUBSET S)

LEMMA LeastNumber ==
  ASSUME NEW T, T \subseteq Nat, T # {}
  PROVE  \E n \in T : \A m \in T : n <= m
<1>1. PICK n \in T : \A m \in T : ~(<<m, n>> \in OpToRel(<, Nat))
  BY NatLessThanWellFounded, WFMin
<1>2. \A m \in T : ~(m < n) /\ m \in Nat /\ n \in Nat
  BY <1>1 DEF OpToRel
<1>3. \A m \in T : n <= m
  BY <1>2, SMT
<1> QED
  BY <1>3

LEMMA TopOf ==
  ASSUME NEW S, IsFiniteSet(S), NEW s \in SUBSET S, s # {}
  PROVE  /\ Top(s) \in s /\ Top(s) \in S /\ s \ {Top(s)} \in SUBSET S
         /\ IsFiniteSet(s) /\ IsFiniteSet(s \ {Top(s)})
         /\ Cardinality(s) \in Nat \ {0} /\ Cardinality(s \ {Top(s)}) = Cardinality(s) - 1
<1>1. Top(s) \in s
  BY DEF Top
<1>2. IsFiniteSet(s)
  BY FS_Subset
<1>3. /\ IsFiniteSet(s \ {Top(s)})
      /\ Cardinality(s \ {Top(s)}) = Cardinality(s) - 1
      /\ Cardinality(s) \in Nat
      /\ Cardinality(s) # 0
  BY <1>1, <1>2, FS_RemoveElement, FS_CardinalityType, FS_EmptySet
<1> QED
  BY <1>1, <1>2, <1>3

LEMMA SumsExist ==
  ASSUME NEW row, NEW S, IsFiniteSet(S), \A x \in S : row[x].amount \in Int
  PROVE  \E g \in [SUBSET S -> Int] : Sums(g, row, SUBSET S)
<1> DEFINE Adding(n) == \E g \in [Small(S, n) -> Int] : Sums(g, row, Small(S, n))
           Bad == {n \in Nat : ~Adding(n)}
<1>1. Adding(0)
  <2>1. \A s \in Small(S, 0) : s = {}
    <3> SUFFICES ASSUME NEW s \in Small(S, 0) PROVE s = {}
      OBVIOUS
    <3>1. IsFiniteSet(s) /\ Cardinality(s) <= 0
      BY FS_Subset DEF Small
    <3> QED
      BY <3>1, FS_CardinalityType, FS_EmptySet
  <2>2. Sums([s \in Small(S, 0) |-> 0], row, Small(S, 0))
    BY <2>1 DEF Sums
  <2> QED
    BY <2>2
<1>2. ASSUME NEW n \in Nat, Adding(n) PROVE Adding(n + 1)
  <2>1. PICK g \in [Small(S, n) -> Int] : Sums(g, row, Small(S, n))
    BY <1>2
  <2> DEFINE h == [s \in Small(S, n + 1) |-> IF s = {} THEN 0 ELSE row[Top(s)].amount + g[s \ {Top(s)}]]
  <2>2. \A s \in Small(S, n + 1) : s # {} => row[Top(s)].amount \in Int /\ s \ {Top(s)} \in Small(S, n)
    <3> SUFFICES ASSUME NEW s \in Small(S, n + 1), s # {}
                 PROVE row[Top(s)].amount \in Int /\ s \ {Top(s)} \in Small(S, n)
      OBVIOUS
    <3>1. s \in SUBSET S /\ Cardinality(s) <= n + 1
      BY DEF Small
    <3>2. /\ Top(s) \in S /\ s \ {Top(s)} \in SUBSET S
          /\ Cardinality(s) \in Nat \ {0} /\ Cardinality(s \ {Top(s)}) = Cardinality(s) - 1
      BY <3>1, TopOf
    <3>3. Cardinality(s \ {Top(s)}) <= n
      BY <3>1, <3>2
    <3>4. row[Top(s)].amount \in Int
      BY <3>2
    <3> QED
      BY <3>2, <3>3, <3>4 DEF Small
  <2>3. h \in [Small(S, n + 1) -> Int]
    BY <2>2
  <2>4. \A s \in Small(S, n) : s \in Small(S, n + 1)
    <3> SUFFICES ASSUME NEW s \in Small(S, n) PROVE s \in Small(S, n + 1)
      OBVIOUS
    <3>1. s \in SUBSET S /\ Cardinality(s) <= n /\ Cardinality(s) \in Nat
      BY FS_Subset, FS_CardinalityType DEF Small
    <3> QED
      BY <3>1 DEF Small
  <2>5. \A s \in Small(S, n) : h[s] = g[s]
    BY <2>1, <2>4 DEF Sums
  <2>6. \A s \in Small(S, n + 1) : s # {} => h[s \ {Top(s)}] = g[s \ {Top(s)}]
    BY <2>2, <2>5
  <2>7. Sums(h, row, Small(S, n + 1))
    BY <2>6 DEF Sums
  <2> QED
    BY <2>3, <2>7
<1>3. Bad = {}
  <2> SUFFICES ASSUME Bad # {} PROVE FALSE
    OBVIOUS
  <2> HIDE DEF Adding
  <2>1. PICK n \in Bad : \A m \in Bad : n <= m
    <3> HIDE DEF Bad
    <3>1. Bad \subseteq Nat
      BY DEF Bad
    <3> QED
      BY <3>1, LeastNumber
  <2>2. n # 0
    BY <1>1
  <2>3. n - 1 \in Nat /\ Adding(n - 1)
    BY <2>1, <2>2
  <2>4. Adding((n - 1) + 1)
    BY <2>3, <1>2
  <2> QED
    BY <2>4
<1>4. Cardinality(S) \in Nat /\ Small(S, Cardinality(S)) = SUBSET S
  BY FS_Subset, FS_CardinalityType DEF Small
<1> QED
  <2>1. Adding(Cardinality(S))
    BY <1>3, <1>4
  <2> QED
    BY <2>1, <1>4

\* Rows that agree on T have the same sums there.
LEMMA SumsAlike ==
  ASSUME NEW f, NEW g, NEW S, NEW T, T \subseteq S, IsFiniteSet(S), \A x \in T : f[x].amount = g[x].amount,
         NEW a, NEW b, Sums(a, f, SUBSET S), Sums(b, g, SUBSET T)
  PROVE  \A s \in SUBSET T : a[s] = b[s]
<1> DEFINE Bad == {n \in Nat : \E s \in SUBSET T : Cardinality(s) = n /\ a[s] # b[s]}
<1> SUFFICES ASSUME NEW s0 \in SUBSET T, a[s0] # b[s0] PROVE FALSE
  OBVIOUS
<1>1. Bad # {} /\ Bad \subseteq Nat
  <2>1. Cardinality(s0) \in Nat
    BY FS_Subset, FS_CardinalityType
  <2> QED
    BY <2>1
<1>2. PICK n \in Bad : \A m \in Bad : n <= m
  <2> HIDE DEF Bad
  <2> QED
    BY <1>1, LeastNumber
<1>3. PICK s \in SUBSET T : Cardinality(s) = n /\ a[s] # b[s]
  BY <1>2
<1>4. s \in SUBSET S /\ IsFiniteSet(T)
  BY FS_Subset
<1>5. s # {}
  BY <1>3, <1>4 DEF Sums
<1>6. /\ Top(s) \in s /\ s \ {Top(s)} \in SUBSET T
      /\ Cardinality(s) \in Nat \ {0} /\ Cardinality(s \ {Top(s)}) = Cardinality(s) - 1
  BY <1>4, <1>5, TopOf
<1>7. a[s \ {Top(s)}] = b[s \ {Top(s)}]
  <2> SUFFICES ASSUME a[s \ {Top(s)}] # b[s \ {Top(s)}] PROVE FALSE
    OBVIOUS
  <2>1. n - 1 \in Bad
    BY <1>3, <1>6
  <2> QED
    BY <2>1, <1>2, <1>6, <1>3
<1>8. a[s] = f[Top(s)].amount + a[s \ {Top(s)}] /\ b[s] = g[Top(s)].amount + b[s \ {Top(s)}]
  BY <1>4, <1>5 DEF Sums
<1> QED
  BY <1>3, <1>6, <1>7, <1>8

LEMMA SumsWithin ==
  ASSUME NEW row, NEW S, NEW T, T \subseteq S, IsFiniteSet(S),
         NEW a, NEW b, Sums(a, row, SUBSET S), Sums(b, row, SUBSET T)
  PROVE  a[T] = b[T]
<1>1. \A x \in T : row[x].amount = row[x].amount
  OBVIOUS
<1>2. \A s \in SUBSET T : a[s] = b[s]
  BY <1>1, SumsAlike, SMTT(60)
<1> QED
  BY <1>2

LEMMA TotalSums ==
  ASSUME NEW row, NEW S, IsFiniteSet(S), \A x \in S : row[x].amount \in Int
  PROVE  Sums(Total(row, S), row, SUBSET S)
BY SumsExist DEF Total

LEMMA TotalInt ==
  ASSUME NEW row, NEW S, IsFiniteSet(S), \A x \in S : row[x].amount \in Int
  PROVE  Total(row, S)[S] \in Int
<1>1. PICK g \in [SUBSET S -> Int] : Sums(g, row, SUBSET S)
  BY SumsExist
<1>2. Sums(Total(row, S), row, SUBSET S)
  BY TotalSums
<1>3. \A s \in SUBSET S : Total(row, S)[s] = g[s]
  BY <1>1, <1>2, SumsAlike
<1> QED
  BY <1>1, <1>3

LEMMA TotalSame ==
  ASSUME NEW f, NEW g, NEW S, IsFiniteSet(S), \A x \in S : f[x].amount \in Int /\ f[x].amount = g[x].amount
  PROVE  Total(f, S)[S] = Total(g, S)[S]
<1>1. Sums(Total(f, S), f, SUBSET S) /\ Sums(Total(g, S), g, SUBSET S)
  BY TotalSums
<1> QED
  BY <1>1, SumsAlike

LEMMA TotalTop ==
  ASSUME NEW row, NEW S, IsFiniteSet(S), S # {}, \A x \in S : row[x].amount \in Int
  PROVE  Total(row, S)[S] = row[Top(S)].amount + Total(row, S \ {Top(S)})[S \ {Top(S)}]
<1> DEFINE T == S \ {Top(S)}
<1>1. Sums(Total(row, S), row, SUBSET S)
  BY TotalSums
<1>2. Total(row, S)[S] = row[Top(S)].amount + Total(row, S)[T]
  BY <1>1 DEF Sums
<1>3. T \subseteq S /\ IsFiniteSet(T) /\ \A x \in T : row[x].amount \in Int
  BY TopOf
<1> HIDE DEF T
<1>4. Sums(Total(row, T), row, SUBSET T)
  BY <1>3, TotalSums
<1>5. Total(row, S)[T] = Total(row, T)[T]
  BY <1>1, <1>3, <1>4, SumsWithin
<1> QED
  BY <1>2, <1>5 DEF T

\* Any element may be taken out of a sum.
LEMMA TotalTake ==
  ASSUME NEW row, NEW S, IsFiniteSet(S), \A x \in S : row[x].amount \in Int, NEW e \in S
  PROVE  Total(row, S)[S] = row[e].amount + Total(row, S \ {e})[S \ {e}]
<1> DEFINE Of(s) == Total(row, s)[s]
           Differs(s) == \E x \in s : Of(s) # row[x].amount + Of(s \ {x})
           Bad == {n \in Nat : \E s \in SUBSET S : Cardinality(s) = n /\ Differs(s)}
<1>0. /\ \A s : IsFiniteSet(s) /\ s # {} /\ s \subseteq S => Of(s) = row[Top(s)].amount + Of(s \ {Top(s)})
      /\ \A s : IsFiniteSet(s) /\ s \subseteq S => Of(s) \in Int
  <2>1. ASSUME NEW s, IsFiniteSet(s), s # {}, s \subseteq S
        PROVE  Total(row, s)[s] = row[Top(s)].amount + Total(row, s \ {Top(s)})[s \ {Top(s)}]
    <3>1. \A x \in s : row[x].amount \in Int
      BY <2>1
    <3> QED
      BY <2>1, <3>1, TotalTop
  <2>2. ASSUME NEW s, IsFiniteSet(s), s \subseteq S PROVE Total(row, s)[s] \in Int
    <3>1. \A x \in s : row[x].amount \in Int
      BY <2>2
    <3> QED
      BY <2>2, <3>1, TotalInt
  <2> QED
    BY <2>1, <2>2
<1> SUFFICES ASSUME Differs(S) PROVE FALSE
  OBVIOUS
<1> HIDE DEF Of
<1>1. Bad # {} /\ Bad \subseteq Nat
  <2> HIDE DEF Differs
  <2>1. Cardinality(S) \in Nat
    BY FS_CardinalityType
  <2> QED
    BY <2>1
<1>2. PICK n \in Bad : \A m \in Bad : n <= m
  <2> HIDE DEF Bad
  <2> QED
    BY <1>1, LeastNumber
<1>3. PICK s \in SUBSET S : Cardinality(s) = n /\ Differs(s)
  <2> HIDE DEF Differs
  <2> QED
    BY <1>2
<1>4. PICK x \in s : Of(s) # row[x].amount + Of(s \ {x})
  BY <1>3
<1> DEFINE y == Top(s)
<1>5. /\ y \in s /\ IsFiniteSet(s) /\ n \in Nat \ {0}
      /\ IsFiniteSet(s \ {y}) /\ Cardinality(s \ {y}) = n - 1
  BY <1>3, <1>4, TopOf
<1>6. IsFiniteSet(s \ {x}) /\ Cardinality(s \ {x}) = n - 1
  BY <1>3, <1>4, <1>5, FS_RemoveElement
<1>7. Of(s) = row[y].amount + Of(s \ {y})
  BY <1>0, <1>5
<1>8. x # y
  BY <1>4, <1>7
<1> HIDE DEF y
<1>9. ~Differs(s \ {x}) /\ ~Differs(s \ {y})
  <2>1. n - 1 \in Nat /\ n - 1 \notin Bad
    BY <1>2, <1>5
  <2>2. s \ {x} \in SUBSET S /\ s \ {y} \in SUBSET S
    OBVIOUS
  <2> HIDE DEF Differs
  <2> QED
    BY <2>1, <2>2, <1>5, <1>6
<1>10. Of(s \ {x}) = row[y].amount + Of((s \ {x}) \ {y})
  BY <1>5, <1>8, <1>9
<1>11. Of(s \ {y}) = row[x].amount + Of((s \ {y}) \ {x})
  BY <1>4, <1>8, <1>9
<1>12. (s \ {x}) \ {y} = (s \ {y}) \ {x}
  OBVIOUS
<1>13. row[x].amount \in Int /\ row[y].amount \in Int /\ Of((s \ {y}) \ {x}) \in Int
  <2>1. (s \ {y}) \ {x} \in SUBSET S /\ x \in S /\ y \in S
    BY <1>5
  <2>2. IsFiniteSet((s \ {y}) \ {x})
    BY <1>5, FS_RemoveElement
  <2> QED
    BY <2>1, <2>2, <1>0
<1> DEFINE rest == Of((s \ {y}) \ {x})
<1>14. Of(s \ {x}) = row[y].amount + rest /\ Of(s \ {y}) = row[x].amount + rest /\ rest \in Int
  BY <1>10, <1>11, <1>12, <1>13
<1> HIDE DEF rest, Bad
<1>15. row[y].amount + (row[x].amount + rest) = row[x].amount + (row[y].amount + rest)
  BY <1>13, <1>14
<1> QED
  BY <1>4, <1>7, <1>14, <1>15

-----------------------------------------------------------------------------
(* What an acceptance adds to the contract.                                *)

\* What a transaction found when it resolved its project still holds: a price
\* is set only where there is none, only an addition names a revision, and
\* that one is of the project, unless somebody has deleted it since.
Resolved(t) == tx[t].step = "applying" =>
    /\ tx[t].as = "base" => tx[t].project # None /\ project[tx[t].project].price = None
    /\ tx[t].as # "addition" => tx[t].revision = None
    /\ tx[t].revision # None =>
         /\ revision[tx[t].revision].status # "absent"
         /\ revision[tx[t].revision].status # "deleted" => revision[tx[t].revision].project = tx[t].project

\* No two transactions hold the same project.
ProjectsApart == \A s, t \in Txs :
    s # t /\ tx[s].step = "applying" /\ tx[t].step = "applying" /\ tx[s].project # None
        => tx[s].project # tx[t].project

ContractInv == ChoiceInv /\ ProjectsApart /\ \A t \in Txs : Resolved(t)

LEMMA ContractInit == Init => ContractInv
<1> SUFFICES ASSUME Init PROVE ContractInv
  OBVIOUS
<1>1. \A t \in Txs : tx[t].step = "idle"
  BY DEF Init, Idle
<1> QED
  BY <1>1, ChoiceInit DEF ContractInv, ProjectsApart, Resolved

(* A revision once stored keeps its project until it is deleted, for good. *)
LEMMA RevisionsStay ==
    ASSUME TypeOK, [Next]_vars, NEW r \in Revisions, revision[r].status # "absent"
    PROVE  /\ revision'[r].status # "absent"
           /\ revision'[r].status # "deleted" =>
                revision[r].status # "deleted" /\ revision'[r].project = revision[r].project
<1> DEFINE Stays == /\ revision'[r].status # "absent"
                    /\ revision'[r].status # "deleted" =>
                         revision[r].status # "deleted" /\ revision'[r].project = revision[r].project
<1>0. revision \in [Revisions -> RevisionRows] /\ revision[r] \in RevisionRows /\ tx \in [Txs -> TxRows]
      /\ \A t \in Txs : tx[t].revision # None => tx[t].seen \in {"draft", "sent"}
  BY DEF TypeOK, Shapes, References, TxRows
<1>1. ASSUME UNCHANGED revision PROVE Stays
  BY <1>1
<1>2. ASSUME NEW s \in Revisions, NEW p \in Projects, NEW q \in Quotes, NEW amount \in Amounts,
             CreateRevision(s, p, q, amount)
      PROVE  Stays
  BY <1>0, <1>2 DEF CreateRevision
<1>3. ASSUME NEW s \in Revisions, NEW q \in Quotes, NEW amount \in Amounts, UpdateRevision(s, q, amount)
      PROVE  Stays
  <2>1. revision[s] \in RevisionRows /\ revision' = [revision EXCEPT ![s] = [revision[s] EXCEPT !.quote = q, !.amount = amount]]
        /\ revision[s].status = "draft"
    BY <1>0, <1>3 DEF UpdateRevision
  <2> QED
    BY <1>0, <2>1 DEF RevisionRows
<1>4. ASSUME NEW s \in Revisions, AcceptRevision(s) PROVE Stays
  <2>1. revision' = [revision EXCEPT ![s] = [revision[s] EXCEPT !.status = "accepted"]] /\ revision[s].status = "sent"
    BY <1>0, <1>4 DEF AcceptRevision
  <2> QED
    BY <1>0, <2>1 DEF RevisionRows
<1>5. ASSUME NEW s \in Revisions, NEW from \in {"draft", "sent", "declined", "withdrawn", "deleted"},
             NEW to \in {"draft", "sent", "declined", "withdrawn", "deleted"}, MoveRevision(s, from, to)
      PROVE  Stays
  <2>1. /\ revision' = [revision EXCEPT ![s] = IF to = "deleted" THEN Deleted ELSE [revision[s] EXCEPT !.status = to]]
        /\ revision[s].status \in {"draft", "sent"}
    BY <1>0, <1>5 DEF MoveRevision
  <2> QED
    BY <1>0, <2>1 DEF RevisionRows, Deleted, Blank
<1>6. ASSUME NEW t \in Txs, CommitAccept(t) PROVE Stays
  <2>1. CASE UNCHANGED revision
    BY <2>1
  <2>2. ASSUME NEW s \in Revisions, MayAdd(t, s), revision' = [revision EXCEPT ![s] = Addition(t, s)] PROVE Stays
    <3>1. s = r => tx[t].revision # None /\ revision[r].status \in {"draft", "sent"}
      BY <1>0, <2>2 DEF MayAdd
    <3>2. s = r => revision'[r] = [revision[r] EXCEPT !.status = "accepted"]
      BY <1>0, <2>2, <3>1 DEF Addition
    <3> QED
      BY <1>0, <2>2, <3>1, <3>2 DEF RevisionRows
  <2> QED
    BY <1>6, <2>1, <2>2 DEF CommitAccept
<1>7. \/ UNCHANGED revision
      \/ \E s \in Revisions, p \in Projects, q \in Quotes, amount \in Amounts : CreateRevision(s, p, q, amount)
      \/ \E s \in Revisions, q \in Quotes, amount \in Amounts : UpdateRevision(s, q, amount)
      \/ \E s \in Revisions : AcceptRevision(s)
      \/ \E s \in Revisions, from, to \in {"draft", "sent", "declined", "withdrawn", "deleted"} : MoveRevision(s, from, to)
      \/ \E t \in Txs : CommitAccept(t)
  <2>1. CASE UNCHANGED vars
    BY <2>1 DEF vars
  <2>2. CASE ExpireDueQuotes
    BY <2>2 DEF ExpireDueQuotes
  <2>3. /\ \A q, g, p : Create(q, g, p) => UNCHANGED revision
        /\ \A q, g, p, lapsed : Update(q, g, p, lapsed) => UNCHANGED revision
        /\ \A q : Delete(q) \/ Decline(q) \/ Lapse(q) => UNCHANGED revision
        /\ \A q, d : Duplicate(q, d) => UNCHANGED revision
        /\ \A q, d, g : DuplicateAsOption(q, d, g) => UNCHANGED revision
        /\ \A g, qs : CreateGroup(g, qs) => UNCHANGED revision
    BY DEF Create, Update, Delete, Decline, Lapse, Duplicate, DuplicateAsOption, CreateGroup
  <2>4. /\ \A t, q : SendBegin(t, q) \/ AcceptBegin(t, q) \/ LockRival(t, q) => UNCHANGED revision
        /\ \A t : SendCommit(t) \/ Choose(t) \/ RollBack(t) => UNCHANGED revision
        /\ \A p, price : CreateProject(p, price) \/ SetPrice(p, price) => UNCHANGED revision
    BY DEF SendBegin, AcceptBegin, LockRival, SendCommit, Choose, RollBack, CreateProject, SetPrice
  <2>5. ASSUME NEW t, NEW p, NEW as, Resolve(t, p, as) PROVE UNCHANGED revision
    BY <2>5 DEF Resolve
  <2>6. CASE Next
    BY <2>2, <2>3, <2>4, <2>5, <2>6, NextCases, Zenon
  <2> HIDE DEF vars
  <2> QED
    BY <2>1, <2>6
<1> HIDE DEF Stays
<1>8. Stays
  BY <1>1, <1>2, <1>3, <1>4, <1>5, <1>6, <1>7, Zenon
<1> QED
  BY <1>8 DEF Stays

(* Nobody sets the price of a project that a transaction holds, and a      *)
(* transaction that holds one has come by Resolve.                         *)
LEMMA HeldProjects ==
    ASSUME ContractInv, [Next]_vars
    PROVE  \/ \E t \in Txs, p \in Projects \cup {None}, as \in {"base", "addition", "none"} : Resolve(t, p, as)
           \/ \A s \in Txs : tx'[s].step = "applying" =>
                /\ tx'[s] = tx[s]
                /\ tx[s].project # None => project'[tx[s].project] = project[tx[s].project]
<1> DEFINE Holds(s) == tx'[s].step = "applying" =>
                         /\ tx'[s] = tx[s]
                         /\ tx[s].project # None => project'[tx[s].project] = project[tx[s].project]
<1>0. /\ tx \in [Txs -> TxRows] /\ TypeOK /\ Decided /\ (\A t \in Txs : Found(t))
      /\ project \in [Projects -> [made : BOOLEAN, price : Nat \cup {None}]]
      /\ \A t \in Txs : tx[t].project \in Projects \cup {None}
  BY DEF ContractInv, ChoiceInv, TypeOK, Shapes, TxRows
<1>1. ASSUME NEW t \in Txs,
             \/ \E q \in Quotes : SendBegin(t, q) \/ AcceptBegin(t, q) \/ LockRival(t, q)
             \/ SendCommit(t) \/ Choose(t) \/ RollBack(t)
      PROVE  \A s \in Txs : Holds(s)
  <2>1. UNCHANGED project
    BY <1>1 DEF SendBegin, AcceptBegin, LockRival, SendCommit, Choose, RollBack
  <2>2. \A s \in Txs \ {t} : tx'[s] = tx[s]
    BY <1>0, <1>1 DEF SendBegin, AcceptBegin, LockRival, SendCommit, Choose, RollBack
  <2>3. tx'[t].step # "applying"
    <3>1. CASE \E q \in Quotes : SendBegin(t, q) \/ AcceptBegin(t, q)
      BY <1>0, <3>1 DEF SendBegin, AcceptBegin, Idle
    <3>2. CASE SendCommit(t) \/ RollBack(t)
      BY <1>0, <3>2 DEF SendCommit, RollBack, Idle
    <3>3. CASE \E q \in Quotes : LockRival(t, q)
      <4>1. PICK rs, ls : tx' = [tx EXCEPT ![t] = [tx[t] EXCEPT !.rivals = rs, !.losers = ls]] /\ tx[t].step = "choosing"
        BY <1>0, <3>3 DEF LockRival
      <4> QED
        BY <1>0, <4>1 DEF TxRows
    <3>4. CASE Choose(t)
      BY <1>0, <3>4 DEF Choose, TxRows
    <3> QED
      BY <1>1, <3>1, <3>2, <3>3, <3>4
  <2> QED
    BY <2>1, <2>2, <2>3
<1>2. ASSUME NEW t \in Txs, CommitAccept(t) PROVE \A s \in Txs : Holds(s)
  <2>1. tx' = [tx EXCEPT ![t] = Idle] /\ tx[t].step = "applying"
    BY <1>2 DEF CommitAccept
  <2>2. tx'[t].step # "applying" /\ \A s \in Txs \ {t} : tx'[s] = tx[s]
    BY <1>0, <2>1 DEF Idle
  <2>3. \A p \in Projects : p # tx[t].project => project'[p] = project[p]
    BY <1>0, <1>2 DEF CommitAccept
  <2> QED
    BY <1>0, <2>1, <2>2, <2>3 DEF ContractInv, ProjectsApart
<1>3. ASSUME QuietStep PROVE \A s \in Txs : Holds(s)
  <2>1. UNCHANGED tx
    BY <1>3 DEF QuietStep
  <2> SUFFICES ASSUME NEW s \in Txs, tx[s].step = "applying", tx[s].project # None
               PROVE  project'[tx[s].project] = project[tx[s].project]
    BY <2>1
  <2>2. ~ProjectFree(tx[s].project)
    BY DEF ProjectFree
  <2>3. CASE UNCHANGED project
    BY <2>3
  <2>4. ASSUME NEW p \in Projects, NEW price \in Prices \cup {None}, CreateProject(p, price) \/ SetPrice(p, price)
        PROVE  project'[tx[s].project] = project[tx[s].project]
    <3>1. p # tx[s].project
      BY <2>2, <2>4 DEF CreateProject, SetPrice
    <3> QED
      BY <1>0, <2>4, <3>1 DEF CreateProject, SetPrice
  <2>5. \/ UNCHANGED project
        \/ \E p \in Projects, price \in Prices \cup {None} : CreateProject(p, price) \/ SetPrice(p, price)
        \/ \E t \in Txs : CommitAccept(t)
    <3>1. CASE UNCHANGED vars
      BY <3>1 DEF vars
    <3>2. CASE ExpireDueQuotes
      BY <3>2 DEF ExpireDueQuotes
    <3>3. /\ \A q, g, p : Create(q, g, p) => UNCHANGED project
          /\ \A q, g, p, lapsed : Update(q, g, p, lapsed) => UNCHANGED project
          /\ \A q : Delete(q) \/ Decline(q) \/ Lapse(q) => UNCHANGED project
          /\ \A q, d : Duplicate(q, d) => UNCHANGED project
          /\ \A q, d, g : DuplicateAsOption(q, d, g) => UNCHANGED project
          /\ \A g, qs : CreateGroup(g, qs) => UNCHANGED project
      BY DEF Create, Update, Delete, Decline, Lapse, Duplicate, DuplicateAsOption, CreateGroup
    <3>4. /\ \A t, q : SendBegin(t, q) \/ AcceptBegin(t, q) \/ LockRival(t, q) => UNCHANGED project
          /\ \A t : SendCommit(t) \/ Choose(t) \/ RollBack(t) => UNCHANGED project
      BY DEF SendBegin, AcceptBegin, LockRival, SendCommit, Choose, RollBack
    <3>5. /\ \A r, p, q, amount : CreateRevision(r, p, q, amount) => UNCHANGED project
          /\ \A r, q, amount : UpdateRevision(r, q, amount) => UNCHANGED project
          /\ \A r : AcceptRevision(r) => UNCHANGED project
          /\ \A r, from, to : MoveRevision(r, from, to) => UNCHANGED project
      BY DEF CreateRevision, UpdateRevision, AcceptRevision, MoveRevision
    <3>6. ASSUME NEW t, NEW p, NEW as, Resolve(t, p, as) PROVE UNCHANGED project
      BY <3>6 DEF Resolve
    <3>7. CASE Next
      BY <3>2, <3>3, <3>4, <3>5, <3>6, <3>7, NextCases, Zenon
    <3> HIDE DEF vars
    <3> QED
      BY <3>1, <3>7
  <2>6. ASSUME NEW t \in Txs, CommitAccept(t) PROVE project'[tx[s].project] = project[tx[s].project]
    BY <1>2, <2>1, <2>6
  <2> QED
    BY <2>3, <2>4, <2>5, <2>6
<1> QED
  <2> HIDE DEF Holds
  <2>1. \/ \E t \in Txs, p \in Projects \cup {None}, as \in {"base", "addition", "none"} : Resolve(t, p, as)
        \/ \A s \in Txs : Holds(s)
    <3>1. \/ QuietStep
          \/ \E t \in Txs, q \in Quotes : SendBegin(t, q)
          \/ \E t \in Txs, q \in Quotes : AcceptBegin(t, q)
          \/ \E t \in Txs : SendCommit(t)
          \/ \E t \in Txs : Choose(t)
          \/ \E t \in Txs, r \in Quotes : LockRival(t, r)
          \/ \E t \in Txs, p \in Projects \cup {None}, as \in {"base", "addition", "none"} : Resolve(t, p, as)
          \/ \E t \in Txs : CommitAccept(t)
          \/ \E t \in Txs : RollBack(t)
      BY <1>0, QuietSteps
    <3> QED
      BY <3>1, <1>1, <1>2, <1>3, Zenon
  <2> QED
    BY <2>1 DEF Holds

(* Every step keeps what acceptances under way have found.                 *)
LEMMA ContractNext == ContractInv /\ [Next]_vars => ContractInv'
<1> SUFFICES ASSUME ContractInv, [Next]_vars PROVE ContractInv'
  OBVIOUS
<1>0. /\ tx \in [Txs -> TxRows] /\ TypeOK /\ ProjectsApart /\ None \notin Revisions
      /\ \A t \in Txs : Resolved(t) /\ tx[t].revision \in Revisions \cup {None}
      /\ revision \in [Revisions -> RevisionRows]
  BY QuoteAcceptanceAssumption DEF ContractInv, ChoiceInv, TypeOK, Shapes, TxRows
<1>1. ChoiceInv'
  BY ChoiceNext DEF ContractInv
<1>2. ASSUME NEW s \in Txs, tx[s].step = "applying", tx'[s] = tx[s],
             tx[s].project # None => project'[tx[s].project] = project[tx[s].project]
      PROVE  Resolved(s)'
  <2>1. tx[s].as = "base" => tx[s].project # None /\ project'[tx[s].project].price = None
    BY <1>0, <1>2 DEF Resolved
  <2>2. tx[s].as # "addition" => tx[s].revision = None
    BY <1>0, <1>2 DEF Resolved
  <2>3. ASSUME tx[s].revision # None
        PROVE  /\ revision'[tx[s].revision].status # "absent"
               /\ revision'[tx[s].revision].status # "deleted" => revision'[tx[s].revision].project = tx[s].project
    <3>1. /\ tx[s].revision \in Revisions /\ revision[tx[s].revision].status # "absent"
          /\ revision[tx[s].revision].status # "deleted" => revision[tx[s].revision].project = tx[s].project
      BY <1>0, <1>2, <2>3 DEF Resolved
    <3> QED
      BY <1>0, <3>1, RevisionsStay
  <2> QED
    BY <1>2, <2>1, <2>2, <2>3 DEF Resolved
<1>3. ASSUME \A s \in Txs : tx'[s].step = "applying" =>
               /\ tx'[s] = tx[s]
               /\ tx[s].project # None => project'[tx[s].project] = project[tx[s].project]
      PROVE  ContractInv'
  <2>1. ASSUME NEW s \in Txs PROVE Resolved(s)'
    <3>1. CASE tx'[s].step = "applying"
      BY <1>2, <1>3, <3>1
    <3>2. CASE tx'[s].step # "applying"
      BY <3>2 DEF Resolved
    <3> QED
      BY <3>1, <3>2
  <2>2. ProjectsApart'
    BY <1>0, <1>3 DEF ProjectsApart
  <2> QED
    BY <1>1, <2>1, <2>2 DEF ContractInv
<1>4. ASSUME NEW t \in Txs, NEW p \in Projects \cup {None}, NEW as \in {"base", "addition", "none"}, Resolve(t, p, as)
      PROVE  ContractInv'
  <2> DEFINE q == tx[t].quote
  <2>1. PICK r \in IF as = "addition" /\ Named(q, p) # {} THEN Named(q, p) ELSE {None} :
          tx' = [tx EXCEPT ![t].step = "applying", ![t].project = p, ![t].as = as, ![t].revision = r,
                           ![t].seen = IF r = None THEN "absent" ELSE revision[r].status]
    BY <1>4 DEF Resolve
  <2>2. /\ tx'[t].step = "applying" /\ tx'[t].project = p /\ tx'[t].as = as /\ tx'[t].revision = r
        /\ \A s \in Txs \ {t} : tx'[s] = tx[s]
    BY <1>0, <2>1 DEF TxRows
  <2>3. /\ UNCHANGED <<project, revision>> /\ (p # None => ProjectFree(p)) /\ tx[t].step = "choosing"
        /\ as = "base" => p # None /\ project[p].price = None
    BY <1>4 DEF Resolve, ProjectLockable, Ways
  <2>4. r # None => as = "addition" /\ revision[r].status \in {"draft", "sent"} /\ revision[r].project = p
    BY <2>1 DEF Named
  <2>5. Resolved(t)'
    BY <2>2, <2>3, <2>4 DEF Resolved
  <2>6. ASSUME NEW s \in Txs \ {t} PROVE Resolved(s)'
    BY <1>0, <2>2, <2>3 DEF Resolved
  <2>7. ProjectsApart'
    BY <1>0, <2>2, <2>3 DEF ProjectsApart, ProjectFree
  <2> QED
    BY <1>1, <2>5, <2>6, <2>7 DEF ContractInv
<1> QED
  BY <1>3, <1>4, HeldProjects

(* What a project is contracted for, as a sum over its accepted revisions. *)
Price(p) == IF project[p].price = None THEN 0 ELSE project[p].price

LEMMA ContractedIs == \A p :
    Contracted(p) = Price(p) + Total(revision, Accepted(p))[Accepted(p)]
BY Zenon DEF Contracted, Price, MapThenSumSet, MapThenFoldSet, Total, Sums, Top

LEMMA ContractedIsNext == \A p :
    Contracted(p)' = Price(p)' + Total(revision', Accepted(p)')[Accepted(p)']
BY Zenon DEF Contracted, Price, MapThenSumSet, MapThenFoldSet, Total, Sums, Top

(* An acceptance adds to the contract what it carries.                     *)
LEMMA AcceptanceCarries ==
    ASSUME ContractInv, TypeOK', NEW t \in Txs, CommitAccept(t), NEW p \in Projects, tx[t].project = p
    PROVE  Contracted(p)' - Contracted(p) = Carries(t)
<1> DEFINE q == tx[t].quote
           sum == Total(revision, Accepted(p))[Accepted(p)]
           next == Total(revision', Accepted(p)')[Accepted(p)']
<1>0. /\ tx[t] \in TxRows /\ q \in Quotes /\ p # None /\ OneTime[q] \in Nat
      /\ project \in [Projects -> [made : BOOLEAN, price : Nat \cup {None}]]
      /\ revision \in [Revisions -> RevisionRows] /\ revision' \in [Revisions -> RevisionRows]
      /\ tx[t].revision # None => tx[t].seen # "absent"
      /\ Resolved(t) /\ tx[t].step = "applying" /\ None \notin Int
  <2>1. ChoiceInv /\ TypeOK /\ Resolved(t)
    BY DEF ContractInv, ChoiceInv
  <2>2. q \in Quotes /\ tx[t].step = "applying"
    BY <2>1, AcceptanceWrites
  <2> QED
    BY <2>1, <2>2, QuoteAcceptanceAssumption DEF TypeOK, Shapes, References
<1>1. /\ IsFiniteSet(Accepted(p)) /\ IsFiniteSet(Accepted(p)')
      /\ \A r \in Accepted(p) : revision[r].amount \in Int
      /\ \A r \in Accepted(p)' : revision'[r].amount \in Int
  <2>1. Accepted(p) \subseteq Revisions /\ Accepted(p)' \subseteq Revisions
    BY DEF Accepted
  <2>2. \A r \in Revisions : revision[r].amount \in Int /\ revision'[r].amount \in Int
    BY <1>0 DEF RevisionRows
  <2> QED
    BY <2>1, <2>2, FS_Subset, QuoteAcceptanceAssumption
<1>2. sum \in Int /\ next \in Int
  BY <1>1, TotalInt
<1>3. /\ project'[p].price = IF tx[t].as = "base" THEN OneTime[q] ELSE project[p].price
      /\ project[p].price \in Nat \cup {None}
  BY <1>0 DEF CommitAccept
<1>4. CASE tx[t].as # "addition"
  <2>1. UNCHANGED revision
    BY <1>4 DEF CommitAccept
  <2>2. next = sum
    BY <2>1 DEF Accepted
  <2>3. Carries(t) = IF tx[t].as = "none" THEN 0 ELSE OneTime[q]
    BY <1>0, <1>4 DEF Carries, Resolved
  <2>4. Price(p)' - Price(p) = Carries(t) /\ Price(p) \in Int /\ Price(p)' \in Int
    BY <1>0, <1>3, <1>4, <2>3 DEF Price, Resolved, TxRows
  <2>5. Contracted(p) = Price(p) + sum /\ Contracted(p)' = Price(p)' + next
    BY ContractedIs, ContractedIsNext
  <2> HIDE DEF sum, next
  <2> QED
    BY <1>2, <2>2, <2>4, <2>5
<1>5. CASE tx[t].as = "addition"
  <2>1. PICK r \in Revisions : MayAdd(t, r) /\ revision' = [revision EXCEPT ![r] = Addition(t, r)]
    BY <1>5 DEF CommitAccept
  <2>2. /\ revision[r].status # "accepted"
        /\ revision'[r].status = "accepted" /\ revision'[r].project = p /\ revision'[r].amount = Carries(t)
    <3>1. CASE tx[t].revision = None
      BY <1>0, <1>5, <2>1, <3>1 DEF MayAdd, Addition, Carries
    <3>2. CASE tx[t].revision # None
      <4>1. r = tx[t].revision /\ revision[r].status \in {"draft", "sent"} /\ revision[r] \in RevisionRows
        BY <1>0, <2>1, <3>2 DEF MayAdd, TxRows
      <4>2. revision[r].project = p
        BY <1>0, <3>2, <4>1 DEF Resolved
      <4>3. revision'[r] = [revision[r] EXCEPT !.status = "accepted"]
        BY <1>0, <2>1, <3>2 DEF Addition
      <4> QED
        BY <1>5, <3>2, <4>1, <4>2, <4>3 DEF RevisionRows, Carries
    <3> QED
      BY <3>1, <3>2
  <2>3. \A s \in Revisions \ {r} : revision'[s] = revision[s]
    BY <1>0, <2>1
  <2>4. r \in Accepted(p)' /\ Accepted(p)' \ {r} = Accepted(p)
    BY <2>1, <2>2, <2>3 DEF Accepted
  <2>5. next = revision'[r].amount + Total(revision', Accepted(p))[Accepted(p)]
    BY <1>1, <2>4, TotalTake
  <2>6. Total(revision', Accepted(p))[Accepted(p)] = sum
    <3>1. \A s \in Accepted(p) : revision'[s].amount = revision[s].amount /\ revision'[s].amount \in Int
      BY <1>1, <2>2, <2>3 DEF Accepted
    <3> QED
      BY <1>1, <3>1, TotalSame
  <2>7. Price(p)' = Price(p) /\ Price(p) \in Int
    BY <1>0, <1>3, <1>5 DEF Price
  <2>8. Contracted(p) = Price(p) + sum /\ Contracted(p)' = Price(p)' + next
    BY ContractedIs, ContractedIsNext
  <2>9. Carries(t) \in Int
    BY <1>0, <2>1, <2>2 DEF RevisionRows
  <2> HIDE DEF sum, next
  <2> QED
    BY <1>2, <2>2, <2>5, <2>6, <2>7, <2>8, <2>9
<1> QED
  BY <1>4, <1>5

(* Accepting a quote changes what its project is contracted for by exactly *)
(* what the acceptance carries, whatever else is accepted beside it.       *)
THEOREM AcceptanceAlwaysAdds == Spec => AcceptanceAdds
<1> DEFINE AddsUp == \A t \in Txs, q \in Quotes, p \in Projects :
               /\ tx[t].step = "applying" /\ tx[t].quote = q /\ tx[t].project = p
               /\ quote[q].status = "sent" /\ quote'[q].status = "accepted"
               => Contracted(p)' - Contracted(p) = Carries(t)
<1>1. ContractInv /\ [Next]_vars => AddsUp
  <2> SUFFICES ASSUME ContractInv, [Next]_vars,
                      NEW t \in Txs, NEW q \in Quotes, NEW p \in Projects,
                      tx[t].step = "applying", tx[t].quote = q, tx[t].project = p,
                      quote[q].status = "sent", quote'[q].status = "accepted"
               PROVE  Contracted(p)' - Contracted(p) = Carries(t)
    OBVIOUS
  <2>0. /\ TypeOK /\ Decided /\ (\A s \in Txs : Found(s)) /\ LocksApart /\ None \notin Quotes
        /\ tx \in [Txs -> TxRows] /\ quote \in [Quotes -> QuoteRows] /\ ChoiceInv /\ TypeOK'
    BY ContractNext, QuoteAcceptanceAssumption DEF ContractInv, ChoiceInv, TypeOK, Shapes
  <2>1. ~QuietStep /\ ~UNCHANGED quote
    BY DEF QuietStep
  <2>2. \E s \in Txs : SendCommit(s) \/ CommitAccept(s)
    <3>1. ASSUME NEW s \in Txs PROVE
            /\ \A o \in Quotes : SendBegin(s, o) \/ AcceptBegin(s, o) \/ LockRival(s, o) => UNCHANGED quote
            /\ \A x, as : Resolve(s, x, as) => UNCHANGED quote
            /\ Choose(s) \/ RollBack(s) => UNCHANGED quote
      BY DEF SendBegin, AcceptBegin, LockRival, Resolve, Choose, RollBack
    <3> QED
      BY <2>0, <2>1, <3>1, QuietSteps
  <2>3. PICK s \in Txs : SendCommit(s) \/ CommitAccept(s)
    BY <2>2
  <2>4. ~SendCommit(s)
    <3>1. SendCommit(s) => quote' = [quote EXCEPT ![tx[s].quote].status = "sent"]
      BY DEF SendCommit
    <3>2. quote[q] \in QuoteRows
      BY <2>0
    <3> QED
      BY <2>0, <3>1, <3>2 DEF QuoteRows
  <2>5. CommitAccept(s) /\ tx[s].quote = q
    BY <2>0, <2>3, <2>4, AcceptanceWrites
  <2>6. s = t
    BY <2>0, <2>5 DEF LocksApart
  <2> QED
    BY <2>0, <2>5, <2>6, AcceptanceCarries
<1>2. ContractInv /\ [Next]_vars => [AddsUp]_vars
  BY <1>1
<1>3. Spec => [][AddsUp]_vars
  <2> HIDE DEF AddsUp
  <2> QED
    BY ContractInit, ContractNext, <1>2, PTL DEF Spec
<1> QED
  BY <1>3 DEF AcceptanceAdds

-----------------------------------------------------------------------------
(* Tickets.                                                                *)

TicketRows ==
    [status : {"absent"} \cup Tk!Statuses, client : BOOLEAN, priority : Tk!Priorities,
     responseDue : Int, resolutionDue : Int,
     responded : Tk!Hours \cup {Nothing}, resolved : Tk!Hours \cup {Nothing}, closed : Tk!Hours \cup {Nothing}]

PlanRows ==
    [status : {"absent", "active", "paused", "ended"}, started : Tk!Days, ended : Tk!Days \cup {Nothing},
     terms : Tk!Terms]

TicketShape ==
    /\ clock \in Tk!Hours
    /\ ticket \in [Tickets -> TicketRows]
    /\ replies \in [Tickets -> SUBSET Tk!Hours]
    /\ plan \in [Plans -> PlanRows]
    /\ visits \in [Plans -> Nat]

(* A ticket has the stamps its status and its answers say, and none is     *)
(* later than now.                                                         *)
WellStamped(t, answers) ==
    /\ t.status \in Tk!Done <=> t.resolved # Nothing
    /\ t.status = "closed" <=> t.closed # Nothing
    /\ answers = {} <=> t.responded = Nothing
    /\ t.responded \in answers \cup {Nothing}
    /\ t.resolved # Nothing => t.resolved <= clock
    /\ t.status = "absent" => answers = {}

PlanSound(p) ==
    /\ plan[p].status = "ended" => plan[p].ended # Nothing
    /\ plan[p].ended # Nothing => plan[p].ended >= plan[p].started
    /\ plan[p].status = "absent" => visits[p] = 0

TicketInv ==
    /\ TicketShape
    /\ \A k \in Tickets : WellStamped(ticket[k], replies[k])
    /\ \A p \in Plans : PlanSound(p)

LEMMA HoursAreNumbers == Tk!Hours \subseteq Int /\ Tk!Days \subseteq Int /\ Nothing \notin Int
BY OfficeAssumption DEF Tk!Hours, Tk!Days

LEMMA BlankTicket == Tk!NoTicket \in TicketRows
BY DEF Tk!NoTicket, TicketRows, Tk!Statuses, Tk!Priorities, Tk!SlaDefaults

LEMMA BlankPlan == Tk!NoPlan \in PlanRows
BY DEF Tk!NoPlan, PlanRows, Tk!Days, Tk!Terms

LEMMA TicketInit == Tk!Init => TicketInv
<1> SUFFICES ASSUME Tk!Init PROVE TicketInv
  OBVIOUS
<1>1. TicketShape
  BY BlankTicket, BlankPlan, OfficeAssumption DEF Tk!Init, TicketShape, Tk!Hours
<1>2. ASSUME NEW k \in Tickets PROVE WellStamped(ticket[k], replies[k])
  BY DEF Tk!Init, WellStamped, Tk!NoTicket, Tk!Done
<1>3. ASSUME NEW p \in Plans PROVE PlanSound(p)
  BY DEF Tk!Init, PlanSound, Tk!NoPlan
<1> QED BY <1>1, <1>2, <1>3 DEF TicketInv

(* What a plan or a priority promises is a number of hours.                *)
LEMMA PromisedHours ==
    ASSUME TicketShape, NEW client \in BOOLEAN, NEW priority \in Tk!Priorities, NEW term \in {"response", "resolution"}
    PROVE  Tk!ServiceLevelFor(client, priority, term) \in Int
<1> DEFINE set == {plan[p].terms[term] : p \in {x \in Plans : client /\ Tk!Latest(x)}} \ {Nothing}
<1>1. set \subseteq Int
  BY DEF TicketShape, PlanRows, Tk!Terms
<1>2. Tk!SlaDefaults[priority][term] \in Int
  BY DEF Tk!SlaDefaults, Tk!Priorities
<1>3. Tk!ServiceLevelFor(client, priority, term) = IF set = {} THEN Tk!SlaDefaults[priority][term] ELSE CHOOSE h \in set : TRUE
  BY DEF Tk!ServiceLevelFor
<1> HIDE DEF set
<1>4. set # {} => (CHOOSE h \in set : TRUE) \in set
  OBVIOUS
<1> QED BY <1>1, <1>2, <1>3, <1>4

(* Whoever changes a row well and leaves its plans alone keeps the rest.   *)
LEMMA OneTicket ==
    ASSUME TicketInv, NEW k \in Tickets, NEW t \in TicketRows, NEW answers \in SUBSET Tk!Hours,
           WellStamped(t, answers),
           ticket' = [ticket EXCEPT ![k] = t], replies' = [replies EXCEPT ![k] = answers],
           UNCHANGED <<clock, plan, visits>>
    PROVE  TicketInv'
<1>1. TicketShape'
  BY DEF TicketInv, TicketShape
<1>2. ASSUME NEW j \in Tickets PROVE WellStamped(ticket[j], replies[j])'
  BY DEF TicketInv, TicketShape, WellStamped
<1>3. ASSUME NEW p \in Plans PROVE PlanSound(p)'
  BY DEF TicketInv, PlanSound
<1> QED BY <1>1, <1>2, <1>3 DEF TicketInv

LEMMA OnePlan ==
    ASSUME TicketInv, NEW p \in Plans, NEW x \in PlanRows, NEW n \in Nat,
           x.status = "ended" => x.ended # Nothing,
           x.ended # Nothing => x.ended >= x.started,
           x.status = "absent" => n = 0,
           plan' = [plan EXCEPT ![p] = x], visits' = [visits EXCEPT ![p] = n],
           UNCHANGED <<clock, ticket, replies>>
    PROVE  TicketInv'
<1>1. TicketShape'
  BY DEF TicketInv, TicketShape
<1>2. ASSUME NEW j \in Tickets PROVE WellStamped(ticket[j], replies[j])'
  BY DEF TicketInv, WellStamped
<1>3. ASSUME NEW q \in Plans PROVE PlanSound(q)'
  BY DEF TicketInv, TicketShape, PlanSound
<1> QED BY <1>1, <1>2, <1>3 DEF TicketInv

LEMMA StampsFit ==
    ASSUME TicketShape, NEW t \in TicketRows, NEW answers \in SUBSET Tk!Hours, WellStamped(t, answers),
           NEW to \in Tk!Statuses, NEW at \in Tk!Hours, at <= clock
    PROVE  Tk!Stamped(t, to, at) \in TicketRows /\ WellStamped(Tk!Stamped(t, to, at), answers)
<1>1. Tk!Stamped(t, to, at) \in TicketRows
  BY DEF Tk!Stamped, TicketRows
<1>2. WellStamped(Tk!Stamped(t, to, at), answers)
  BY HoursAreNumbers DEF Tk!Stamped, TicketRows, WellStamped, Tk!Done, Tk!Statuses, Tk!OpenStatuses
<1> QED BY <1>1, <1>2

LEMMA AnswersFit ==
    ASSUME TicketShape, NEW t \in TicketRows, NEW answers \in SUBSET Tk!Hours, WellStamped(t, answers),
           t.status # "absent", NEW internal \in BOOLEAN, NEW at \in Tk!Hours
    PROVE  /\ Tk!FirstResponse(t, internal, at) \in TicketRows
           /\ WellStamped(Tk!FirstResponse(t, internal, at), IF internal THEN answers ELSE answers \cup {at})
<1>1. Tk!FirstResponse(t, internal, at) \in TicketRows
  BY DEF Tk!FirstResponse, TicketRows
<1>2. WellStamped(Tk!FirstResponse(t, internal, at), IF internal THEN answers ELSE answers \cup {at})
  BY HoursAreNumbers DEF Tk!FirstResponse, TicketRows, WellStamped
<1> QED BY <1>1, <1>2

LEMMA PlansKeep ==
    ASSUME TicketInv, NEW p \in Plans
    PROVE  /\ \A from \in Tk!Days, terms \in Tk!Terms :
                Tk!MaintenancePlanCreate(p, from, terms) \/ Tk!MaintenancePlanUpdate(p, from, terms) => TicketInv'
           /\ \A to \in {"active", "paused", "ended"}, day \in Tk!Days \cup {Nothing} :
                Tk!MaintenancePlanChangeStatus(p, to, day) => TicketInv'
           /\ Tk!MaintenancePlanDelete(p) \/ Tk!MaintenanceVisitCreate(p) \/ Tk!MaintenanceVisitDelete(p) => TicketInv'
<1> USE HoursAreNumbers
<1>a. plan \in [Plans -> PlanRows] /\ visits \in [Plans -> Nat] /\ plan[p] \in PlanRows /\ visits[p] \in Nat
  BY DEF TicketInv, TicketShape
<1>s. PlanSound(p)
  BY DEF TicketInv
<1>1. ASSUME NEW from \in Tk!Days, NEW terms \in Tk!Terms, Tk!MaintenancePlanCreate(p, from, terms) PROVE TicketInv'
  <2> DEFINE x == [Tk!NoPlan EXCEPT !.status = "active", !.started = from, !.terms = terms]
  <2>1. x \in PlanRows /\ x.status = "active" /\ x.ended = Nothing
    BY BlankPlan DEF PlanRows, Tk!NoPlan
  <2>2. plan' = [plan EXCEPT ![p] = x] /\ visits' = [visits EXCEPT ![p] = visits[p]] /\ UNCHANGED <<clock, ticket, replies>>
    BY <1>1, <1>a DEF Tk!MaintenancePlanCreate
  <2> HIDE DEF x
  <2> QED BY <2>1, <2>2, <1>a, OnePlan
<1>2. ASSUME NEW from \in Tk!Days, NEW terms \in Tk!Terms, Tk!MaintenancePlanUpdate(p, from, terms) PROVE TicketInv'
  <2> DEFINE x == [plan[p] EXCEPT !.started = from, !.terms = terms]
  <2>1. x \in PlanRows /\ x.status = plan[p].status /\ x.ended = plan[p].ended /\ x.started = from
    BY <1>a DEF PlanRows
  <2>2. plan' = [plan EXCEPT ![p] = x] /\ visits' = [visits EXCEPT ![p] = visits[p]] /\ UNCHANGED <<clock, ticket, replies>>
    BY <1>2, <1>a DEF Tk!MaintenancePlanUpdate
  <2>3. plan[p].status # "absent" /\ (plan[p].ended # Nothing => plan[p].ended >= from)
    BY <1>2 DEF Tk!MaintenancePlanUpdate
  <2> HIDE DEF x
  <2> QED BY <2>1, <2>2, <2>3, <1>a, <1>s, OnePlan DEF PlanSound
<1>3. ASSUME NEW to \in {"active", "paused", "ended"}, NEW day \in Tk!Days \cup {Nothing},
             Tk!MaintenancePlanChangeStatus(p, to, day)
      PROVE TicketInv'
  <2> DEFINE ended == IF day # Nothing THEN day
                      ELSE IF to = "ended" /\ plan[p].ended = Nothing THEN Tk!Today ELSE plan[p].ended
             x == [plan[p] EXCEPT !.status = to, !.ended = ended]
  <2>0. ended \in Tk!Days \cup {Nothing} /\ (to = "ended" => ended # Nothing)
    BY <1>a DEF PlanRows, Tk!Today, Tk!Days
  <2>2. plan' = [plan EXCEPT ![p] = x] /\ visits' = [visits EXCEPT ![p] = visits[p]] /\ UNCHANGED <<clock, ticket, replies>>
    BY <1>3, <1>a DEF Tk!MaintenancePlanChangeStatus
  <2>3. ended # Nothing => ended >= plan[p].started
    BY <1>3 DEF Tk!MaintenancePlanChangeStatus
  <2> HIDE DEF ended
  <2>1. x \in PlanRows /\ x.status = to /\ x.ended = ended /\ x.started = plan[p].started
    BY <1>a, <2>0 DEF PlanRows
  <2> HIDE DEF x
  <2> QED BY <2>0, <2>1, <2>2, <2>3, <1>a, OnePlan
<1>4. ASSUME Tk!MaintenancePlanDelete(p) PROVE TicketInv'
  <2>1. plan' = [plan EXCEPT ![p] = Tk!NoPlan] /\ visits' = [visits EXCEPT ![p] = 0] /\ UNCHANGED <<clock, ticket, replies>>
    BY <1>4 DEF Tk!MaintenancePlanDelete
  <2>2. Tk!NoPlan.status = "absent" /\ Tk!NoPlan.ended = Nothing
    BY DEF Tk!NoPlan
  <2> QED BY <2>1, <2>2, BlankPlan, OnePlan
<1>5. ASSUME Tk!MaintenanceVisitCreate(p) PROVE TicketInv'
  <2>1. plan' = [plan EXCEPT ![p] = plan[p]] /\ visits' = [visits EXCEPT ![p] = visits[p] + 1] /\ UNCHANGED <<clock, ticket, replies>>
        /\ plan[p].status # "absent"
    BY <1>5, <1>a DEF Tk!MaintenanceVisitCreate
  <2>2. visits[p] + 1 \in Nat
    BY <1>a
  <2> QED BY Zenon, <2>1, <2>2, <1>a, <1>s, OnePlan DEF PlanSound
<1>6. ASSUME Tk!MaintenanceVisitDelete(p) PROVE TicketInv'
  <2>1. plan' = [plan EXCEPT ![p] = plan[p]] /\ visits' = [visits EXCEPT ![p] = visits[p] - 1] /\ UNCHANGED <<clock, ticket, replies>>
        /\ visits[p] > 0
    BY <1>6, <1>a DEF Tk!MaintenanceVisitDelete
  <2>2. visits[p] - 1 \in Nat
    BY <2>1, <1>a
  <2>3. plan[p].status # "absent"
    BY <2>1, <1>a, <1>s DEF PlanSound
  <2> QED BY Zenon, <2>1, <2>2, <2>3, <1>a, <1>s, OnePlan DEF PlanSound
<1> QED BY <1>1, <1>2, <1>3, <1>4, <1>5, <1>6

LEMMA TicketsKeep ==
    ASSUME TicketInv, NEW k \in Tickets
    PROVE  /\ \A client \in BOOLEAN, priority \in Tk!Priorities :
                /\ \A at \in Tk!Hours : Tk!TicketCreate(k, client, priority, at) => TicketInv'
                /\ Tk!TicketUpdate(k, client, priority) => TicketInv'
           /\ \A to \in Tk!Statuses, at \in Tk!Hours :
                /\ Tk!TicketChangeStatus(k, to, at) => TicketInv'
                /\ \A internal \in BOOLEAN : Tk!TicketReply(k, internal, to, at) => TicketInv'
           /\ Tk!TicketDelete(k) => TicketInv'
<1> USE HoursAreNumbers
<1>a. /\ TicketShape /\ ticket \in [Tickets -> TicketRows] /\ replies \in [Tickets -> SUBSET Tk!Hours]
      /\ ticket[k] \in TicketRows /\ replies[k] \in SUBSET Tk!Hours
  BY DEF TicketInv, TicketShape
<1>s. WellStamped(ticket[k], replies[k])
  BY DEF TicketInv
<1>b. ASSUME NEW at \in Tk!Begun PROVE at <= clock
  BY DEF Tk!Begun
<1>1. ASSUME NEW client \in BOOLEAN, NEW priority \in Tk!Priorities, NEW at \in Tk!Hours,
             Tk!TicketCreate(k, client, priority, at)
      PROVE TicketInv'
  <2> DEFINE due(term) == at + Tk!ServiceLevelFor(client, priority, term)
             t == [Tk!NoTicket EXCEPT !.status = "open", !.client = client, !.priority = priority,
                     !.responseDue = due("response"), !.resolutionDue = due("resolution")]
  <2>0. due("response") \in Int /\ due("resolution") \in Int
    BY <1>a, PromisedHours
  <2>2. ticket' = [ticket EXCEPT ![k] = t] /\ replies' = [replies EXCEPT ![k] = replies[k]] /\ UNCHANGED <<clock, plan, visits>>
    BY <1>1, <1>a DEF Tk!TicketCreate
  <2> HIDE DEF due
  <2>1. t \in TicketRows
    BY <2>0, BlankTicket DEF TicketRows, Tk!NoTicket, Tk!Statuses, Tk!OpenStatuses
  <2>3. WellStamped(t, replies[k])
    <3>1. ticket[k].status = "absent"
      BY <1>1 DEF Tk!TicketCreate
    <3>2. t.responded = Nothing /\ t.resolved = Nothing /\ t.closed = Nothing /\ t.status = "open"
      BY DEF Tk!NoTicket
    <3> QED BY <3>1, <3>2, <1>a, <1>s DEF WellStamped, Tk!Done
  <2> HIDE DEF t
  <2> QED BY <2>1, <2>2, <2>3, <1>a, OneTicket
<1>2. ASSUME NEW client \in BOOLEAN, NEW priority \in Tk!Priorities, Tk!TicketUpdate(k, client, priority)
      PROVE TicketInv'
  <2> DEFINE t == Tk!Fields(ticket[k], client, priority)
  <2>1. t \in TicketRows
    BY <1>a DEF TicketRows, Tk!Fields
  <2>2. ticket' = [ticket EXCEPT ![k] = t] /\ replies' = [replies EXCEPT ![k] = replies[k]] /\ UNCHANGED <<clock, plan, visits>>
    BY <1>2, <1>a DEF Tk!TicketUpdate
  <2>3. WellStamped(t, replies[k])
    BY <1>s, <1>a DEF WellStamped, Tk!Fields, TicketRows
  <2> HIDE DEF t
  <2> QED BY <2>1, <2>2, <2>3, <1>a, OneTicket
<1>3. ASSUME NEW to \in Tk!Statuses, NEW at \in Tk!Hours, Tk!TicketChangeStatus(k, to, at)
      PROVE TicketInv'
  <2>1. at <= clock
    BY <1>3, <1>b DEF Tk!TicketChangeStatus
  <2>2. ticket' = [ticket EXCEPT ![k] = Tk!Stamped(ticket[k], to, at)] /\ replies' = [replies EXCEPT ![k] = replies[k]]
        /\ UNCHANGED <<clock, plan, visits>>
    BY <1>3, <1>a DEF Tk!TicketChangeStatus
  <2> QED BY <2>1, <2>2, <1>a, <1>s, StampsFit, OneTicket
<1>4. ASSUME NEW to \in Tk!Statuses, NEW at \in Tk!Hours, NEW internal \in BOOLEAN,
             Tk!TicketReply(k, internal, to, at)
      PROVE TicketInv'
  <2> DEFINE answers == IF internal THEN replies[k] ELSE replies[k] \cup {at}
             t == Tk!FirstResponse(ticket[k], internal, at)
             u == IF to = t.status THEN t ELSE Tk!Stamped(t, to, at)
  <2>1. at <= clock
    BY <1>4, <1>b DEF Tk!TicketReply
  <2>2. ticket' = [ticket EXCEPT ![k] = u] /\ replies' = [replies EXCEPT ![k] = answers] /\ UNCHANGED <<clock, plan, visits>>
    BY <1>4, <1>a DEF Tk!TicketReply
  <2>3. answers \in SUBSET Tk!Hours
    BY <1>a
  <2>4. t \in TicketRows /\ WellStamped(t, answers)
    BY <1>4, <1>a, <1>s, AnswersFit DEF Tk!TicketReply, Tk!Stored
  <2> HIDE DEF answers, t
  <2>5. u \in TicketRows /\ WellStamped(u, answers)
    BY <2>1, <2>3, <2>4, <1>a, StampsFit
  <2> HIDE DEF u
  <2> QED BY <2>2, <2>3, <2>5, OneTicket
<1>5. ASSUME Tk!TicketDelete(k) PROVE TicketInv'
  <2>1. ticket' = [ticket EXCEPT ![k] = Tk!NoTicket] /\ replies' = [replies EXCEPT ![k] = {}] /\ UNCHANGED <<clock, plan, visits>>
    BY <1>5 DEF Tk!TicketDelete
  <2>2. WellStamped(Tk!NoTicket, {})
    BY DEF WellStamped, Tk!NoTicket, Tk!Done
  <2> QED BY <2>1, <2>2, BlankTicket, OneTicket
<1> QED BY <1>1, <1>2, <1>3, <1>4, <1>5

LEMMA ClockKeeps == TicketInv /\ Tk!Tick => TicketInv'
<1> SUFFICES ASSUME TicketInv, Tk!Tick PROVE TicketInv'
  OBVIOUS
<1>1. TicketShape' /\ clock \in Int /\ clock' = clock + 1
  BY OfficeAssumption DEF TicketInv, TicketShape, Tk!Tick, Tk!Hours
<1>2. ASSUME NEW k \in Tickets PROVE WellStamped(ticket[k], replies[k])'
  <2>1. ticket[k].resolved \in Tk!Hours \cup {Nothing} /\ WellStamped(ticket[k], replies[k])
    BY DEF TicketInv, TicketShape, TicketRows
  <2>2. ticket[k].resolved # Nothing => ticket[k].resolved <= clock'
    <3> SUFFICES ASSUME ticket[k].resolved # Nothing PROVE ticket[k].resolved <= clock'
      OBVIOUS
    <3>1. ticket[k].resolved \in Int
      BY <2>1, HoursAreNumbers
    <3>2. ticket[k].resolved <= clock
      BY <2>1 DEF WellStamped
    <3> QED BY <1>1, <3>1, <3>2
  <2> QED BY Zenon, <2>1, <2>2 DEF WellStamped, Tk!Tick
<1>3. ASSUME NEW p \in Plans PROVE PlanSound(p)'
  BY DEF TicketInv, PlanSound, Tk!Tick
<1> QED BY <1>1, <1>2, <1>3 DEF TicketInv

(* Every step keeps what is said of tickets and plans.                     *)
LEMMA TicketNext == TicketInv /\ (Tk!Next \/ UNCHANGED ticketsVars) => TicketInv'
<1>1. ASSUME TicketInv, UNCHANGED ticketsVars PROVE TicketInv'
  BY <1>1 DEF TicketInv, TicketShape, WellStamped, PlanSound, ticketsVars
<1>2. ASSUME TicketInv, Tk!Next PROVE TicketInv'
  <2>1. CASE Tk!Tick
    BY <1>2, <2>1, ClockKeeps
  <2>2. ASSUME NEW p \in Plans,
               \/ \E from \in Tk!Days, terms \in Tk!Terms :
                     Tk!MaintenancePlanCreate(p, from, terms) \/ Tk!MaintenancePlanUpdate(p, from, terms)
               \/ \E to \in {"active", "paused", "ended"}, day \in Tk!Days \cup {Nothing} :
                     Tk!MaintenancePlanChangeStatus(p, to, day)
               \/ Tk!MaintenancePlanDelete(p) \/ Tk!MaintenanceVisitCreate(p) \/ Tk!MaintenanceVisitDelete(p)
        PROVE TicketInv'
    BY Zenon, <1>2, <2>2, PlansKeep
  <2>3. ASSUME NEW k \in Tickets,
               \/ \E client \in BOOLEAN, priority \in Tk!Priorities :
                     \/ \E at \in Tk!Hours : Tk!TicketCreate(k, client, priority, at)
                     \/ Tk!TicketUpdate(k, client, priority)
               \/ \E to \in Tk!Statuses, at \in Tk!Hours :
                     \/ Tk!TicketChangeStatus(k, to, at)
                     \/ \E internal \in BOOLEAN : Tk!TicketReply(k, internal, to, at)
               \/ Tk!TicketDelete(k)
        PROVE TicketInv'
    BY Zenon, <1>2, <2>3, TicketsKeep
  <2> QED BY Zenon, <1>2, <2>1, <2>2, <2>3 DEF Tk!Next
<1> QED BY <1>1, <1>2

LEMMA TicketsTyped == TicketInv => Tk!TypeOK
<1> SUFFICES ASSUME TicketInv PROVE Tk!TypeOK
  OBVIOUS
<1>1. ASSUME NEW k \in Tickets, Tk!Stored(k)
      PROVE  LET t == ticket[k] IN
             /\ t.status \in Tk!Statuses /\ t.client \in BOOLEAN /\ t.priority \in Tk!Priorities
             /\ t.status \in Tk!Done <=> t.resolved # Nothing
             /\ t.status = "closed" <=> t.closed # Nothing
             /\ replies[k] = {} <=> t.responded = Nothing
             /\ t.responded \in replies[k] \cup {Nothing}
             /\ Tk!ListedBreached(t) <=> Tk!ResponseLate(k) \/ Tk!ResolutionLate(k)
  <2>1. ticket[k] \in TicketRows /\ WellStamped(ticket[k], replies[k]) /\ clock \in Int
    BY HoursAreNumbers DEF TicketInv, TicketShape
  <2>2. Tk!ListedBreached(ticket[k]) <=> Tk!ResponseLate(k) \/ Tk!ResolutionLate(k)
    <3> DEFINE t == ticket[k]
    <3>1. /\ t.responseDue \in Int /\ t.resolutionDue \in Int
          /\ t.responded \in Int \cup {Nothing} /\ t.resolved \in Int \cup {Nothing}
      BY <2>1, HoursAreNumbers DEF TicketRows
    <3>2. Tk!ResponseLate(k) <=>
          (t.responded = Nothing /\ t.responseDue < clock) \/ (t.responded # Nothing /\ t.responded > t.responseDue)
      <4>1. CASE t.responded = Nothing
        BY <2>1, <3>1, <4>1 DEF Tk!ResponseLate, Tk!SlaState
      <4>2. CASE t.responded # Nothing
        <5>1. t.responded \in Int
          BY <3>1, <4>2
        <5>2. Tk!ResponseLate(k) <=> ~(t.responded <= t.responseDue)
          BY <4>2 DEF Tk!ResponseLate, Tk!SlaState
        <5> QED BY <3>1, <4>2, <5>1, <5>2
      <4> QED BY <4>1, <4>2
    <3>3. Tk!ResolutionLate(k) <=>
          (t.resolved = Nothing /\ t.resolutionDue < clock) \/ (t.resolved # Nothing /\ t.resolved > t.resolutionDue)
      <4>1. CASE t.resolved = Nothing
        BY <2>1, <3>1, <4>1 DEF Tk!ResolutionLate, Tk!SlaState
      <4>2. CASE t.resolved # Nothing
        <5>1. t.resolved \in Int
          BY <3>1, <4>2
        <5>2. Tk!ResolutionLate(k) <=> ~(t.resolved <= t.resolutionDue)
          BY <4>2 DEF Tk!ResolutionLate, Tk!SlaState
        <5> QED BY <3>1, <4>2, <5>1, <5>2
      <4> QED BY <4>1, <4>2
    <3> HIDE DEF t
    <3> QED BY <3>2, <3>3 DEF Tk!ListedBreached, t
  <2> QED BY <1>1, <2>1, <2>2 DEF TicketRows, WellStamped, Tk!Stored
<1>2. \A p \in Plans : PlanSound(p)
  BY DEF TicketInv
<1> QED BY <1>1, <1>2 DEF TicketInv, TicketShape, Tk!TypeOK, PlanSound

(* What is late, in figures.                                               *)
LEMMA LateInFigures ==
    ASSUME NEW due \in Int, NEW happened \in Int \cup {Nothing}, clock \in Int
    PROVE  Tk!SlaState(due, happened) = "breached" <=>
              (happened = Nothing /\ due < clock) \/ (happened # Nothing /\ happened > due)
<1>1. CASE happened = Nothing
  BY <1>1 DEF Tk!SlaState
<1>2. CASE happened # Nothing
  <2>1. happened \in Int
    BY <1>2
  <2>2. Tk!SlaState(due, happened) = "breached" <=> ~(happened <= due)
    BY <1>2 DEF Tk!SlaState
  <2> QED BY <1>2, <2>1, <2>2
<1> QED BY <1>1, <1>2

(* A stamp that is set in a step is no later than the step.                *)
LEMMA StampedInTime ==
    ASSUME NEW due \in Int, NEW was \in Int \cup {Nothing}, NEW is \in Int \cup {Nothing}, NEW at \in Int,
           clock \in Int, at <= clock, clock' = clock, was # Nothing => was <= clock,
           is = was \/ (was = Nothing /\ is = at) \/ is = Nothing,
           Tk!SlaState(due, was) = "breached"
    PROVE  Tk!SlaState(due, is)' = "breached" \/ (was = Nothing /\ is < clock)
<1>0. Tk!SlaState(due, is)' = Tk!SlaState(due, is)
  BY DEF Tk!SlaState
<1>1. CASE is = was
  BY <1>0, <1>1
<1>2. CASE was = Nothing /\ is = at
  <2>1. due < clock /\ is \in Int /\ is # Nothing
    BY <1>2, LateInFigures, OfficeAssumption
  <2>2. CASE is > due
    BY <2>1, <2>2, <1>0, LateInFigures
  <2>3. CASE is <= due
    BY <2>1, <2>3, <1>2
  <2> QED BY <2>1, <2>2, <2>3
<1>3. CASE is = Nothing /\ was # Nothing
  <2>1. was \in Int /\ was <= clock /\ was > due
    BY <1>3, LateInFigures
  <2>2. due < clock
    BY <2>1
  <2> QED BY <1>0, <1>3, <2>2, LateInFigures
<1> QED BY <1>1, <1>2, <1>3

LEMMA TicketUntouched ==
    ASSUME NEW k, ticket'[k] = ticket[k], clock' = clock
    PROVE  Tk!Measured(k)
BY DEF Tk!Measured, Tk!ResponseLate, Tk!ResolutionLate, Tk!SlaState

LEMMA OnlyStamped ==
    ASSUME TicketInv, NEW k \in Tickets, NEW u \in TicketRows, ticket'[k] = u, clock' = clock,
           NEW at \in Int, at <= clock,
           u.responseDue = ticket[k].responseDue, u.resolutionDue = ticket[k].resolutionDue,
           u.responded = ticket[k].responded \/ (ticket[k].responded = Nothing /\ u.responded = at),
           \/ u.resolved = ticket[k].resolved
           \/ ticket[k].resolved = Nothing /\ u.resolved = at /\ ticket[k].status \notin Tk!Done
           \/ u.resolved = Nothing /\ u.status \notin Tk!Done
    PROVE  Tk!Measured(k)
<1> DEFINE t == ticket[k]
<1>1. /\ t \in TicketRows /\ WellStamped(t, replies[k]) /\ replies[k] \subseteq Int /\ clock \in Int
      /\ t.responseDue \in Int /\ t.resolutionDue \in Int
      /\ t.responded \in Int \cup {Nothing} /\ t.resolved \in Int \cup {Nothing}
      /\ u.responded \in Int \cup {Nothing} /\ u.resolved \in Int \cup {Nothing}
  BY HoursAreNumbers DEF TicketInv, TicketShape, TicketRows
<1>2. t.resolved # Nothing => t.resolved <= clock
  BY <1>1 DEF WellStamped
<1>3. Tk!ResponseLate(k) => Tk!ResponseLate(k)' \/ (t.responded = Nothing /\ u.responded < clock)
  <2>1. CASE u.responded = t.responded
    BY <2>1 DEF Tk!ResponseLate, Tk!SlaState
  <2>2. CASE t.responded = Nothing /\ u.responded = at
    <3>1. Tk!SlaState(t.responseDue, t.responded) = "breached" =>
             Tk!SlaState(t.responseDue, u.responded)' = "breached" \/ (t.responded = Nothing /\ u.responded < clock)
      <4> PICK due \in Int, was \in Int \cup {Nothing}, is \in Int \cup {Nothing} :
             due = t.responseDue /\ was = t.responded /\ is = u.responded
        BY <1>1
      <4>1. Tk!SlaState(due, was) = "breached" => Tk!SlaState(due, is)' = "breached" \/ (was = Nothing /\ is < clock)
        BY <1>1, <2>2, StampedInTime
      <4>2. Tk!SlaState(t.responseDue, u.responded)' = Tk!SlaState(due, is)'
        BY DEF Tk!SlaState
      <4> QED BY <4>1, <4>2
    <3> QED BY <3>1 DEF Tk!ResponseLate, Tk!SlaState
  <2> QED BY <2>1, <2>2
<1>4. Tk!ResolutionLate(k) => Tk!ResolutionLate(k)' \/ (t.resolved = Nothing /\ u.resolved < clock)
  BY <1>1, <1>2, StampedInTime DEF Tk!ResolutionLate, Tk!SlaState
<1>5. {t.status, u.status} \subseteq Tk!Done => u.resolved = t.resolved
  OBVIOUS
<1> QED BY <1>1, <1>3, <1>4, <1>5 DEF Tk!Measured

(* Whatever changes a ticket that stays leaves it measured fairly.         *)
LEMMA TicketStepIsFair ==
    ASSUME TicketInv, NEW j \in Tickets, NEW k \in Tickets, Tk!Stored(k), ticket'[k].status # "absent",
           \/ \E client \in BOOLEAN, priority \in Tk!Priorities :
                 \/ \E at \in Tk!Hours : Tk!TicketCreate(j, client, priority, at)
                 \/ Tk!TicketUpdate(j, client, priority)
           \/ \E to \in Tk!Statuses, at \in Tk!Hours :
                 \/ Tk!TicketChangeStatus(j, to, at)
                 \/ \E internal \in BOOLEAN : Tk!TicketReply(j, internal, to, at)
           \/ Tk!TicketDelete(j)
    PROVE  Tk!Measured(k)
<1> USE HoursAreNumbers
<1>a. /\ TicketInv' /\ ticket \in [Tickets -> TicketRows] /\ ticket' \in [Tickets -> TicketRows]
      /\ ticket[k] \in TicketRows /\ ticket'[k] \in TicketRows /\ WellStamped(ticket[k], replies[k])
      /\ clock \in Int
  <2>1. TicketInv'
    BY Zenon, TicketsKeep
  <2> QED BY <2>1 DEF TicketInv, TicketShape
<1>b. ASSUME NEW at \in Tk!Begun PROVE at \in Int /\ at <= clock
  BY DEF Tk!Begun
<1>1. CASE \E client \in BOOLEAN, priority \in Tk!Priorities, at \in Tk!Hours : Tk!TicketCreate(j, client, priority, at)
  <2>1. ticket[j].status = "absent" /\ clock' = clock
        /\ \E t : ticket' = [ticket EXCEPT ![j] = t]
    BY Zenon, <1>1 DEF Tk!TicketCreate
  <2>2. j # k
    BY <2>1 DEF Tk!Stored
  <2> QED BY <2>1, <2>2, <1>a, TicketUntouched
<1>2. ASSUME NEW client \in BOOLEAN, NEW priority \in Tk!Priorities, Tk!TicketUpdate(j, client, priority)
      PROVE Tk!Measured(k)
  <2>1. ticket' = [ticket EXCEPT ![j] = Tk!Fields(ticket[j], client, priority)] /\ clock' = clock
    BY <1>2 DEF Tk!TicketUpdate
  <2>2. CASE j # k
    BY <2>1, <2>2, <1>a, TicketUntouched
  <2>3. CASE j = k
    <3>1. ticket'[k] = Tk!Fields(ticket[k], client, priority)
      BY <2>1, <2>3, <1>a
    <3>2. /\ ticket'[k].responseDue = ticket[k].responseDue /\ ticket'[k].resolutionDue = ticket[k].resolutionDue
          /\ ticket'[k].responded = ticket[k].responded /\ ticket'[k].resolved = ticket[k].resolved
      BY <3>1, <1>a DEF Tk!Fields, TicketRows
    <3> QED BY <2>1, <3>2, <1>a, OnlyStamped
  <2> QED BY <2>2, <2>3
<1>3. ASSUME NEW to \in Tk!Statuses, NEW at \in Tk!Hours, Tk!TicketChangeStatus(j, to, at)
      PROVE Tk!Measured(k)
  <2>1. ticket' = [ticket EXCEPT ![j] = Tk!Stamped(ticket[j], to, at)] /\ clock' = clock /\ at \in Int /\ at <= clock
    BY <1>3, <1>b DEF Tk!TicketChangeStatus
  <2>2. CASE j # k
    BY <2>1, <2>2, <1>a, TicketUntouched
  <2>3. CASE j = k
    <3>1. ticket'[k] = Tk!Stamped(ticket[k], to, at)
      BY <2>1, <2>3, <1>a
    <3>2. /\ ticket'[k].responseDue = ticket[k].responseDue /\ ticket'[k].resolutionDue = ticket[k].resolutionDue
          /\ ticket'[k].responded = ticket[k].responded
          /\ \/ ticket'[k].resolved = ticket[k].resolved
             \/ ticket[k].resolved = Nothing /\ ticket'[k].resolved = at /\ ticket[k].status \notin Tk!Done
             \/ ticket'[k].resolved = Nothing /\ ticket'[k].status \notin Tk!Done
      BY <3>1, <1>a DEF Tk!Stamped, TicketRows, WellStamped
    <3> QED BY <2>1, <3>2, <1>a, OnlyStamped
  <2> QED BY <2>2, <2>3
<1>4. ASSUME NEW to \in Tk!Statuses, NEW at \in Tk!Hours, NEW internal \in BOOLEAN,
             Tk!TicketReply(j, internal, to, at)
      PROVE Tk!Measured(k)
  <2> DEFINE t == Tk!FirstResponse(ticket[j], internal, at)
  <2>1. /\ ticket' = [ticket EXCEPT ![j] = IF to = t.status THEN t ELSE Tk!Stamped(t, to, at)]
        /\ clock' = clock /\ at \in Int /\ at <= clock
    BY <1>4, <1>b DEF Tk!TicketReply
  <2>2. CASE j # k
    BY <2>1, <2>2, <1>a, TicketUntouched
  <2>3. CASE j = k
    <3>1. ticket'[k] = IF to = t.status THEN t ELSE Tk!Stamped(t, to, at)
      BY <2>1, <2>3, <1>a
    <3>2. /\ t.responseDue = ticket[k].responseDue /\ t.resolutionDue = ticket[k].resolutionDue
          /\ t.responded = ticket[k].responded \/ (ticket[k].responded = Nothing /\ t.responded = at)
          /\ t.status = ticket[k].status /\ t.resolved = ticket[k].resolved /\ t.closed = ticket[k].closed
          /\ t \in TicketRows
      BY <2>3, <1>a DEF Tk!FirstResponse, TicketRows
    <3> HIDE DEF t
    <3>3. /\ ticket'[k].responseDue = ticket[k].responseDue /\ ticket'[k].resolutionDue = ticket[k].resolutionDue
          /\ ticket'[k].responded = t.responded
          /\ \/ ticket'[k].resolved = ticket[k].resolved
             \/ ticket[k].resolved = Nothing /\ ticket'[k].resolved = at /\ ticket[k].status \notin Tk!Done
             \/ ticket'[k].resolved = Nothing /\ ticket'[k].status \notin Tk!Done
      BY <3>1, <3>2, <1>a DEF Tk!Stamped, TicketRows, WellStamped
    <3> QED BY <2>1, <3>2, <3>3, <1>a, OnlyStamped
  <2> QED BY <2>2, <2>3
<1>5. CASE Tk!TicketDelete(j)
  <2>1. ticket' = [ticket EXCEPT ![j] = Tk!NoTicket] /\ clock' = clock
    BY <1>5 DEF Tk!TicketDelete
  <2>2. j # k
    BY <2>1, <1>a DEF Tk!NoTicket
  <2> QED BY <2>1, <2>2, <1>a, TicketUntouched
<1> QED BY Zenon, <1>1, <1>2, <1>3, <1>4, <1>5

(* The hour passes: what was late stays so.                                *)
LEMMA TickIsFair ==
    ASSUME TicketInv, Tk!Tick, NEW k \in Tickets
    PROVE  Tk!Measured(k)
<1> DEFINE t == ticket[k]
<1>1. /\ t.responseDue \in Int /\ t.resolutionDue \in Int /\ clock \in Int /\ clock' = clock + 1
      /\ t.responded \in Int \cup {Nothing} /\ t.resolved \in Int \cup {Nothing} /\ ticket' = ticket
  BY HoursAreNumbers DEF TicketInv, TicketShape, TicketRows, Tk!Tick
<1>2. ASSUME NEW due \in Int, NEW happened \in Int \cup {Nothing}, Tk!SlaState(due, happened) = "breached"
      PROVE  Tk!SlaState(due, happened)' = "breached"
  <2>1. CASE happened = Nothing
    <3>1. due < clock
      BY <2>1, <1>1, <1>2, LateInFigures
    <3>2. clock' > due
      BY <3>1, <1>1
    <3> QED BY <2>1, <3>2 DEF Tk!SlaState
  <2>2. CASE happened # Nothing
    BY <2>2, <1>2 DEF Tk!SlaState
  <2> QED BY <2>1, <2>2
<1>3. Tk!ResponseLate(k) => Tk!ResponseLate(k)'
  BY <1>1, <1>2 DEF Tk!ResponseLate, Tk!SlaState
<1>4. Tk!ResolutionLate(k) => Tk!ResolutionLate(k)'
  BY <1>1, <1>2 DEF Tk!ResolutionLate, Tk!SlaState
<1> QED BY <1>1, <1>3, <1>4 DEF Tk!Measured

LEMMA TicketsFair ==
    ASSUME TicketInv, Tk!Next, ticket' # ticket \/ clock' # clock, NEW k \in Tickets, Tk!Stored(k), ticket'[k].status # "absent"
    PROVE  Tk!Measured(k)
<1>1. CASE Tk!Tick
  BY <1>1, TickIsFair
<1>2. ASSUME NEW p \in Plans,
             \/ \E from \in Tk!Days, terms \in Tk!Terms :
                   Tk!MaintenancePlanCreate(p, from, terms) \/ Tk!MaintenancePlanUpdate(p, from, terms)
             \/ \E to \in {"active", "paused", "ended"}, day \in Tk!Days \cup {Nothing} :
                   Tk!MaintenancePlanChangeStatus(p, to, day)
             \/ Tk!MaintenancePlanDelete(p) \/ Tk!MaintenanceVisitCreate(p) \/ Tk!MaintenanceVisitDelete(p)
      PROVE FALSE
  <2>1. ticket' = ticket /\ clock' = clock
    BY Zenon, <1>2 DEF Tk!MaintenancePlanCreate, Tk!MaintenancePlanUpdate, Tk!MaintenancePlanChangeStatus,
       Tk!MaintenancePlanDelete, Tk!MaintenanceVisitCreate, Tk!MaintenanceVisitDelete
  <2> QED BY <2>1
<1>3. ASSUME NEW j \in Tickets,
             \/ \E client \in BOOLEAN, priority \in Tk!Priorities :
                   \/ \E at \in Tk!Hours : Tk!TicketCreate(j, client, priority, at)
                   \/ Tk!TicketUpdate(j, client, priority)
             \/ \E to \in Tk!Statuses, at \in Tk!Hours :
                   \/ Tk!TicketChangeStatus(j, to, at)
                   \/ \E internal \in BOOLEAN : Tk!TicketReply(j, internal, to, at)
             \/ Tk!TicketDelete(j)
      PROVE Tk!Measured(k)
  BY Zenon, <1>3, TicketStepIsFair
<1> QED BY Zenon, <1>1, <1>2, <1>3 DEF Tk!Next

LEMMA OfficeTickets ==
    /\ OfficeInit => (part = "tickets" => TicketInv)
    /\ (part = "tickets" => TicketInv) /\ [OfficeNext]_officeVars => (part = "tickets" => TicketInv)'
<1>1. OfficeInit => (part = "tickets" => TicketInv)
  BY TicketInit DEF OfficeInit
<1>2. ASSUME part = "tickets" => TicketInv, [OfficeNext]_officeVars, part' = "tickets" PROVE TicketInv'
  <2>1. part = "tickets" /\ (Tk!Next \/ UNCHANGED ticketsVars)
    BY Zenon, <1>2 DEF OfficeNext, TicketsNext, CrmNext, officeVars
  <2> QED BY <1>2, <2>1, TicketNext
<1> QED BY <1>1, <1>2

\* Measured fairly, for any tickets, plans and hours: what was promised for a
\* ticket and when it was first kept stay (ticketUpdate, ticketChangeStatus and
\* ticketReply of support/tickets.ts, and the plans they are measured by).
THEOREM TicketsAlwaysMeasured == OfficeSpec => TicketsMeasured
<1> DEFINE P == part = "tickets" => TicketInv
<1>1. OfficeInit => P
  BY OfficeTickets
<1>2. P /\ [OfficeNext]_officeVars => P'
  BY OfficeTickets
<1>3. P /\ [OfficeNext]_officeVars =>
        [ticket' # ticket \/ clock' # clock =>
           \A k \in Tickets : Tk!Stored(k) /\ ticket'[k].status # "absent" => Tk!Measured(k)]_(Tk!vars)
  <2> SUFFICES ASSUME P, [OfficeNext]_officeVars, ticket' # ticket \/ clock' # clock,
                      NEW k \in Tickets, Tk!Stored(k), ticket'[k].status # "absent"
               PROVE  Tk!Measured(k)
    OBVIOUS
  <2>1. part = "tickets" /\ Tk!Next
    BY Zenon DEF OfficeNext, TicketsNext, CrmNext, officeVars, ticketsVars
  <2> QED BY <2>1, TicketsFair
<1> QED BY <1>1, <1>2, <1>3, PTL DEF OfficeSpec, TicketsMeasured, Tk!MeasuredFairly

-----------------------------------------------------------------------------
(* Crm.                                                                    *)

CompanyRows == [stage : {"absent"} \cup Cr!Stages, became : BOOLEAN, archived : BOOLEAN]
ContactRows == [stored : BOOLEAN, company : Companies \cup {Nothing}, mail : BOOLEAN, archived : BOOLEAN]
DealRows ==
    [stage : {"absent", "open", "won", "lost"}, company : Companies \cup {Nothing},
     contact : Contacts \cup {Nothing}, archived : BOOLEAN]
LeadRows ==
    [status : {"absent", "new", "disqualified", "converted"}, archived : BOOLEAN,
     company : Companies \cup {Nothing}, contact : Contacts \cup {Nothing}, deal : Deals \cup {Nothing}]
Targets ==
    [lead : Leads \cup {Nothing}, deal : Deals \cup {Nothing},
     contact : Contacts \cup {Nothing}, company : Companies \cup {Nothing}]
ActivityRows == [stored : BOOLEAN, targets : Targets, missed : BOOLEAN]
Calls ==
    [op : {"idle", "deal.create", "deal.restore", "activity.create"}, row : Deals \cup {Nothing},
     targets : Targets, early : BOOLEAN]

CrmShape ==
    /\ company \in [Companies -> CompanyRows]
    /\ contact \in [Contacts -> ContactRows]
    /\ deal \in [Deals -> DealRows]
    /\ lead \in [Leads -> LeadRows]
    /\ activity \in [Activities -> ActivityRows]
    /\ call \in [Callers -> Calls]
    /\ excused \subseteq Deals

CompanySound(c) ==
    /\ company[c].stage = "client" => company[c].became
    /\ company[c].archived => Cr!StoredC(c)

LeadSound(l) ==
    /\ lead[l].status = "converted" <=> lead[l].company # Nothing
    /\ lead[l].deal # Nothing => Cr!StoredD(lead[l].deal) /\ deal[lead[l].deal].company = lead[l].company

DealSound(d) == Cr!StoredD(d) => deal[d].company \in Companies /\ Cr!StoredC(deal[d].company)

(* What was said to a lead that was converted names what it became.        *)
Follows(t) ==
    /\ t.company # Nothing
    /\ lead[t.lead].contact # Nothing => t.contact # Nothing
    /\ lead[t.lead].deal # Nothing => t.deal # Nothing

ActivitySound(a) ==
    LET t == activity[a].targets IN
    /\ activity[a].stored => t # Cr!NoActivity.targets
    /\ t.lead # Nothing /\ lead[t.lead].status = "converted" /\ ~activity[a].missed => Follows(t)

(* What a request has read is still there; and an activity that was        *)
(* resolved after its lead was converted names what that became.           *)
CallSound(q) ==
    /\ q.op = "deal.create" => q.targets.company \in Companies /\ Cr!StoredC(q.targets.company)
    /\ q.op = "deal.restore" => q.row \in Deals /\ Cr!StoredD(q.row)
    /\ q.op = "activity.create" =>
          /\ q.targets # Cr!NoActivity.targets
          /\ q.targets.lead # Nothing /\ ~q.early => lead[q.targets.lead].status = "converted" /\ Follows(q.targets)

OneAddress ==
    \A p, q \in Contacts : Cr!Reachable(p) /\ Cr!Reachable(q) /\ contact[p].mail /\ contact[q].mail => p = q

CrmInv ==
    /\ CrmShape
    /\ OneAddress
    /\ \A c \in Companies : CompanySound(c)
    /\ \A l \in Leads : LeadSound(l)
    /\ \A d \in Deals : DealSound(d)
    /\ \A a \in Activities : ActivitySound(a)
    /\ \A r \in Callers : CallSound(call[r])
    /\ Cr!ArchivedIdle

LEMMA BlankRecords ==
    /\ Cr!NoCompany \in CompanyRows /\ Cr!NoContact \in ContactRows /\ Cr!NoDeal \in DealRows
    /\ Cr!NoLead \in LeadRows /\ Cr!NoActivity \in ActivityRows /\ Cr!Idle \in Calls
BY DEF Cr!NoCompany, Cr!NoContact, Cr!NoDeal, Cr!NoLead, Cr!NoActivity, Cr!Idle,
   CompanyRows, ContactRows, DealRows, LeadRows, ActivityRows, Calls, Targets

LEMMA NothingIsNoRow ==
    /\ Nothing \notin Companies /\ Nothing \notin Contacts /\ Nothing \notin Deals /\ Nothing \notin Leads
BY OfficeAssumption

LEMMA CrmInit == Cr!Init => CrmInv
<1> SUFFICES ASSUME Cr!Init PROVE CrmInv
  OBVIOUS
<1>1. CrmShape
  BY BlankRecords DEF Cr!Init, CrmShape
<1>2. OneAddress /\ Cr!ArchivedIdle
  BY DEF Cr!Init, OneAddress, Cr!Reachable, Cr!NoContact, Cr!ArchivedIdle, Cr!Open, Cr!NoDeal
<1>3. ASSUME NEW c \in Companies PROVE CompanySound(c)
  BY DEF Cr!Init, CompanySound, Cr!NoCompany
<1>4. ASSUME NEW l \in Leads PROVE LeadSound(l)
  BY DEF Cr!Init, LeadSound, Cr!NoLead
<1>5. ASSUME NEW d \in Deals PROVE DealSound(d)
  BY DEF Cr!Init, DealSound, Cr!NoDeal, Cr!StoredD
<1>6. ASSUME NEW a \in Activities PROVE ActivitySound(a)
  BY DEF Cr!Init, ActivitySound, Cr!NoActivity
<1>7. ASSUME NEW r \in Callers PROVE CallSound(call[r])
  BY DEF Cr!Init, CallSound, Cr!Idle
<1> QED BY <1>1, <1>2, <1>3, <1>4, <1>5, <1>6, <1>7 DEF CrmInv

LEMMA CrmKept == CrmInv => Cr!TypeOK /\ Cr!HistoryFollows /\ Cr!ArchivedIdle
<1> SUFFICES ASSUME CrmInv PROVE Cr!TypeOK /\ Cr!HistoryFollows /\ Cr!ArchivedIdle
  OBVIOUS
<1>1. Cr!TypeOK
  <2>1. \A c \in Companies : CompanySound(c)
    BY DEF CrmInv
  <2>2. \A l \in Leads : LeadSound(l)
    BY DEF CrmInv
  <2>3. \A d \in Deals : DealSound(d)
    BY DEF CrmInv
  <2>4. \A a \in Activities : ActivitySound(a)
    BY DEF CrmInv
  <2>5. OneAddress
    BY DEF CrmInv
  <2>6. \A c \in Companies : (company[c].stage = "client" => company[c].became) /\ (company[c].archived => Cr!StoredC(c))
    BY <2>1 DEF CompanySound
  <2>7. \A l \in Leads : /\ lead[l].status = "converted" <=> lead[l].company # Nothing
                         /\ lead[l].deal # Nothing => deal[lead[l].deal].company = lead[l].company
    BY <2>2 DEF LeadSound
  <2>8. \A d \in Deals : Cr!StoredD(d) => Cr!StoredC(deal[d].company)
    BY <2>3 DEF DealSound
  <2>9. \A a \in Activities : activity[a].stored => activity[a].targets # Cr!NoActivity.targets
    BY <2>4 DEF ActivitySound
  <2> QED BY Zenon, <2>5, <2>6, <2>7, <2>8, <2>9 DEF Cr!TypeOK, OneAddress
<1>2. Cr!HistoryFollows
  BY DEF CrmInv, ActivitySound, Follows, Cr!HistoryFollows
<1> QED BY <1>1, <1>2 DEF CrmInv

-----------------------------------------------------------------------------
(* What no step takes back: rows stay, a deal stays with its company, and  *)
(* what a lead became stays what it became.                                *)
Persists ==
    /\ \A c \in Companies : Cr!StoredC(c) => Cr!StoredC(c)'
    /\ \A d \in Deals : Cr!StoredD(d) => Cr!StoredD(d)' /\ deal'[d].company = deal[d].company
    /\ \A l \in Leads : lead[l].status = "converted" =>
          /\ lead'[l].status = "converted" /\ lead'[l].company = lead[l].company
          /\ lead'[l].contact = lead[l].contact /\ lead'[l].deal = lead[l].deal

LEMMA CallPersists ==
    ASSUME CrmInv, Persists, NEW q \in Calls, CallSound(q)
    PROVE  CallSound(q)'
<1>1. q.op = "deal.create" => q.targets.company \in Companies /\ Cr!StoredC(q.targets.company)'
  BY DEF CallSound, Persists
<1>2. q.op = "deal.restore" => q.row \in Deals /\ Cr!StoredD(q.row)'
  BY DEF CallSound, Persists
<1>3. ASSUME q.op = "activity.create"
      PROVE  /\ q.targets # Cr!NoActivity.targets
             /\ q.targets.lead # Nothing /\ ~q.early => lead'[q.targets.lead].status = "converted" /\ Follows(q.targets)'
  <2>1. q.targets.lead # Nothing => q.targets.lead \in Leads
    BY DEF Calls, Targets
  <2> QED BY <1>3, <2>1 DEF CallSound, Persists, Follows
<1> QED BY Zenon, <1>1, <1>2, <1>3 DEF CallSound

(* What is left to show of a step.                                         *)
LEMMA CrmFrame ==
    ASSUME CrmInv, CrmShape', Persists, OneAddress', Cr!ArchivedIdle',
           \A c \in Companies : CompanySound(c)',
           \A l \in Leads : LeadSound(l)',
           \A d \in Deals : ~Cr!StoredD(d) => DealSound(d)',
           \A a \in Activities : ActivitySound(a)',
           \A r \in Callers : call'[r] = call[r] \/ CallSound(call[r])'
    PROVE  CrmInv'
<1>1. ASSUME NEW d \in Deals PROVE DealSound(d)'
  BY DEF CrmInv, DealSound, Persists
<1>2. ASSUME NEW r \in Callers PROVE CallSound(call[r])'
  <2>1. call[r] \in Calls /\ CallSound(call[r])
    BY DEF CrmInv, CrmShape
  <2>2. CASE call'[r] = call[r]
    <3> PICK q \in Calls : q = call[r]
      BY <2>1
    <3>1. CallSound(q)'
      BY <2>1, CallPersists
    <3> QED BY <2>2, <3>1 DEF CallSound, Follows
  <2> QED BY <2>2
<1> QED BY <1>1, <1>2 DEF CrmInv

LEMMA SameCompanies == CrmInv /\ company' = company => \A c \in Companies : CompanySound(c)'
BY DEF CrmInv, CompanySound, Cr!StoredC

LEMMA SameContacts == CrmInv /\ contact' = contact => OneAddress'
BY DEF CrmInv, OneAddress, Cr!Reachable

LEMMA SameLeads == CrmInv /\ Persists /\ lead' = lead => \A l \in Leads : LeadSound(l)'
<1> SUFFICES ASSUME CrmInv, Persists, lead' = lead, NEW l \in Leads PROVE LeadSound(l)'
  OBVIOUS
<1>1. LeadSound(l) /\ lead[l].deal \in Deals \cup {Nothing}
  BY DEF CrmInv, CrmShape, LeadRows
<1> QED BY <1>1 DEF LeadSound, Persists

LEMMA SameHistory ==
    CrmInv /\ lead' = lead /\ activity' = activity => \A a \in Activities : ActivitySound(a)'
BY DEF CrmInv, ActivitySound, Follows

LEMMA SameDeals ==
    CrmInv /\ deal' = deal /\ excused' = excused /\ (\A c \in Companies : company'[c].archived = company[c].archived)
       => Cr!ArchivedIdle'
<1> SUFFICES ASSUME CrmInv, deal' = deal, excused' = excused,
                    \A c \in Companies : company'[c].archived = company[c].archived,
                    NEW d \in Deals \ excused, Cr!Open(d)
             PROVE  ~company'[deal[d].company].archived
  BY DEF Cr!ArchivedIdle, Cr!Open
<1>1. deal[d].company \in Companies
  BY DEF CrmInv, DealSound, Cr!Open, Cr!StoredD
<1> QED BY <1>1 DEF CrmInv, Cr!ArchivedIdle

(* Companies.                                                              *)
LEMMA CompanyKeeps ==
    ASSUME CrmInv, NEW c \in Companies, NEW x \in CompanyRows,
           x.stage # "absent", x.stage = "client" => x.became,
           company' = [company EXCEPT ![c] = x], UNCHANGED <<contact, deal, lead, activity, call>>,
           excused' \subseteq Deals, Cr!ArchivedIdle'
    PROVE  CrmInv'
<1>1. CrmShape'
  BY DEF CrmInv, CrmShape
<1>2. Persists
  BY DEF CrmInv, CrmShape, Persists, Cr!StoredC, Cr!StoredD
<1>3. \A e \in Companies : CompanySound(e)'
  BY DEF CrmInv, CrmShape, CompanySound, Cr!StoredC
<1> QED BY <1>1, <1>2, <1>3, SameContacts, SameLeads, SameHistory, CrmFrame DEF DealSound, Cr!StoredD

LEMMA CompaniesKeep ==
    ASSUME CrmInv, NEW c \in Companies
    PROVE  /\ \A stage \in Cr!Stages : Cr!CompanyCreate(c, stage) \/ Cr!CompanyUpdate(c, stage) => CrmInv'
           /\ Cr!CompanyArchive(c) \/ Cr!CompanyRestore(c) => CrmInv'
<1>a. company \in [Companies -> CompanyRows] /\ company[c] \in CompanyRows /\ CompanySound(c) /\ excused \subseteq Deals
  BY DEF CrmInv, CrmShape
<1>1. ASSUME NEW stage \in Cr!Stages, Cr!CompanyCreate(c, stage) PROVE CrmInv'
  <2> DEFINE x == [company[c] EXCEPT !.stage = stage, !.became = (stage = "client")]
  <2>1. company' = [company EXCEPT ![c] = x] /\ UNCHANGED <<contact, deal, lead, activity, call, excused>>
    BY <1>1, <1>a DEF Cr!CompanyCreate
  <2>2. x \in CompanyRows /\ x.stage # "absent" /\ (x.stage = "client" => x.became) /\ x.archived = company[c].archived
    BY <1>a DEF CompanyRows, Cr!Stages
  <2> HIDE DEF x
  <2>3. \A e \in Companies : company'[e].archived = company[e].archived
    BY <2>1, <2>2, <1>a
  <2> QED BY <2>1, <2>2, <2>3, <1>a, SameDeals, CompanyKeeps
<1>2. ASSUME NEW stage \in Cr!Stages, Cr!CompanyUpdate(c, stage) PROVE CrmInv'
  <2> DEFINE x == IF stage = "client" THEN Cr!AsClient(company[c]) ELSE [company[c] EXCEPT !.stage = stage]
  <2>1. company' = [company EXCEPT ![c] = x] /\ UNCHANGED <<contact, deal, lead, activity, call, excused>>
    BY <1>2, <1>a DEF Cr!CompanyUpdate
  <2>2. x \in CompanyRows /\ x.stage # "absent" /\ (x.stage = "client" => x.became) /\ x.archived = company[c].archived
    BY <1>a DEF CompanyRows, Cr!Stages, Cr!AsClient
  <2> HIDE DEF x
  <2>3. \A e \in Companies : company'[e].archived = company[e].archived
    BY <2>1, <2>2, <1>a
  <2> QED BY <2>1, <2>2, <2>3, <1>a, SameDeals, CompanyKeeps
<1>3. ASSUME Cr!CompanyArchive(c) PROVE CrmInv'
  <2> DEFINE x == [company[c] EXCEPT !.archived = TRUE]
  <2>1. /\ company' = [company EXCEPT ![c] = x] /\ UNCHANGED <<contact, deal, lead, activity, call, excused>>
        /\ company[c].stage # "absent" /\ ~Cr!HasOpenDeal(c)
    BY <1>3, <1>a DEF Cr!CompanyArchive, Cr!Usable, Cr!StoredC
  <2>2. x \in CompanyRows /\ x.stage # "absent" /\ (x.stage = "client" => x.became)
    BY <1>a, <2>1 DEF CompanyRows, CompanySound
  <2> HIDE DEF x
  <2>3. Cr!ArchivedIdle'
    BY <2>1, <1>a DEF CrmInv, Cr!ArchivedIdle, Cr!HasOpenDeal, Cr!Open
  <2> QED BY <2>1, <2>2, <2>3, <1>a, CompanyKeeps
<1>4. ASSUME Cr!CompanyRestore(c) PROVE CrmInv'
  <2> DEFINE x == [company[c] EXCEPT !.archived = FALSE]
  <2>1. /\ company' = [company EXCEPT ![c] = x] /\ UNCHANGED <<contact, deal, lead, activity, call>>
        /\ company[c].stage # "absent" /\ excused' = {d \in excused : deal[d].company # c}
    BY <1>4, <1>a DEF Cr!CompanyRestore, Cr!StoredC
  <2>2. x \in CompanyRows /\ x.stage # "absent" /\ (x.stage = "client" => x.became) /\ ~x.archived
    BY <1>a, <2>1 DEF CompanyRows, CompanySound
  <2> HIDE DEF x
  <2>3. Cr!ArchivedIdle'
    BY <2>1, <2>2, <1>a DEF CrmInv, Cr!ArchivedIdle, Cr!Open
  <2> QED BY <2>1, <2>2, <2>3, <1>a, CompanyKeeps
<1> QED BY <1>1, <1>2, <1>3, <1>4

(* Contacts.                                                               *)
LEMMA ContactKeeps ==
    ASSUME CrmInv, NEW p \in Contacts, NEW x \in ContactRows,
           x.stored /\ ~x.archived /\ x.mail => Cr!MailFree(p) \/ (Cr!Reachable(p) /\ contact[p].mail),
           contact' = [contact EXCEPT ![p] = x], UNCHANGED <<company, deal, lead, activity, call, excused>>
    PROVE  CrmInv'
<1>1. CrmShape'
  BY DEF CrmInv, CrmShape
<1>2. Persists
  BY DEF Persists, Cr!StoredC, Cr!StoredD
<1>3. OneAddress'
  BY DEF CrmInv, CrmShape, OneAddress, Cr!Reachable, Cr!MailFree
<1> QED BY <1>1, <1>2, <1>3, SameCompanies, SameLeads, SameHistory, SameDeals, CrmFrame DEF DealSound, Cr!StoredD

LEMMA ContactsKeep ==
    ASSUME CrmInv, NEW p \in Contacts
    PROVE  /\ \A c \in Companies \cup {Nothing}, mail \in BOOLEAN :
                Cr!ContactCreate(p, c, mail) \/ Cr!ContactUpdate(p, c, mail) => CrmInv'
           /\ Cr!ContactArchive(p) \/ Cr!ContactRestore(p) => CrmInv'
<1>a. contact \in [Contacts -> ContactRows] /\ contact[p] \in ContactRows
  BY DEF CrmInv, CrmShape
<1>1. ASSUME NEW c \in Companies \cup {Nothing}, NEW mail \in BOOLEAN, Cr!ContactCreate(p, c, mail) PROVE CrmInv'
  <2> DEFINE x == [stored |-> TRUE, company |-> c, mail |-> mail, archived |-> FALSE]
  <2>1. x \in ContactRows /\ x.mail = mail
    BY DEF ContactRows
  <2>2. /\ contact' = [contact EXCEPT ![p] = x] /\ UNCHANGED <<company, deal, lead, activity, call, excused>>
        /\ mail => Cr!MailFree(p)
    BY <1>1 DEF Cr!ContactCreate
  <2> HIDE DEF x
  <2> QED BY <2>1, <2>2, ContactKeeps
<1>2. ASSUME NEW c \in Companies \cup {Nothing}, NEW mail \in BOOLEAN, Cr!ContactUpdate(p, c, mail) PROVE CrmInv'
  <2> DEFINE x == [contact[p] EXCEPT !.company = c, !.mail = mail]
  <2>1. x \in ContactRows /\ x.mail = mail /\ x.archived = contact[p].archived
    BY <1>a DEF ContactRows
  <2>2. /\ contact' = [contact EXCEPT ![p] = x] /\ UNCHANGED <<company, deal, lead, activity, call, excused>>
        /\ (mail /\ ~contact[p].archived) => Cr!MailFree(p)
    BY <1>2, <1>a DEF Cr!ContactUpdate
  <2> HIDE DEF x
  <2> QED BY <2>1, <2>2, ContactKeeps
<1>3. ASSUME Cr!ContactArchive(p) PROVE CrmInv'
  <2> DEFINE x == [contact[p] EXCEPT !.archived = TRUE]
  <2>1. x \in ContactRows /\ x.archived
    BY <1>a DEF ContactRows
  <2>2. contact' = [contact EXCEPT ![p] = x] /\ UNCHANGED <<company, deal, lead, activity, call, excused>>
    BY <1>3, <1>a DEF Cr!ContactArchive
  <2> HIDE DEF x
  <2> QED BY <2>1, <2>2, ContactKeeps
<1>4. ASSUME Cr!ContactRestore(p) PROVE CrmInv'
  <2> DEFINE x == [contact[p] EXCEPT !.archived = FALSE]
  <2>1. x \in ContactRows /\ x.mail = contact[p].mail
    BY <1>a DEF ContactRows
  <2>2. /\ contact' = [contact EXCEPT ![p] = x] /\ UNCHANGED <<company, deal, lead, activity, call, excused>>
        /\ contact[p].mail => Cr!MailFree(p)
    BY <1>4, <1>a DEF Cr!ContactRestore
  <2> HIDE DEF x
  <2> QED BY <2>1, <2>2, ContactKeeps
<1> QED BY <1>1, <1>2, <1>3, <1>4

(* Deals: one is written, by a request of one step or at the end of one.   *)
LEMMA DealKeeps ==
    ASSUME CrmInv, NEW d \in Deals, NEW x \in DealRows, x.stage # "absent",
           x.company \in Companies, Cr!StoredC(x.company),
           Cr!StoredD(d) => x.company = deal[d].company,
           deal' = [deal EXCEPT ![d] = x], UNCHANGED <<contact, lead, activity>>,
           company' \in [Companies -> CompanyRows],
           \A c \in Companies : /\ Cr!StoredC(c) => Cr!StoredC(c)'
                                /\ company'[c].archived = company[c].archived
                                /\ company'[c].stage = "client" => company'[c].became,
           call' \in [Callers -> Calls], \A r \in Callers : call'[r] \in {call[r], Cr!Idle},
           excused \subseteq excused' /\ excused' \subseteq excused \cup {d},
           x.stage = "open" /\ ~x.archived /\ company[x.company].archived =>
              d \in excused' \/ (Cr!Open(d) /\ d \notin excused)
    PROVE  CrmInv'
<1>1. CrmShape'
  BY DEF CrmInv, CrmShape
<1>a. deal \in [Deals -> DealRows] /\ call \in [Callers -> Calls]
  BY DEF CrmInv, CrmShape
<1>2. Persists
  BY <1>a DEF Persists, Cr!StoredC, Cr!StoredD
<1>3. Cr!ArchivedIdle'
  <2> SUFFICES ASSUME NEW e \in Deals \ excused', Cr!Open(e)' PROVE ~company'[deal'[e].company].archived
    BY DEF Cr!ArchivedIdle
  <2>1. CASE e = d
    <3>1. x.stage = "open" /\ ~x.archived /\ deal'[e] = x
      BY <2>1, <1>a DEF Cr!Open
    <3>2. CASE Cr!Open(d) /\ d \notin excused
      BY <3>1, <3>2 DEF CrmInv, Cr!ArchivedIdle, Cr!Open, Cr!StoredD
    <3> QED BY <2>1, <3>1, <3>2
  <2>2. CASE e # d
    <3>1. deal'[e] = deal[e] /\ e \notin excused /\ Cr!Open(e) /\ deal[e].company \in Companies
      BY <2>2, <1>a DEF Cr!Open, CrmInv, DealSound, Cr!StoredD
    <3> QED BY <3>1 DEF CrmInv, Cr!ArchivedIdle
  <2> QED BY <2>1, <2>2
<1>4. \A c \in Companies : CompanySound(c)'
  BY DEF CrmInv, CompanySound
<1>5. \A r \in Callers : call'[r] = call[r] \/ CallSound(call[r])'
  BY DEF CallSound, Cr!Idle
<1>6. \A e \in Deals : ~Cr!StoredD(e) => DealSound(e)'
  BY <1>a DEF DealSound, Cr!StoredD
<1> QED BY Zenon, <1>1, <1>2, <1>3, <1>4, <1>5, <1>6, SameContacts, SameLeads, SameHistory, CrmFrame

LEMMA IdleCall ==
    ASSUME CrmInv, NEW r \in Callers, call' = [call EXCEPT ![r] = Cr!Idle]
    PROVE  call' \in [Callers -> Calls] /\ \A s \in Callers : call'[s] \in {call[s], Cr!Idle}
BY BlankRecords DEF CrmInv, CrmShape

LEMMA SameCompaniesForDeals ==
    ASSUME CrmInv, company' = company
    PROVE  /\ company' \in [Companies -> CompanyRows]
           /\ \A c \in Companies : /\ Cr!StoredC(c) => Cr!StoredC(c)'
                                   /\ company'[c].archived = company[c].archived
                                   /\ company'[c].stage = "client" => company'[c].became
BY DEF CrmInv, CrmShape, CompanySound, Cr!StoredC

LEMMA DealsKeep ==
    ASSUME CrmInv, NEW d \in Deals
    PROVE  /\ \A p \in Contacts \cup {Nothing} : Cr!DealUpdate(d, p) => CrmInv'
           /\ \A stage \in {"open", "won", "lost"} : Cr!DealChangeStage(d, stage) => CrmInv'
           /\ Cr!DealArchive(d) => CrmInv'
           /\ \A r \in Callers : Cr!InsertDeal(r, d) => CrmInv'
<1>a. /\ deal \in [Deals -> DealRows] /\ deal[d] \in DealRows /\ call \in [Callers -> Calls]
      /\ company \in [Companies -> CompanyRows] /\ DealSound(d)
  BY DEF CrmInv, CrmShape
<1>1. ASSUME NEW p \in Contacts \cup {Nothing}, Cr!DealUpdate(d, p) PROVE CrmInv'
  <2> DEFINE x == [deal[d] EXCEPT !.contact = p]
  <2>1. x \in DealRows /\ x.stage = deal[d].stage /\ x.company = deal[d].company /\ x.archived = deal[d].archived
    BY <1>a DEF DealRows
  <2>2. /\ deal' = [deal EXCEPT ![d] = x] /\ UNCHANGED <<company, contact, lead, activity, call, excused>>
        /\ Cr!StoredD(d)
    BY <1>1, <1>a DEF Cr!DealUpdate, Cr!records
  <2> HIDE DEF x
  <2>3. /\ x.stage # "absent" /\ x.company \in Companies /\ Cr!StoredC(x.company)
        /\ x.stage = "open" /\ ~x.archived => Cr!Open(d)
    BY <2>1, <2>2, <1>a DEF DealSound, Cr!StoredD, Cr!Open
  <2> QED BY <2>1, <2>2, <2>3, <1>a, SameCompaniesForDeals, DealKeeps
<1>2. ASSUME NEW stage \in {"open", "won", "lost"}, Cr!DealChangeStage(d, stage) PROVE CrmInv'
  <2> DEFINE x == [deal[d] EXCEPT !.stage = stage]
             c == deal[d].company
  <2>1. x \in DealRows /\ x.stage = stage /\ x.company = c /\ c = deal[d].company /\ x.archived = deal[d].archived
    BY <1>a DEF DealRows
  <2>2. /\ deal' = [deal EXCEPT ![d] = x] /\ UNCHANGED <<contact, lead, activity, call>>
        /\ company' = IF stage = "won" THEN [company EXCEPT ![c] = Cr!AsClient(company[c])] ELSE company
        /\ excused' = IF stage = "open" /\ company[c].archived THEN excused \cup {d} ELSE excused
        /\ Cr!StoredD(d)
    BY <1>2, <1>a DEF Cr!DealChangeStage
  <2>3. c \in Companies /\ Cr!StoredC(c) /\ company[c] \in CompanyRows
    BY <2>2, <1>a DEF DealSound
  <2>4. Cr!AsClient(company[c]) \in CompanyRows /\ Cr!AsClient(company[c]).became
        /\ Cr!AsClient(company[c]).stage = "client" /\ Cr!AsClient(company[c]).archived = company[c].archived
    BY <2>3 DEF CompanyRows, Cr!AsClient, Cr!Stages
  <2> HIDE DEF x, c
  <2>5. /\ company' \in [Companies -> CompanyRows]
        /\ \A e \in Companies : /\ Cr!StoredC(e) => Cr!StoredC(e)'
                                /\ company'[e].archived = company[e].archived
                                /\ company'[e].stage = "client" => company'[e].became
    <3>1. CASE stage = "won"
      BY <3>1, <2>2, <2>3, <2>4, <1>a DEF CrmInv, CompanySound, Cr!StoredC
    <3>2. CASE stage # "won"
      BY <3>2, <2>2, SameCompaniesForDeals
    <3> QED BY <3>1, <3>2
  <2> QED BY <2>1, <2>2, <2>3, <2>5, <1>a, DealKeeps
<1>3. ASSUME Cr!DealArchive(d) PROVE CrmInv'
  <2> DEFINE x == [deal[d] EXCEPT !.archived = TRUE]
  <2>1. x \in DealRows /\ x.stage = deal[d].stage /\ x.company = deal[d].company /\ x.archived
    BY <1>a DEF DealRows
  <2>2. /\ deal' = [deal EXCEPT ![d] = x] /\ UNCHANGED <<company, contact, lead, activity, call, excused>>
        /\ Cr!StoredD(d)
    BY <1>3, <1>a DEF Cr!DealArchive, Cr!records
  <2> HIDE DEF x
  <2>3. x.stage # "absent" /\ x.company \in Companies /\ Cr!StoredC(x.company)
    BY <2>1, <2>2, <1>a DEF DealSound, Cr!StoredD
  <2> QED BY <2>1, <2>2, <2>3, <1>a, SameCompaniesForDeals, DealKeeps
<1>4. ASSUME NEW r \in Callers, Cr!InsertDeal(r, d) PROVE CrmInv'
  <2> DEFINE c == call[r].targets.company
             x == [stage |-> "open", company |-> c, contact |-> call[r].targets.contact, archived |-> FALSE]
  <2>1. /\ deal' = [deal EXCEPT ![d] = x] /\ UNCHANGED <<company, contact, lead, activity>>
        /\ call' = [call EXCEPT ![r] = Cr!Idle] /\ ~Cr!StoredD(d) /\ call[r].op = "deal.create"
        /\ excused' = IF company[c].archived THEN excused \cup {d} ELSE excused
    BY <1>4 DEF Cr!InsertDeal, Cr!records
  <2>2. c \in Companies /\ Cr!StoredC(c) /\ call[r].targets.contact \in Contacts \cup {Nothing}
    BY <2>1, <1>a DEF CrmInv, CallSound, Calls, Targets
  <2>3. x \in DealRows /\ x.stage = "open" /\ x.company = c
    BY <2>2 DEF DealRows
  <2> HIDE DEF x, c
  <2> QED BY <2>1, <2>2, <2>3, <1>a, IdleCall, SameCompaniesForDeals, DealKeeps
<1> QED BY <1>1, <1>2, <1>3, <1>4

LEMMA RestoredKeeps == ASSUME CrmInv, NEW r \in Callers, Cr!Restored(r) PROVE CrmInv'
<1> DEFINE d == call[r].row
           x == [deal[d] EXCEPT !.archived = FALSE]
<1>1. d \in Deals /\ deal[d] \in DealRows /\ deal \in [Deals -> DealRows] /\ call \in [Callers -> Calls]
      /\ Cr!StoredD(d)
  BY DEF CrmInv, CrmShape, CallSound, Cr!Restored
<1>2. /\ deal' = [deal EXCEPT ![d] = x] /\ UNCHANGED <<company, contact, lead, activity>>
      /\ call' = [call EXCEPT ![r] = Cr!Idle]
      /\ excused' = IF company[deal[d].company].archived THEN excused \cup {d} ELSE excused
  BY <1>1 DEF Cr!Restored, Cr!records
<1>3. x \in DealRows /\ x.stage = deal[d].stage /\ x.company = deal[d].company
  BY <1>1 DEF DealRows
<1>4. x.stage # "absent" /\ x.company \in Companies /\ Cr!StoredC(x.company)
  BY <1>1, <1>3 DEF CrmInv, DealSound, Cr!StoredD
<1> HIDE DEF x, d
<1> QED BY <1>1, <1>2, <1>3, <1>4, IdleCall, SameCompaniesForDeals, DealKeeps

(* Leads.                                                                  *)
LEMMA LeadKeeps ==
    ASSUME CrmInv, NEW l \in Leads, NEW x \in LeadRows,
           lead[l].status = "converted" <=> x.status = "converted",
           x.company = lead[l].company, x.contact = lead[l].contact, x.deal = lead[l].deal,
           lead' = [lead EXCEPT ![l] = x], UNCHANGED <<company, contact, deal, activity, call, excused>>
    PROVE  CrmInv'
<1>a. lead \in [Leads -> LeadRows] /\ activity \in [Activities -> ActivityRows]
  BY DEF CrmInv, CrmShape
<1>1. CrmShape'
  BY DEF CrmInv, CrmShape
<1>2. Persists
  BY <1>a DEF Persists, Cr!StoredC, Cr!StoredD
<1>3. ASSUME NEW k \in Leads PROVE LeadSound(k)'
  BY <1>a DEF CrmInv, LeadSound, Cr!StoredD
<1>4. ASSUME NEW a \in Activities PROVE ActivitySound(a)'
  <2>1. ActivitySound(a) /\ activity[a].targets.lead \in Leads \cup {Nothing}
    BY <1>a DEF CrmInv, ActivityRows, Targets
  <2> QED BY <1>a, <2>1 DEF ActivitySound, Follows
<1> QED BY <1>1, <1>2, <1>3, <1>4, SameCompanies, SameContacts, SameDeals, CrmFrame DEF DealSound, Cr!StoredD

LEMMA LeadsKeep ==
    ASSUME CrmInv, NEW l \in Leads
    PROVE  /\ Cr!LeadCreate(l) \/ Cr!LeadArchive(l) \/ Cr!LeadRestore(l) => CrmInv'
           /\ \A status \in {"new", "disqualified"} : Cr!LeadChangeStatus(l, status) => CrmInv'
<1>a. lead[l] \in LeadRows /\ lead \in [Leads -> LeadRows]
  BY DEF CrmInv, CrmShape
<1>1. ASSUME NEW archived \in BOOLEAN, NEW status \in {"new", "disqualified"},
             \/ lead' = [lead EXCEPT ![l].archived = archived]
             \/ lead[l].status # "converted" /\ lead' = [lead EXCEPT ![l].status = status],
             UNCHANGED <<company, contact, deal, activity, call, excused>>
      PROVE  CrmInv'
  <2>1. CASE lead' = [lead EXCEPT ![l].archived = archived]
    <3> DEFINE x == [lead[l] EXCEPT !.archived = archived]
    <3>1. x \in LeadRows /\ x.status = lead[l].status /\ x.company = lead[l].company
          /\ x.contact = lead[l].contact /\ x.deal = lead[l].deal
      BY <1>a DEF LeadRows
    <3>2. lead' = [lead EXCEPT ![l] = x]
      BY <2>1, <1>a
    <3> HIDE DEF x
    <3> QED BY <1>1, <3>1, <3>2, LeadKeeps
  <2>2. CASE lead[l].status # "converted" /\ lead' = [lead EXCEPT ![l].status = status]
    <3> DEFINE x == [lead[l] EXCEPT !.status = status]
    <3>1. x \in LeadRows /\ x.status = status /\ x.company = lead[l].company
          /\ x.contact = lead[l].contact /\ x.deal = lead[l].deal
      BY <1>a DEF LeadRows
    <3>2. lead' = [lead EXCEPT ![l] = x]
      BY <2>2, <1>a
    <3> HIDE DEF x
    <3> QED BY <1>1, <2>2, <3>1, <3>2, LeadKeeps
  <2> QED BY <1>1, <2>1, <2>2
<1>2. Cr!LeadCreate(l) => CrmInv'
  BY <1>1 DEF Cr!LeadCreate, Cr!StoredL
<1>3. Cr!LeadArchive(l) => CrmInv'
  BY <1>1 DEF Cr!LeadArchive
<1>4. Cr!LeadRestore(l) => CrmInv'
  BY <1>1 DEF Cr!LeadRestore
<1>5. ASSUME NEW status \in {"new", "disqualified"}, Cr!LeadChangeStatus(l, status) PROVE CrmInv'
  BY <1>1, <1>5 DEF Cr!LeadChangeStatus
<1> QED BY <1>2, <1>3, <1>4, <1>5

(* The company a lead becomes is in use, and no other changes.             *)
LEMMA CompanyForLead ==
    ASSUME CrmInv, NEW c \in Companies, NEW d \in Deals \cup {Nothing}, Cr!CompanyFor(c, d)
    PROVE  /\ company' \in [Companies -> CompanyRows]
           /\ \A e \in Companies : /\ Cr!StoredC(e) => Cr!StoredC(e)'
                                   /\ company'[e].archived = company[e].archived
                                   /\ CompanySound(e)'
           /\ Cr!StoredC(c)' /\ ~company'[c].archived
<1>a. company \in [Companies -> CompanyRows] /\ company[c] \in CompanyRows /\ CompanySound(c)
  BY DEF CrmInv, CrmShape
<1>b. ~company[c].archived
  BY <1>a DEF Cr!CompanyFor, Cr!Usable, CompanySound
<1>1. ASSUME NEW x \in CompanyRows, company' = [company EXCEPT ![c] = x], x.stage # "absent", ~x.archived,
             x.stage = "client" => x.became
      PROVE  /\ company' \in [Companies -> CompanyRows]
             /\ \A e \in Companies : /\ Cr!StoredC(e) => Cr!StoredC(e)'
                                     /\ company'[e].archived = company[e].archived
                                     /\ CompanySound(e)'
             /\ Cr!StoredC(c)' /\ ~company'[c].archived
  <2>1. company'[c] = x /\ x.archived = company[c].archived /\ company' \in [Companies -> CompanyRows]
    <3>1. x.archived \in BOOLEAN /\ company[c].archived \in BOOLEAN
      BY <1>a DEF CompanyRows
    <3> QED BY <1>1, <1>a, <1>b, <3>1
  <2>2. \A e \in Companies \ {c} : company'[e] = company[e] /\ CompanySound(e)
    BY <1>1, <1>a DEF CrmInv
  <2>3. ASSUME NEW e \in Companies
        PROVE  /\ Cr!StoredC(e) => Cr!StoredC(e)'
               /\ company'[e].archived = company[e].archived
               /\ CompanySound(e)'
    BY <1>1, <2>1, <2>2 DEF CompanySound, Cr!StoredC
  <2> QED BY <1>1, <2>1, <2>3 DEF Cr!StoredC
<1>2. CASE company' = [company EXCEPT ![c] = Cr!AsClient(company[c])]
  <2> DEFINE x == Cr!AsClient(company[c])
  <2>1. x \in CompanyRows /\ x.stage # "absent" /\ ~x.archived /\ (x.stage = "client" => x.became)
    BY <1>a, <1>b DEF Cr!AsClient, CompanyRows, Cr!Stages
  <2> HIDE DEF x
  <2>2. company' = [company EXCEPT ![c] = x]
    BY <1>2 DEF x
  <2> QED BY <2>1, <2>2, <1>1
<1>3. CASE company' = company /\ Cr!StoredC(c)
  BY <1>3, <1>b DEF CrmInv, CrmShape, CompanySound, Cr!StoredC
<1>4. CASE company' = [company EXCEPT ![c] = [company[c] EXCEPT !.stage = "prospect"]]
  <2> DEFINE x == [company[c] EXCEPT !.stage = "prospect"]
  <2>1. x \in CompanyRows /\ x.stage # "absent" /\ ~x.archived /\ (x.stage = "client" => x.became)
    BY <1>a, <1>b DEF CompanyRows, Cr!Stages
  <2> HIDE DEF x
  <2>2. company' = [company EXCEPT ![c] = x]
    BY <1>4 DEF x
  <2> QED BY <2>1, <2>2, <1>1
<1> QED BY <1>2, <1>3, <1>4, <1>a DEF Cr!CompanyFor

(* The contact a lead becomes keeps its address to itself.                 *)
LEMMA ContactForLead ==
    ASSUME CrmInv, NEW c \in Companies, NEW p \in Contacts \cup {Nothing}, NEW how, Cr!ContactFor(how, p, c)
    PROVE  contact' \in [Contacts -> ContactRows] /\ OneAddress'
<1>a. contact \in [Contacts -> ContactRows] /\ OneAddress
  BY DEF CrmInv, CrmShape
<1>1. CASE UNCHANGED contact
  BY <1>1, <1>a, SameContacts
<1>2. CASE p \in Contacts /\ contact' = [contact EXCEPT ![p].company = Cr!Or(contact[p].company, c)]
  <2>1. contact[p] \in ContactRows
    BY <1>2, <1>a
  <2>2. [contact[p] EXCEPT !.company = Cr!Or(contact[p].company, c)] \in ContactRows
    BY <2>1 DEF ContactRows, Cr!Or
  <2>3. contact' \in [Contacts -> ContactRows]
    BY <1>2, <2>2, <1>a
  <2>4. \A q \in Contacts : contact'[q].stored = contact[q].stored /\ contact'[q].mail = contact[q].mail
                            /\ contact'[q].archived = contact[q].archived
    BY <1>2, <1>a DEF ContactRows
  <2> QED BY <1>a, <2>3, <2>4 DEF OneAddress, Cr!Reachable
<1>3. CASE /\ p \in Contacts /\ Cr!MailFree(p)
           /\ contact' = [contact EXCEPT ![p] = [stored |-> TRUE, company |-> c, mail |-> TRUE, archived |-> FALSE]]
  <2>1. [stored |-> TRUE, company |-> c, mail |-> TRUE, archived |-> FALSE] \in ContactRows
    BY DEF ContactRows
  <2>2. contact' \in [Contacts -> ContactRows]
    BY <1>3, <2>1, <1>a
  <2>3. \A q \in Contacts \ {p} : contact'[q] = contact[q] /\ ~(Cr!Reachable(q) /\ contact[q].mail)
    BY <1>3, <1>a DEF Cr!MailFree
  <2> QED BY <2>2, <2>3 DEF OneAddress, Cr!Reachable
<1> QED BY <1>1, <1>2, <1>3, <1>a, NothingIsNoRow DEF Cr!ContactFor

LEMMA ConvertKeeps ==
    ASSUME CrmInv, NEW l \in Leads, NEW c \in Companies, NEW how,
           NEW p \in Contacts \cup {Nothing}, NEW d \in Deals \cup {Nothing}, Cr!LeadConvert(l, c, how, p, d)
    PROVE  CrmInv'
<1> USE NothingIsNoRow
<1> DEFINE made == [stage |-> "open", company |-> c, contact |-> p, archived |-> FALSE]
           became == [status |-> "converted", archived |-> FALSE, company |-> c, contact |-> p, deal |-> d]
<1>a. /\ deal \in [Deals -> DealRows] /\ lead \in [Leads -> LeadRows] /\ activity \in [Activities -> ActivityRows]
      /\ call \in [Callers -> Calls] /\ excused \subseteq Deals
  BY DEF CrmInv, CrmShape
<1>b. /\ lead[l].status = "new" /\ (d # Nothing => ~Cr!StoredD(d))
      /\ deal' = [x \in Deals |-> IF x = d THEN made ELSE deal[x]]
      /\ lead' = [lead EXCEPT ![l] = became]
      /\ activity' = [a \in Activities |->
            IF activity[a].targets.lead = l
            THEN [activity[a] EXCEPT !.targets = Cr!Moved(activity[a].targets, c, p, d)] ELSE activity[a]]
      /\ call' = call /\ excused' = excused
  BY DEF Cr!LeadConvert
<1>c. /\ company' \in [Companies -> CompanyRows]
      /\ \A e \in Companies : /\ Cr!StoredC(e) => Cr!StoredC(e)'
                              /\ company'[e].archived = company[e].archived
                              /\ CompanySound(e)'
      /\ Cr!StoredC(c)' /\ ~company'[c].archived
  BY CompanyForLead DEF Cr!LeadConvert
<1>d. contact' \in [Contacts -> ContactRows] /\ OneAddress'
  BY ContactForLead DEF Cr!LeadConvert
<1>e. /\ made \in DealRows /\ made.stage = "open" /\ made.company = c
      /\ became \in LeadRows /\ became.status = "converted" /\ became.company = c
      /\ became.contact = p /\ became.deal = d
  BY DEF DealRows, LeadRows
<1> HIDE DEF made, became
<1>f. ASSUME NEW t \in Targets
      PROVE  LET u == Cr!Moved(t, c, p, d) IN
             /\ u \in Targets /\ u.lead = t.lead /\ u.company # Nothing
             /\ p # Nothing => u.contact # Nothing
             /\ d # Nothing => u.deal # Nothing
  BY DEF Cr!Moved, Cr!Or, Targets
<1>g. ASSUME NEW a \in Activities
      PROVE  /\ activity[a] \in ActivityRows /\ activity'[a] \in ActivityRows
             /\ activity[a].targets.lead = l => activity'[a].targets = Cr!Moved(activity[a].targets, c, p, d)
             /\ activity[a].targets.lead # l => activity'[a] = activity[a]
             /\ activity'[a].missed = activity[a].missed
  <2>1. activity[a] \in ActivityRows /\ activity[a].targets \in Targets
    BY <1>a DEF ActivityRows
  <2>2. CASE activity[a].targets.lead = l
    <3>1. activity'[a] = [activity[a] EXCEPT !.targets = Cr!Moved(activity[a].targets, c, p, d)]
      BY <1>b, <2>2
    <3>2. Cr!Moved(activity[a].targets, c, p, d) \in Targets
      BY <2>1, <1>f
    <3> QED BY <2>1, <2>2, <3>1, <3>2 DEF ActivityRows
  <2>3. CASE activity[a].targets.lead # l
    BY <2>1, <2>3, <1>b
  <2> QED BY <2>2, <2>3
<1>1. CrmShape'
  <2>1. deal' \in [Deals -> DealRows] /\ lead' \in [Leads -> LeadRows]
    BY <1>a, <1>b, <1>e
  <2>2. activity' \in [Activities -> ActivityRows]
    <3>1. DOMAIN activity' = Activities /\ activity' = [a \in DOMAIN activity' |-> activity'[a]]
      BY <1>b
    <3> QED BY <3>1, <1>g
  <2> QED BY <1>a, <1>b, <1>c, <1>d, <2>1, <2>2 DEF CrmShape
<1>2. Persists
  <2>1. \A x \in Deals : Cr!StoredD(x) => Cr!StoredD(x)' /\ deal'[x].company = deal[x].company
    BY <1>a, <1>b DEF Cr!StoredD
  <2>2. \A k \in Leads : lead[k].status = "converted" => lead'[k] = lead[k]
    BY <1>a, <1>b
  <2> QED BY <1>c, <2>1, <2>2 DEF Persists
<1>3. Cr!ArchivedIdle'
  <2> SUFFICES ASSUME NEW e \in Deals \ excused, Cr!Open(e)' PROVE ~company'[deal'[e].company].archived
    BY <1>b DEF Cr!ArchivedIdle
  <2>1. CASE e = d
    BY <2>1, <1>b, <1>c, <1>e
  <2>2. CASE e # d
    <3>1. deal'[e] = deal[e] /\ Cr!Open(e) /\ deal[e].company \in Companies
      BY <2>2, <1>b DEF Cr!Open, CrmInv, DealSound, Cr!StoredD
    <3> QED BY <3>1, <1>c DEF CrmInv, Cr!ArchivedIdle
  <2> QED BY <2>1, <2>2
<1>4. ASSUME NEW k \in Leads PROVE LeadSound(k)'
  <2>1. CASE k = l
    <3>1. lead'[k] = became
      BY <2>1, <1>a, <1>b
    <3>2. d # Nothing => deal'[d] = made
      BY <1>b
    <3> QED BY <3>1, <3>2, <1>e DEF LeadSound, Cr!StoredD
  <2>2. CASE k # l
    <3>1. lead'[k] = lead[k] /\ LeadSound(k) /\ lead[k].deal \in Deals \cup {Nothing}
      BY <2>2, <1>a, <1>b DEF CrmInv, LeadRows
    <3> QED BY <3>1, <1>2 DEF LeadSound, Persists
  <2> QED BY <2>1, <2>2
<1>5. ASSUME NEW e \in Deals, ~Cr!StoredD(e) PROVE DealSound(e)'
  <2>1. CASE e = d
    BY <2>1, <1>b, <1>c, <1>e DEF DealSound
  <2>2. CASE e # d
    BY <2>2, <1>5, <1>b DEF DealSound, Cr!StoredD
  <2> QED BY <2>1, <2>2
<1>6. ASSUME NEW a \in Activities PROVE ActivitySound(a)'
  <2> DEFINE t == activity[a].targets
  <2>1. t \in Targets /\ ActivitySound(a)
    BY <1>g DEF ActivityRows, CrmInv
  <2>2. CASE t.lead = l
    <3> DEFINE u == Cr!Moved(t, c, p, d)
    <3>1. activity'[a].targets = u
      BY <2>2, <1>g
    <3>2. u.lead = l /\ u.company # Nothing /\ (p # Nothing => u.contact # Nothing) /\ (d # Nothing => u.deal # Nothing)
      BY <2>1, <2>2, <1>f
    <3>3. lead'[l] = became
      BY <1>a, <1>b
    <3>4. u # Cr!NoActivity.targets
      BY <3>2 DEF Cr!NoActivity
    <3> HIDE DEF u
    <3> QED BY <3>1, <3>2, <3>3, <3>4, <1>e DEF ActivitySound, Follows
  <2>3. CASE t.lead # l
    <3>1. activity'[a] = activity[a] /\ (t.lead # Nothing => lead'[t.lead] = lead[t.lead])
      BY <2>1, <2>3, <1>a, <1>b, <1>g DEF Targets
    <3> QED BY <2>1, <3>1 DEF ActivitySound, Follows
  <2> QED BY <2>2, <2>3
<1> QED BY <1>1, <1>2, <1>3, <1>4, <1>5, <1>6, <1>b, <1>c, <1>d, CrmFrame

(* Activities: what one is resolved to keeps what it named, and names what *)
(* its lead became.                                                        *)
LEMMA Resolves ==
    ASSUME CrmInv, NEW t \in Targets, t # Cr!NoActivity.targets
    PROVE  LET w == Cr!ResolveTargets(t) IN
           /\ w \in Targets /\ w # Cr!NoActivity.targets /\ w.lead = t.lead
           /\ t.lead # Nothing /\ lead[t.lead].status = "converted" => Follows(w)
<1> USE NothingIsNoRow
<1>a. /\ deal \in [Deals -> DealRows] /\ lead \in [Leads -> LeadRows] /\ contact \in [Contacts -> ContactRows]
  BY DEF CrmInv, CrmShape
<1> DEFINE Adds(x, y) ==
              /\ y \in Targets /\ y.lead = x.lead
              /\ x.deal # Nothing => y.deal # Nothing
              /\ x.contact # Nothing => y.contact # Nothing
              /\ x.company # Nothing => y.company # Nothing
           u == Cr!FromLead(t)
           v == Cr!FromDeal(u)
           w == Cr!FromContact(v)
<1>1. Adds(t, u)
  <2>1. CASE t.lead = Nothing
    BY <2>1 DEF Cr!FromLead
  <2>2. CASE t.lead # Nothing
    <3>1. t.lead \in Leads /\ lead[t.lead] \in LeadRows
      BY <2>2, <1>a DEF Targets
    <3> QED BY <2>2, <3>1 DEF Cr!FromLead, Cr!Or, Targets, LeadRows
  <2> QED BY <2>1, <2>2
<1>2. ASSUME t.lead # Nothing, lead[t.lead].status = "converted" PROVE Follows(u)
  <2>1. t.lead \in Leads /\ lead[t.lead] \in LeadRows /\ LeadSound(t.lead)
    BY <1>2, <1>a DEF Targets, CrmInv
  <2>2. lead[t.lead].company # Nothing
    BY <1>2, <2>1 DEF LeadSound
  <2>3. u = [t EXCEPT !.company = Cr!Or(t.company, lead[t.lead].company),
                      !.contact = Cr!Or(t.contact, lead[t.lead].contact), !.deal = Cr!Or(t.deal, lead[t.lead].deal)]
    BY <1>2 DEF Cr!FromLead
  <2> QED BY <2>2, <2>3, <1>1 DEF Follows, Cr!Or, Targets
<1> HIDE DEF u
<1>3. Adds(u, v)
  <2>1. CASE u.deal = Nothing
    BY <2>1, <1>1 DEF Cr!FromDeal
  <2>2. CASE u.deal # Nothing
    <3>1. u.deal \in Deals /\ deal[u.deal] \in DealRows
      BY <2>2, <1>1, <1>a DEF Targets
    <3> QED BY <2>2, <3>1, <1>1 DEF Cr!FromDeal, Cr!Or, Targets, DealRows
  <2> QED BY <2>1, <2>2
<1> HIDE DEF v
<1>4. Adds(v, w)
  <2>1. CASE v.contact = Nothing
    BY <2>1, <1>3 DEF Cr!FromContact
  <2>2. CASE v.contact # Nothing
    <3>1. v.contact \in Contacts /\ contact[v.contact] \in ContactRows
      BY <2>2, <1>3, <1>a DEF Targets
    <3> QED BY <2>2, <3>1, <1>3 DEF Cr!FromContact, Cr!Or, Targets, ContactRows
  <2> QED BY <2>1, <2>2
<1> HIDE DEF w
<1>5. w = Cr!ResolveTargets(t)
  BY DEF u, v, w, Cr!ResolveTargets
<1>6. w # Cr!NoActivity.targets
  <2>1. t.lead # Nothing \/ t.deal # Nothing \/ t.contact # Nothing \/ t.company # Nothing
    <3> SUFFICES ASSUME t.lead = Nothing, t.deal = Nothing, t.contact = Nothing, t.company = Nothing PROVE FALSE
      OBVIOUS
    <3>1. t = [lead |-> Nothing, deal |-> Nothing, contact |-> Nothing, company |-> Nothing]
      BY DEF Targets
    <3> QED BY <3>1 DEF Cr!NoActivity
  <2>2. w.lead # Nothing \/ w.deal # Nothing \/ w.contact # Nothing \/ w.company # Nothing
    BY <2>1, <1>1, <1>3, <1>4
  <2> QED BY <2>2 DEF Cr!NoActivity
<1>7. ASSUME t.lead # Nothing, lead[t.lead].status = "converted" PROVE Follows(w)
  BY <1>1, <1>2, <1>3, <1>4, <1>7 DEF Follows
<1> QED BY <1>1, <1>3, <1>4, <1>5, <1>6, <1>7

(* A request begins, ends or gives up.                                     *)
LEMMA CallsKeep ==
    ASSUME CrmInv, NEW r \in Callers, NEW q \in Calls, CallSound(q), call' = [call EXCEPT ![r] = q],
           UNCHANGED <<company, contact, deal, lead, activity, excused>>
    PROVE  CrmInv'
<1>1. CrmShape' /\ call \in [Callers -> Calls]
  BY DEF CrmInv, CrmShape
<1>2. Persists
  BY DEF Persists, Cr!StoredC, Cr!StoredD
<1>3. CallSound(q)'
  BY <1>2, CallPersists
<1>4. ASSUME NEW s \in Callers PROVE call'[s] = call[s] \/ CallSound(call[s])'
  <2>1. CASE s = r
    <3>1. call'[s] = q
      BY <2>1, <1>1
    <3> QED BY <3>1, <1>3 DEF CallSound, Follows
  <2>2. CASE s # r
    BY <2>2, <1>1
  <2> QED BY <2>1, <2>2
<1> QED BY <1>1, <1>2, <1>4, SameCompanies, SameContacts, SameLeads, SameHistory, SameDeals, CrmFrame
        DEF DealSound, Cr!StoredD

LEMMA RequestsKeep ==
    ASSUME CrmInv, NEW r \in Callers
    PROVE  /\ \A c \in Companies, p \in Contacts \cup {Nothing} : Cr!DealCreate(r, c, p) => CrmInv'
           /\ \A d \in Deals : Cr!DealRestore(r, d) => CrmInv'
           /\ \A t \in Targets : Cr!ActivityCreate(r, t) => CrmInv'
           /\ Cr!RollBack(r) => CrmInv'
<1>a. Cr!NoActivity.targets \in Targets
  BY DEF Cr!NoActivity, Targets
<1>1. ASSUME NEW c \in Companies, NEW p \in Contacts \cup {Nothing}, Cr!DealCreate(r, c, p) PROVE CrmInv'
  <2> DEFINE t == [Cr!NoActivity.targets EXCEPT !.company = c, !.contact = p]
             q == [op |-> "deal.create", row |-> Nothing, targets |-> t, early |-> FALSE]
  <2>1. t \in Targets /\ t.company = c
    BY DEF Cr!NoActivity, Targets
  <2>2. Cr!StoredC(c) /\ call' = [call EXCEPT ![r] = q] /\ UNCHANGED <<company, contact, deal, lead, activity, excused>>
    BY <1>1 DEF Cr!DealCreate, Cr!Begin, Cr!records, Cr!Usable
  <2> HIDE DEF t
  <2>3. q \in Calls /\ q.op = "deal.create" /\ q.targets = t
    BY <2>1 DEF Calls
  <2> HIDE DEF q
  <2>4. CallSound(q)
    BY <2>1, <2>2, <2>3 DEF CallSound
  <2> QED BY <2>2, <2>3, <2>4, CallsKeep
<1>2. ASSUME NEW d \in Deals, Cr!DealRestore(r, d) PROVE CrmInv'
  <2> DEFINE q == [op |-> "deal.restore", row |-> d, targets |-> Cr!NoActivity.targets, early |-> FALSE]
  <2>1. Cr!StoredD(d) /\ call' = [call EXCEPT ![r] = q] /\ UNCHANGED <<company, contact, deal, lead, activity, excused>>
    BY <1>2 DEF Cr!DealRestore, Cr!Begin, Cr!records
  <2>2. q \in Calls /\ CallSound(q)
    BY <1>a, <2>1 DEF Calls, CallSound
  <2> HIDE DEF q
  <2> QED BY <2>1, <2>2, CallsKeep
<1>3. ASSUME NEW t \in Targets, Cr!ActivityCreate(r, t) PROVE CrmInv'
  <2> DEFINE w == Cr!ResolveTargets(t)
             early == t.lead # Nothing /\ lead[t.lead].status # "converted"
             q == [op |-> "activity.create", row |-> Nothing, targets |-> w, early |-> early]
  <2>1. t # Cr!NoActivity.targets /\ call' = [call EXCEPT ![r] = q]
        /\ UNCHANGED <<company, contact, deal, lead, activity, excused>>
    BY <1>3 DEF Cr!ActivityCreate, Cr!Begin, Cr!records
  <2>2. /\ w \in Targets /\ w # Cr!NoActivity.targets /\ w.lead = t.lead
        /\ t.lead # Nothing /\ lead[t.lead].status = "converted" => Follows(w)
    BY <2>1, Resolves
  <2> HIDE DEF w
  <2>3. q \in Calls /\ q.op = "activity.create" /\ q.targets = w /\ q.early = early
    BY <2>2 DEF Calls
  <2> HIDE DEF q
  <2>4. CallSound(q)
    BY <2>2, <2>3 DEF CallSound
  <2> QED BY <2>1, <2>3, <2>4, CallsKeep
<1>4. ASSUME Cr!RollBack(r) PROVE CrmInv'
  <2>1. call' = [call EXCEPT ![r] = Cr!Idle] /\ UNCHANGED <<company, contact, deal, lead, activity, excused>>
    BY <1>4 DEF Cr!RollBack, Cr!records
  <2>2. Cr!Idle \in Calls /\ CallSound(Cr!Idle)
    BY BlankRecords DEF CallSound, Cr!Idle
  <2> QED BY <2>1, <2>2, CallsKeep
<1> QED BY <1>1, <1>2, <1>3, <1>4

LEMMA ActivityKeeps ==
    ASSUME CrmInv, NEW a \in Activities, NEW x \in ActivityRows,
           x.stored => x.targets # Cr!NoActivity.targets,
           x.targets.lead # Nothing /\ lead[x.targets.lead].status = "converted" /\ ~x.missed => Follows(x.targets),
           activity' = [activity EXCEPT ![a] = x], UNCHANGED <<company, contact, deal, lead, excused>>,
           call' \in [Callers -> Calls], \A r \in Callers : call'[r] \in {call[r], Cr!Idle}
    PROVE  CrmInv'
<1>1. CrmShape' /\ activity \in [Activities -> ActivityRows]
  BY DEF CrmInv, CrmShape
<1>2. Persists
  BY DEF Persists, Cr!StoredC, Cr!StoredD
<1>3. ASSUME NEW b \in Activities PROVE ActivitySound(b)'
  <2>1. CASE b = a
    <3>1. activity'[b] = x
      BY <2>1, <1>1
    <3> QED BY <3>1 DEF ActivitySound, Follows
  <2>2. CASE b # a
    <3>1. activity'[b] = activity[b] /\ ActivitySound(b)
      BY <2>2, <1>1 DEF CrmInv
    <3> QED BY <3>1 DEF ActivitySound, Follows
  <2> QED BY <2>1, <2>2
<1>4. \A r \in Callers : call'[r] = call[r] \/ CallSound(call[r])'
  BY DEF CallSound, Cr!Idle
<1> QED BY <1>1, <1>2, <1>3, <1>4, SameCompanies, SameContacts, SameLeads, SameDeals, CrmFrame DEF DealSound, Cr!StoredD

LEMMA ActivitiesKeep ==
    ASSUME CrmInv, NEW a \in Activities
    PROVE  /\ Cr!ActivityDelete(a) => CrmInv'
           /\ \A r \in Callers : Cr!InsertActivity(r, a) => CrmInv'
<1>a. call \in [Callers -> Calls]
  BY DEF CrmInv, CrmShape
<1>1. ASSUME Cr!ActivityDelete(a) PROVE CrmInv'
  <2>1. activity' = [activity EXCEPT ![a] = Cr!NoActivity] /\ UNCHANGED <<company, contact, deal, lead, call, excused>>
    BY <1>1 DEF Cr!ActivityDelete, Cr!records
  <2>2. Cr!NoActivity \in ActivityRows /\ ~Cr!NoActivity.stored /\ Cr!NoActivity.targets.lead = Nothing
    BY BlankRecords DEF Cr!NoActivity
  <2> QED BY <2>1, <2>2, <1>a, ActivityKeeps
<1>2. ASSUME NEW r \in Callers, Cr!InsertActivity(r, a) PROVE CrmInv'
  <2> DEFINE t == call[r].targets
             missed == call[r].early /\ lead[t.lead].status = "converted"
             x == [stored |-> TRUE, targets |-> t, missed |-> missed]
  <2>1. /\ activity' = [activity EXCEPT ![a] = x] /\ UNCHANGED <<company, contact, deal, lead, excused>>
        /\ call' = [call EXCEPT ![r] = Cr!Idle] /\ call[r].op = "activity.create"
    BY <1>2 DEF Cr!InsertActivity, Cr!records
  <2>2. /\ t \in Targets /\ t # Cr!NoActivity.targets /\ call[r].early \in BOOLEAN
        /\ t.lead # Nothing /\ ~call[r].early => lead[t.lead].status = "converted" /\ Follows(t)
    BY <2>1, <1>a DEF CrmInv, CallSound, Calls
  <2> HIDE DEF t
  <2>3. x \in ActivityRows /\ x.targets = t /\ x.missed = missed
    BY <2>2 DEF ActivityRows
  <2>4. t.lead # Nothing /\ lead[t.lead].status = "converted" /\ ~missed => Follows(t)
    BY <2>2
  <2> HIDE DEF x, missed
  <2> QED BY <2>1, <2>2, <2>3, <2>4, IdleCall, ActivityKeeps
<1> QED BY <1>1, <1>2

(* Every step keeps what is said of the records.                           *)
LEMMA CrmNextKeeps == CrmInv /\ (Cr!Next \/ UNCHANGED crmVars) => CrmInv'
<1>1. ASSUME CrmInv, UNCHANGED crmVars PROVE CrmInv'
  BY <1>1, CallsKeep DEF crmVars, CrmInv, CrmShape, OneAddress, CompanySound, LeadSound, DealSound, ActivitySound,
     CallSound, Follows, Cr!ArchivedIdle, Cr!Open, Cr!Reachable, Cr!StoredC, Cr!StoredD
<1>2. ASSUME CrmInv, Cr!Next PROVE CrmInv'
  <2>1. ASSUME NEW c \in Companies,
               \/ \E stage \in Cr!Stages : Cr!CompanyCreate(c, stage) \/ Cr!CompanyUpdate(c, stage)
               \/ Cr!CompanyArchive(c) \/ Cr!CompanyRestore(c)
        PROVE CrmInv'
    BY Zenon, <1>2, <2>1, CompaniesKeep
  <2>2. ASSUME NEW p \in Contacts,
               \/ \E c \in Companies \cup {Nothing}, mail \in BOOLEAN :
                     Cr!ContactCreate(p, c, mail) \/ Cr!ContactUpdate(p, c, mail)
               \/ Cr!ContactArchive(p) \/ Cr!ContactRestore(p)
        PROVE CrmInv'
    BY Zenon, <1>2, <2>2, ContactsKeep
  <2>3. ASSUME NEW d \in Deals,
               \/ \E p \in Contacts \cup {Nothing} : Cr!DealUpdate(d, p)
               \/ \E stage \in {"open", "won", "lost"} : Cr!DealChangeStage(d, stage)
               \/ Cr!DealArchive(d)
        PROVE CrmInv'
    BY Zenon, <1>2, <2>3, DealsKeep
  <2>4. ASSUME NEW l \in Leads,
               \/ Cr!LeadCreate(l) \/ Cr!LeadArchive(l) \/ Cr!LeadRestore(l)
               \/ \E status \in {"new", "disqualified"} : Cr!LeadChangeStatus(l, status)
               \/ \E c \in Companies, how \in {"none", "given", "matched", "created"},
                     p \in Contacts \cup {Nothing}, d \in Deals \cup {Nothing} : Cr!LeadConvert(l, c, how, p, d)
        PROVE CrmInv'
    BY Zenon, <1>2, <2>4, LeadsKeep, ConvertKeeps
  <2>5. ASSUME NEW a \in Activities, Cr!ActivityDelete(a) PROVE CrmInv'
    BY Zenon, <1>2, <2>5, ActivitiesKeep
  <2>6. ASSUME NEW r \in Callers,
               \/ \E c \in Companies, p \in Contacts \cup {Nothing} : Cr!DealCreate(r, c, p)
               \/ \E d \in Deals : Cr!InsertDeal(r, d) \/ Cr!DealRestore(r, d)
               \/ \E t \in [lead : Leads \cup {Nothing}, deal : Deals \cup {Nothing},
                            contact : Contacts \cup {Nothing}, company : Companies \cup {Nothing}] :
                     Cr!ActivityCreate(r, t)
               \/ \E a \in Activities : Cr!InsertActivity(r, a)
               \/ Cr!Restored(r) \/ Cr!RollBack(r)
        PROVE CrmInv'
    BY Zenon, <1>2, <2>6, RequestsKeep, DealsKeep, ActivitiesKeep, RestoredKeeps DEF Targets
  <2> QED BY Zenon, <1>2, <2>1, <2>2, <2>3, <2>4, <2>5, <2>6 DEF Cr!Next
<1> QED BY <1>1, <1>2

\* What is kept of clients is in order, for any number of tickets, plans, companies,
\* contacts, leads, deals, activities and requests: a ticket is stamped as its
\* status says (ticketChangeStatus, ticketReply), what was logged with a lead
\* follows it (leadConvert, resolveTargets), and an archived company has no open
\* deal but for those reopened or written meanwhile (companyArchive).
THEOREM RecordsAlwaysKept == OfficeSpec => []RecordsKept
<1> DEFINE P == part = "tickets" => TicketInv
           Q == part = "crm" => CrmInv
<1>1. OfficeInit => P /\ Q
  BY OfficeTickets, CrmInit DEF OfficeInit
<1>2. P /\ Q /\ [OfficeNext]_officeVars => P' /\ Q'
  <2> SUFFICES ASSUME P, Q, [OfficeNext]_officeVars PROVE P' /\ Q'
    OBVIOUS
  <2>1. P'
    BY OfficeTickets
  <2>2. ASSUME part' = "crm" PROVE CrmInv'
    <3>1. part = "crm" /\ (Cr!Next \/ UNCHANGED crmVars)
      BY Zenon, <2>2 DEF OfficeNext, TicketsNext, CrmNext, officeVars
    <3> QED BY <3>1, CrmNextKeeps
  <2> QED BY <2>1, <2>2
<1>3. P /\ Q => RecordsKept
  BY TicketsTyped, CrmKept DEF RecordsKept
<1> QED BY <1>1, <1>2, <1>3, PTL DEF OfficeSpec
=============================================================================
