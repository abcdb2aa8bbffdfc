------------------------------ MODULE Requests ------------------------------
(***************************************************************************)
(* How a request runs (registry/execute.ts): one transaction in which the  *)
(* Idempotency-Key is claimed, the handler works and the answer is stored, *)
(* then the hooks that tidy stored files after a commit or a rollback.     *)
(* Files are put before the commit and removed after it, so what a row     *)
(* names and what is stored change at different times, in requests that    *)
(* may die in between, or whose commit is not heard of.                    *)
(*                                                                         *)
(* Data: one organization and one actor.  The handlers are those that keep *)
(* files: of documents, of attachments of a task, of receipts of an        *)
(* expense, and the logo.  A request runs once; a client repeats by sending*)
(* another with the same key.  The file a request stores, the row that     *)
(* names it and the answer it gives are known by the request.              *)
(***************************************************************************)
EXTENDS Integers, FiniteSets

CONSTANTS
    Requests,
    Keys,           \* Idempotency-Keys clients use
    MaxPrunes,      \* bound on keys forgotten after a day
    MaxFaults,      \* bound on crashes and on commits not heard of
    None

VARIABLES
    request,        \* what each request is doing
    keyRow,         \* idempotency_keys, as committed
    holder,         \* the rows that name files: what each belongs to
    logo,           \* organization.logo_key
    gone,           \* of the task and the expense, those deleted
    stored,         \* the files in storage
    did,            \* history: what was committed under a key since it was last forgotten
    unheard,        \* history: requests whose commit went unheard
    prunes, faults

database == <<keyRow, holder, logo, gone>>
vars     == <<request, keyRow, holder, logo, gone, stored, did, unheard, prunes, faults>>

Parents == {"task", "expense"}
Asks ==
    {[op |-> o, of |-> None] : o \in {"upload document", "attach", "add receipt", "delete task",
                                      "delete expense", "upload logo", "remove logo"}}
    \cup {[op |-> "delete file", of |-> q] : q \in Requests}

Unsent    == [step |-> "unsent", key |-> None, ask |-> None, drop |-> {}, answer |-> None]
Forgotten == [ask |-> None, answer |-> None]

Init ==
    /\ request = [r \in Requests |-> Unsent]
    /\ keyRow = [k \in Keys |-> Forgotten]
    /\ holder = [r \in Requests |-> None]
    /\ logo = None
    /\ gone = {}
    /\ stored = {}
    /\ did = [k \in Keys |-> {}]
    /\ unheard = {} /\ prunes = 0 /\ faults = 0

-----------------------------------------------------------------------------
At(r, s)     == request[r].step = s
To(r, s)     == [request EXCEPT ![r].step = s]
InFlight     == {"claiming", "replaying", "handling", "writing", "committed", "aborted"}
\* Whose transaction holds a key it has inserted.
Holding(k)   == {r \in Requests : request[r].key = k /\ request[r].step \in {"handling", "writing"}}
Faulty       == faults < MaxFaults /\ faults' = faults + 1

-----------------------------------------------------------------------------
\* executeProcedure begins.
ExecuteProcedure(r, k, a) ==
    /\ At(r, "unsent")
    /\ request' = [request EXCEPT ![r] = [Unsent EXCEPT !.step = "claiming", !.key = k, !.ask = a]]
    /\ UNCHANGED <<database, stored, did, unheard, prunes, faults>>

\* mutation: a repeat does not wait for the copy that is running
ClaimableAtOnce(k) == TRUE

\* The insert waits for a transaction that has inserted the same key.
Claimable(k) == Holding(k) = {}

\* insert into idempotency_keys ... on conflict do nothing
Claim(r) ==
    /\ At(r, "claiming")
    /\ request[r].key # None => Claimable(request[r].key)
    /\ request' = To(r, IF request[r].key # None /\ keyRow[request[r].key] # Forgotten
                        THEN "replaying" ELSE "handling")
    /\ UNCHANGED <<database, stored, did, unheard, prunes, faults>>

\* The row met is read: it may have been forgotten since, and it may be about
\* something else.
Replay(r) ==
    LET row == keyRow[request[r].key] IN
    /\ At(r, "replaying")
    /\ IF row = Forgotten \/ row.ask # request[r].ask
       THEN request' = To(r, "aborted")
       ELSE request' = [request EXCEPT ![r].step = "answered", ![r].answer = row.answer]
    /\ UNCHANGED <<database, stored, did, unheard, prunes, faults>>

-----------------------------------------------------------------------------
\* The handlers, up to where they write.

\* The expense is not locked by a request that deletes it.
ExpenseFree == \A q \in Requests : At(q, "writing") => request[q].ask.op # "delete expense"
Files(p)    == {q \in Requests : holder[q] = p}

\* put, and afterRollback(delete)
Put(r) == stored' = stored \cup {r} /\ request' = To(r, "writing")

DocumentUpload(r)   == request[r].ask.op = "upload document" /\ Put(r)
AttachmentUpload(r) == request[r].ask.op = "attach" /\ "task" \notin gone /\ Put(r)
StoreReceipt(r)     == request[r].ask.op = "add receipt" /\ "expense" \notin gone /\ Put(r)

\* A handler that will remove files when it has committed.
Drops(r, files) == request' = [request EXCEPT ![r].step = "writing", ![r].drop = files] /\ UNCHANGED stored

DocumentDelete(r) == request[r].ask.op = "delete file" /\ holder[request[r].ask.of] # None /\ Drops(r, {request[r].ask.of})
\* The files are listed without locking the task.
TaskDelete(r)     == request[r].ask.op = "delete task" /\ "task" \notin gone /\ Drops(r, Files("task"))

\* mutation: the expense is not locked before its receipts are listed
ListedUnlocked(r) == request[r].ask.op = "delete expense" /\ Drops(r, {})

\* loadChangeableExpense locks the expense, against receipts being added too.
ExpenseDelete(r)  == request[r].ask.op = "delete expense" /\ "expense" \notin gone /\ ExpenseFree /\ Drops(r, Files("expense"))

OldLogo == IF logo = None THEN {} ELSE {logo}
OrganizationUploadLogo(r) ==
    /\ request[r].ask.op = "upload logo"
    /\ stored' = stored \cup {r}
    /\ request' = [request EXCEPT ![r].step = "writing", ![r].drop = OldLogo]
OrganizationRemoveLogo(r) ==
    /\ request[r].ask.op = "remove logo" /\ logo # None
    /\ Drops(r, OldLogo)

Handle(r) ==
    /\ At(r, "handling")
    /\ \/ DocumentUpload(r) \/ AttachmentUpload(r) \/ StoreReceipt(r)
       \/ DocumentDelete(r) \/ TaskDelete(r) \/ ExpenseDelete(r)
       \/ OrganizationUploadLogo(r) \/ OrganizationRemoveLogo(r)
    /\ UNCHANGED <<database, did, unheard, prunes, faults>>

-----------------------------------------------------------------------------
\* The transaction ends.

\* Its rows: the new one belongs to something that exists and is not being
\* deleted; what belongs to something deleted goes with it.
Written(r) ==
    LET op    == request[r].ask.op
        of    == CASE op = "upload document" -> "client" [] op = "attach" -> "task"
                   [] op = "add receipt" -> "expense" [] OTHER -> None
        ended == CASE op = "delete task" -> {"task"} [] op = "delete expense" -> {"expense"} [] OTHER -> {}
    IN
    /\ of \notin gone /\ (of = "expense" => ExpenseFree)
    /\ gone' = gone \cup ended
    /\ holder' = [q \in Requests |->
           IF q = r THEN of
           ELSE IF holder[q] \in ended \/ (op = "delete file" /\ q = request[r].ask.of) THEN None
           ELSE holder[q]]
    /\ logo' = CASE op = "upload logo" -> r [] op = "remove logo" -> None [] OTHER -> logo

\* mutation: the placeholder stays, and is replayed
Placeholder(r) == [ask |-> request[r].ask, answer |-> None]

\* What is stored with the key: the request's hash and its answer.
KeyStored(r) == [ask |-> request[r].ask, answer |-> r]

RunInTransaction(r) ==
    LET k == request[r].key IN
    /\ At(r, "writing")
    /\ Written(r)
    /\ keyRow' = [j \in Keys |-> IF j = k THEN KeyStored(r) ELSE keyRow[j]]
    /\ did' = [j \in Keys |-> IF j = k THEN did[j] \cup {r} ELSE did[j]]
    /\ UNCHANGED <<stored, prunes>>

Commit(r) ==
    /\ RunInTransaction(r)
    /\ request' = To(r, "committed")
    /\ UNCHANGED <<unheard, faults>>

\* The connection is lost on the way back: it reads as a failure.
CommitUnheard(r) ==
    /\ Faulty /\ RunInTransaction(r)
    /\ request' = To(r, "aborted")
    /\ unheard' = unheard \cup {r}

\* The handler refuses, or the database does: the key was never recorded.
RollBack(r) ==
    /\ request[r].step \in {"claiming", "handling", "writing"}
    /\ request' = To(r, "aborted")
    /\ UNCHANGED <<database, stored, did, unheard, prunes, faults>>

\* A deadline, a deploy, a machine gone: no hook runs.
Crash(r) ==
    /\ Faulty /\ request[r].step \in InFlight
    /\ request' = To(r, "lost")
    /\ UNCHANGED <<database, stored, did, unheard, prunes>>

\* mutation: the old file is removed whatever comes of the transaction
DropsAnyway(r) == IF At(r, "committed") THEN request[r].drop ELSE request[r].drop \cup {r}

\* What afterCommit and afterRollback remove.
Removed(r) == IF At(r, "committed") THEN request[r].drop ELSE {r}

\* runHooks.  A hook that fails is logged: its files stay.
RunHooks(r) ==
    /\ request[r].step \in {"committed", "aborted"}
    /\ stored' = stored \ Removed(r)
    /\ request' = [request EXCEPT ![r].step = IF @ = "committed" THEN "answered" ELSE "failed",
                                  ![r].answer = IF At(r, "committed") THEN r ELSE None]
    /\ UNCHANGED <<database, did, unheard, prunes, faults>>

\* runMaintenance: a key is honoured for a day.
Prune(k) ==
    /\ prunes < MaxPrunes /\ prunes' = prunes + 1
    /\ keyRow[k] # Forgotten
    /\ keyRow' = [keyRow EXCEPT ![k] = Forgotten]
    /\ did' = [did EXCEPT ![k] = {}]
    /\ UNCHANGED <<request, holder, logo, gone, stored, unheard, faults>>

-----------------------------------------------------------------------------
Next ==
    \/ \E r \in Requests, k \in Keys \cup {None}, a \in Asks : ExecuteProcedure(r, k, a)
    \/ \E r \in Requests :
          \/ Claim(r) \/ Replay(r) \/ Handle(r) \/ Commit(r) \/ CommitUnheard(r)
          \/ RollBack(r) \/ RunHooks(r) \/ Crash(r)
    \/ \E k \in Keys : Prune(k)

Spec == Init /\ [][Next]_vars

-----------------------------------------------------------------------------
RequestRows ==
    [step : {"unsent", "answered", "failed", "lost"} \cup InFlight, key : Keys \cup {None},
     ask : Asks \cup {None}, drop : SUBSET Requests, answer : Requests \cup {None}]

\* Rows keep their types; a key is recorded with what was asked under it and
\* committed, and a row that names a file belongs to something that exists.
TypeOK ==
    /\ DOMAIN request = Requests /\ \A r \in Requests : request[r] \in RequestRows
    /\ DOMAIN keyRow = Keys
    /\ \A k \in Keys : keyRow[k] # Forgotten => /\ keyRow[k].answer \in did[k]
                                                /\ keyRow[k].ask = request[keyRow[k].answer].ask
    /\ holder \in [Requests -> Parents \cup {"client", None}]
    /\ \A r \in Requests : holder[r] \notin gone
    /\ logo \in Requests \cup {None} /\ gone \subseteq Parents
    /\ stored \subseteq Requests /\ unheard \subseteq Requests

\* Under one key, something is done once, however often it is sent, at once or
\* after failures and crashes; and every request with the key is answered with
\* what was done then, for the same thing asked.
OncePerKey ==
    /\ \A k \in Keys : Cardinality(did[k]) <= 1
    /\ \A r \in Requests : At(r, "answered") =>
          LET by == request[r].answer IN
          /\ by # None
          /\ request[by].key = request[r].key /\ request[by].ask = request[r].ask
          /\ by # r => request[r].key # None

\* A file that a row names is there to be downloaded, unless the commit of the
\* request that stored it went unheard; and the file of a receipt goes with its
\* row, once the request that took the row away is done, unless that one died.
FilesFollowRows ==
    /\ \A r \in Requests : (holder[r] # None \/ logo = r) => r \in stored \cup unheard
    /\ \A r \in stored :
          request[r].ask.op = "add receipt" /\ holder[r] = None =>
             \E q \in Requests : \/ request[q].step \in InFlight \cup {"lost"} /\ (q = r \/ r \in request[q].drop)
                                 \/ q \in unheard
=============================================================================
