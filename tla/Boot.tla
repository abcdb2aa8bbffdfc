-------------------------------- MODULE Boot --------------------------------
(***************************************************************************)
(* How the processes of an installation come up: a web server applies the  *)
(* migrations of its release under an advisory lock (migrate.ts), then     *)
(* refuses to serve unless every table is protected (isolation.ts,         *)
(* instrumentation.ts); a worker only checks (worker/main.ts).  Releases   *)
(* overlap: a new one starts while the old one serves.                     *)
(*                                                                         *)
(* The lock belongs to the one connection a process uses while it starts,  *)
(* and is gone with it.  drizzle's migrator reads the last migration       *)
(* applied, and then applies what comes after it in one transaction.       *)
(*                                                                         *)
(* Data: migrations are numbers.  One that creates a table is followed by  *)
(* the one that protects it, in the same release; the others change data,  *)
(* and nothing stops them from being applied again.                        *)
(***************************************************************************)
EXTENDS Integers, FiniteSets

CONSTANTS
    Processes, Workers,     \* Workers \subseteq Processes
    Releases,               \* releases, by the number of migrations they carry
    Creates,                \* the migrations that create a table
    MaxCrashes,             \* bound on processes that die, or are deployed anew
    None

VARIABLES
    applied,        \* __drizzle_migrations: how often each was applied
    lock,           \* pg_advisory_lock(MIGRATION_LOCK_ID)
    process,
    crashes

vars == <<applied, lock, process, crashes>>

Migrations == UNION {1..n : n \in Releases}
Done       == {m \in Migrations : applied[m] > 0}
LastDone   == IF Done = {} THEN 0 ELSE CHOOSE m \in Done : \A k \in Done : k <= m

Down == [step |-> "down", release |-> None, last |-> 0]

Init ==
    /\ applied = [m \in Migrations |-> 0]
    /\ lock = None
    /\ process = [p \in Processes |-> Down]
    /\ crashes = 0

\* mutation: a process that died keeps the lock it had
KeepsLock(p) == lock

\* The session of a process ends with it, and with it the lock.
Released(p) == IF lock = p THEN None ELSE lock

Start(p, n) ==
    /\ process[p] = Down
    /\ process' = [process EXCEPT ![p] = [step |-> IF p \in Workers THEN "check" ELSE "start", release |-> n, last |-> 0]]
    /\ UNCHANGED <<applied, lock, crashes>>

\* mutation: nobody waits for the lock
LockIgnored == TRUE

LockFree == lock = None

Lock(p) ==
    /\ process[p].step = "start" /\ LockFree
    /\ lock' = p
    /\ process' = [process EXCEPT ![p].step = "locked"]
    /\ UNCHANGED <<applied, crashes>>

ReadLast(p) ==
    /\ process[p].step = "locked"
    /\ process' = [process EXCEPT ![p].step = "read", ![p].last = LastDone]
    /\ UNCHANGED <<applied, lock, crashes>>

\* mutation: the next one only
NextOnly(q) == {m \in {q.last + 1} : m <= q.release}

Pending(q) == (q.last + 1)..q.release

\* One transaction; a table that is there already makes it fail, and the process
\* lets go of the lock and ends.
Migrate(p) ==
    LET todo == Pending(process[p]) IN
    /\ process[p].step = "read"
    /\ IF todo \cap Creates \cap Done # {}
       THEN /\ process' = [process EXCEPT ![p].step = "failed"]
            /\ UNCHANGED applied
       ELSE /\ applied' = [m \in Migrations |-> IF m \in todo THEN applied[m] + 1 ELSE applied[m]]
            /\ process' = [process EXCEPT ![p].step = "migrated"]
    /\ UNCHANGED <<lock, crashes>>

Unlock(p) ==
    /\ process[p].step \in {"migrated", "failed"}
    /\ lock' = Released(p)
    /\ process' = IF process[p].step = "failed" THEN [process EXCEPT ![p] = Down]
                                               ELSE [process EXCEPT ![p].step = "check"]
    /\ UNCHANGED <<applied, crashes>>

\* findIsolationViolations: tables without a policy, as far as they are committed.
Unprotected == {m \in Creates \cap Done : m + 1 \notin Done}

\* mutation: whoever has migrated serves
NeverChecked == TRUE

Intact == Unprotected = {}

Check(p) ==
    /\ process[p].step = "check"
    /\ process' = IF Intact THEN [process EXCEPT ![p].step = "serving"] ELSE [process EXCEPT ![p] = Down]
    /\ UNCHANGED <<applied, lock, crashes>>

Crash(p) ==
    /\ crashes < MaxCrashes /\ process[p] # Down
    /\ process' = [process EXCEPT ![p] = Down]
    /\ lock' = Released(p)
    /\ crashes' = crashes + 1
    /\ UNCHANGED applied

Progress(p) == (\E n \in Releases : Start(p, n)) \/ Lock(p) \/ ReadLast(p) \/ Migrate(p) \/ Unlock(p) \/ Check(p)

Next == \E p \in Processes : Progress(p) \/ Crash(p)

Spec == Init /\ [][Next]_vars

\* Processes that are started go on, and are started again when they end.
FairSpec == Spec /\ \A p \in Processes : WF_vars(Progress(p)) /\ SF_vars(Lock(p))

-----------------------------------------------------------------------------
TypeOK ==
    /\ applied \in [Migrations -> 0..Cardinality(Processes) + MaxCrashes]
    /\ lock \in (Processes \ Workers) \cup {None}
    /\ process \in [Processes -> [step : {"down", "start", "locked", "read", "migrated", "failed", "check", "serving"},
                                  release : Releases \cup {None}, last : Nat]]

\* However many servers start at once, of whatever releases, and wherever they
\* die, no migration is applied twice or out of turn.
MigratedOnce ==
    /\ \A m \in Migrations : applied[m] <= 1
    /\ \A m \in Done : \A k \in Migrations : k < m => k \in Done

\* A server that serves has the schema of its release; and while anything
\* serves, every table is protected, also when a newer release migrates beside it.
ServesProtected ==
    /\ \A p \in Processes \ Workers : process[p].step = "serving" => 1..process[p].release \subseteq Done
    /\ (\E p \in Processes : process[p].step = "serving") => Unprotected = {}

\* Every process comes to serve, once none dies any more.
EventuallyServing == <>[](\A p \in Processes : process[p].step = "serving")
=============================================================================
