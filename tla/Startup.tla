------------------------------- MODULE Startup -------------------------------
(***************************************************************************)
(* How a process comes to its service: resolve_service and                 *)
(* _default_service (app/main.py) with SQLiteStore._initialize             *)
(* (app/store.py), which brings an older approvals table up to date.       *)
(*                                                                         *)
(* The service is made by the first request that finds none.  Requests run *)
(* in worker threads and nothing locks the check, so several may make it   *)
(* at once, each over a connection of its own.  The connection is in       *)
(* autocommit mode: every statement is a transaction, and a start that     *)
(* stops between two of them leaves what it did.                           *)
(***************************************************************************)
EXTENDS Integers

CONSTANTS
    Threads,
    Ids,         \* approval ids
    MaxFaults    \* bound: crashes and statements that raise

ASSUME StartupAssumption == MaxFaults \in Nat

VARIABLES
    table,      \* whether there is an approvals table
    columns,    \* those of its columns that not every version had
    deadline,   \* per approval: "absent" without a row, "null" without a value,
                \* "filled" by the migration, "own" if it was written with the row
    service,    \* whether the process has its service
    start,      \* per thread: what its request is at
    faults,     \* history: crashes and statements that raised
    cut         \* history: one of them came between the two statements that
                \* add expires_at and fill it

startupVars == <<table, columns, deadline, service, start, faults, cut>>

\* The columns _initialize looks for, in that order.
Order == [expires_at |-> 1, required_role |-> 2, case_fingerprint |-> 3]
Columns == DOMAIN Order

Waiting == [pc |-> "idle", seen |-> {}]

\* No table yet, or one that an earlier version wrote its approvals to.
StartupInit ==
    /\ \/ table = FALSE /\ columns = {} /\ deadline = [id \in Ids |-> "absent"]
       \/ /\ table = TRUE
          /\ columns \in {{c \in Columns : Order[c] <= n} : n \in 0..3}
          /\ deadline \in [Ids -> {"absent", IF "expires_at" \in columns THEN "own" ELSE "null"}]
    /\ service = FALSE
    /\ start = [t \in Threads |-> Waiting]
    /\ faults = 0
    /\ cut = FALSE

At(t, pc) == start[t].pc = pc
Starting(t) == start[t].pc \in {"create", "inspect", "migrate", "fill"}

\* resolve_service: a request is handled at once, or makes the service first.
Arrive(t) ==
    /\ At(t, "idle")
    /\ start' = [start EXCEPT ![t].pc = IF service THEN "serve" ELSE "create"]
    /\ UNCHANGED <<table, columns, deadline, service, faults, cut>>

\* CREATE TABLE IF NOT EXISTS
CreateTables(t) ==
    /\ At(t, "create")
    /\ table' = TRUE
    /\ columns' = IF table THEN columns ELSE Columns
    /\ start' = [start EXCEPT ![t].pc = "inspect"]
    /\ UNCHANGED <<deadline, service, faults, cut>>

\* Mutant: the columns are added without looking whether they are there.
InspectNothing(t) ==
    /\ At(t, "inspect")
    /\ start' = [start EXCEPT ![t].pc = "migrate"]
    /\ UNCHANGED <<table, columns, deadline, service, faults, cut>>

\* PRAGMA table_info, once for all columns.
Inspect(t) ==
    /\ At(t, "inspect")
    /\ start' = [start EXCEPT ![t].pc = "migrate", ![t].seen = columns]
    /\ UNCHANGED <<table, columns, deadline, service, faults, cut>>

\* The column whose turn it is: the first one the table had not.
Due(t, c) ==
    /\ c \in Columns \ start[t].seen
    /\ \A d \in Columns \ start[t].seen : Order[c] <= Order[d]

\* Mutant: expires_at is added like the other columns, and not filled.
AddColumnUnfilled(t, c) ==
    /\ At(t, "migrate") /\ Due(t, c)
    /\ c \notin columns
    /\ columns' = columns \cup {c}
    /\ start' = [start EXCEPT ![t].seen = @ \cup {c}]
    /\ UNCHANGED <<table, deadline, service, faults, cut>>

AddColumn(t, c) ==
    /\ At(t, "migrate") /\ Due(t, c)
    /\ c \notin columns
    /\ columns' = columns \cup {c}
    /\ start' = [start EXCEPT ![t].seen = @ \cup {c},
                              ![t].pc = IF c = "expires_at" THEN "fill" ELSE "migrate"]
    /\ UNCHANGED <<table, deadline, service, faults, cut>>

\* Another start has added it: "duplicate column name", answered with 500.
LoseRace(t, c) ==
    /\ At(t, "migrate") /\ Due(t, c)
    /\ c \in columns
    /\ start' = [start EXCEPT ![t] = Waiting]
    /\ UNCHANGED <<table, columns, deadline, service, faults, cut>>

\* Mutant: the UPDATE has no WHERE.
FillAll(t) ==
    /\ At(t, "fill")
    /\ deadline' = [id \in Ids |-> IF deadline[id] = "absent" THEN "absent" ELSE "filled"]
    /\ start' = [start EXCEPT ![t].pc = "migrate"]
    /\ UNCHANGED <<table, columns, service, faults, cut>>

\* UPDATE approvals SET expires_at = ? WHERE expires_at IS NULL
Fill(t) ==
    /\ At(t, "fill")
    /\ deadline' = [id \in Ids |-> IF deadline[id] = "null" THEN "filled" ELSE deadline[id]]
    /\ start' = [start EXCEPT ![t].pc = "migrate"]
    /\ UNCHANGED <<table, columns, service, faults, cut>>

\* Mutant: the service is published while its store is still brought up to
\* date.
PublishEarly(t) ==
    /\ At(t, "migrate")
    /\ service' = TRUE
    /\ start' = [start EXCEPT ![t].pc = "serve"]
    /\ UNCHANGED <<table, columns, deadline, faults, cut>>

\* app.state.service = ...
Publish(t) ==
    /\ At(t, "migrate")
    /\ Columns \subseteq start[t].seen
    /\ service' = TRUE
    /\ start' = [start EXCEPT ![t].pc = "serve"]
    /\ UNCHANGED <<table, columns, deadline, faults, cut>>

\* The handler: it reads the approval, with success if there is a deadline,
\* or it opens it.
Serve(t, id) ==
    /\ At(t, "serve")
    /\ deadline' = [deadline EXCEPT ![id] = IF @ = "absent" THEN "own" ELSE @]
    /\ start' = [start EXCEPT ![t] = Waiting]
    /\ UNCHANGED <<table, columns, service, faults, cut>>

\* A statement of a start raises: the lock was not free for 30 s, or the disk
\* is full.
Raise(t) ==
    /\ faults < MaxFaults
    /\ Starting(t)
    /\ faults' = faults + 1
    /\ cut' = (cut \/ At(t, "fill"))
    /\ start' = [start EXCEPT ![t] = Waiting]
    /\ UNCHANGED <<table, columns, deadline, service>>

\* The container is stopped or dies, and is started again.
Crash ==
    /\ faults < MaxFaults
    /\ faults' = faults + 1
    /\ cut' = (cut \/ \E t \in Threads : At(t, "fill"))
    /\ service' = FALSE
    /\ start' = [t \in Threads |-> Waiting]
    /\ UNCHANGED <<table, columns, deadline>>

StartStep(t) ==
    \/ CreateTables(t)
    \/ Inspect(t)
    \/ \E c \in Columns : AddColumn(t, c) \/ LoseRace(t, c)
    \/ Fill(t)
    \/ Publish(t)

StartupNext ==
    \/ \E t \in Threads :
          \/ Arrive(t)
          \/ StartStep(t)
          \/ \E id \in Ids : Serve(t, id)
          \/ Raise(t)
    \/ Crash

StartupSpec == StartupInit /\ [][StartupNext]_startupVars

\* Threads are scheduled; nothing makes users ask.
StartupFairSpec == StartupSpec /\ \A t \in Threads : WF_startupVars(StartStep(t))

-----------------------------------------------------------------------------
(* Properties                                                              *)

\* The types, and that whoever is served finds every column the code reads,
\* although the service he was given may be that of another start.
StartupTypeOK ==
    /\ table \in BOOLEAN
    /\ columns \in SUBSET Columns
    /\ deadline \in [Ids -> {"absent", "null", "filled", "own"}]
    /\ service \in BOOLEAN
    /\ start \in [Threads -> [pc : {"idle", "create", "inspect", "migrate", "fill", "serve"},
                              seen : SUBSET Columns]]
    /\ faults \in 0..MaxFaults
    /\ cut \in BOOLEAN
    /\ service \/ (\E t \in Threads : At(t, "serve")) => columns = Columns

\* Once the column is there, an approval without a deadline, which no call
\* can read, waits for the start that added the column to fill it, unless
\* that start was cut off between its two statements.
UnreadableOnlyIfCut ==
    "expires_at" \in columns /\ (\E id \in Ids : deadline[id] = "null") =>
        cut \/ \E t \in Threads : At(t, "fill")

\* No start, however late, moves a deadline that is set.
DeadlineStands ==
    [][\A id \in Ids : deadline[id] \in {"filled", "own"} => deadline'[id] = deadline[id]]_startupVars

\* Colliding starts fail, but not for ever: only finitely many requests have
\* to make the service, then one has succeeded and serves the others.
ServiceComes == <>[](\A t \in Threads : ~Starting(t))
=============================================================================
