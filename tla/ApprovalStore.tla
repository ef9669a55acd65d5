---------------------------- MODULE ApprovalStore ----------------------------
(***************************************************************************)
(* The approvals table of SQLiteStore (app/store.py).                      *)
(*                                                                         *)
(* Every HTTP request runs in a worker thread and opens a connection of    *)
(* its own.  A BEGIN IMMEDIATE transaction is one action; whatever the     *)
(* method does before the transaction (sampling the clock) or after it     *)
(* (auditing an expiry, reading the row again) is an action of its own, so *)
(* other threads and the clock run in between.                             *)
(***************************************************************************)
EXTENDS Integers, FiniteSets

CONSTANTS
    Threads,       \* worker threads of the application
    Ids,           \* approval ids uuid4 may draw
    None,          \* no id, no request, an empty case_fingerprint
    Requests,      \* purchase request ids
    Fingerprints,  \* case fingerprints
    TTL,           \* APPROVAL_TTL in clock units
    MaxClock,      \* bound: last instant the clock reaches
    Upgraded,      \* whether an earlier version left rows in the table
    DirectCreate,  \* whether create_approval (tests only) is called at all
    CanAbort       \* whether a call may die half-way (crash, locked database)

ASSUME NoneAssumption == None \notin Ids
ASSUME TimeAssumption == TTL \in Nat /\ MaxClock \in Nat
ASSUME SwitchAssumption ==
    Upgraded \in BOOLEAN /\ DirectCreate \in BOOLEAN /\ CanAbort \in BOOLEAN

VARIABLES
    approvals,     \* the rows, by id; status ABSENT: no such row
    expiryEvents,  \* APPROVAL_EXPIRED rows of audit_events, by approval
    clock,         \* what _now_fn returns
    call           \* the store call each thread is in

vars == <<approvals, expiryEvents, clock, call>>

Live == {"PENDING", "APPROVED"}
Terminal == {"REJECTED", "EXPIRED", "SUPERSEDED"}
Status == Live \cup Terminal \cup {"ABSENT"}

\* The columns the guards read.  created_at is expires - TTL; it orders only
\* rows with the fingerprint of a call, which no migrated row has.
Row == [status : Status, request : Requests \cup {None},
        fingerprint : Fingerprints \cup {None}, expires : Nat]

NoRow == [status |-> "ABSENT", request |-> None, fingerprint |-> None, expires |-> 0]

\* A call: its method and arguments, the clock it sampled, the expired
\* approvals it still has to audit, and its answer so far.
Ops == {"none", "reconcile", "approve", "reject", "get"}
Pcs == {"idle", "begin", "audit", "read", "expire", "reread", "done"}
Outcomes == {"none", "created", "reused", "unneeded", "ok",
             "not_found", "denied", "invalid"}
Call == [op : Ops, pc : Pcs, id : Ids \cup {None}, request : Requests \cup {None},
         fingerprint : Fingerprints \cup {None}, required : BOOLEAN, now : Nat,
         todo : SUBSET Ids, superseded : SUBSET Ids, out : Outcomes,
         seen : Status]

Idle == [op |-> "none", pc |-> "idle", id |-> None,
         request |-> None, fingerprint |-> None, required |-> FALSE, now |-> 0, todo |-> {}, superseded |-> {},
         out |-> "none", seen |-> "ABSENT"]

\* What _initialize makes of the open rows of an earlier version: they get an
\* empty fingerprint, and nothing says that a request has only one of them.
MigratedRow == [status : Live, request : Requests, fingerprint : {None}, expires : 0..TTL]

Init ==
    /\ approvals \in [Ids -> {NoRow} \cup (IF Upgraded THEN MigratedRow ELSE {})]
    /\ expiryEvents = [id \in Ids |-> 0]
    /\ clock = 0
    /\ call = [t \in Threads |-> Idle]

-----------------------------------------------------------------------------
(* Entering a call: the authorisation and the clock, before the lock.      *)

InCall(t, op, pc) == call[t].op = op /\ call[t].pc = pc

\* The call of thread t goes on as c.
Continue(t, c) == call' = [call EXCEPT ![t] = c]

\* Mutants: the query forgets APPROVED rows; the query excludes only rejected
\* and expired rows.
LiveOfPendingOnly(r) ==
    {id \in Ids : approvals[id].status = "PENDING" /\ approvals[id].request = r}
LiveOfSuperseded(r) ==
    {id \in Ids : /\ approvals[id].status \in Live \cup {"SUPERSEDED"}
                  /\ approvals[id].request = r}

LiveOf(r) == {id \in Ids : approvals[id].status \in Live /\ approvals[id].request = r}

\* Bound: an id is left for every reconcile that may insert one.
IdsLeft ==
    Cardinality({id \in Ids : approvals[id].status = "ABSENT"})
        > Cardinality({t \in Threads : InCall(t, "reconcile", "begin")})

StartReconcile(t, r, f, required) ==
    /\ call[t].pc = "idle"
    /\ IdsLeft
    /\ Continue(t, [Idle EXCEPT
                   !.op = "reconcile", !.pc = "begin", !.request = r,
                   !.fingerprint = f, !.required = required, !.now = clock])
    /\ UNCHANGED <<approvals, expiryEvents, clock>>

\* approve and reject; authorize refuses every role but finance_approver
\* before the table is touched.
StartDecision(t, op, id, authorised) ==
    /\ call[t].pc = "idle"
    /\ Continue(t, [Idle EXCEPT
                   !.op = op, !.id = id,
                   !.pc = IF authorised THEN "begin" ELSE "done",
                   !.out = IF authorised THEN "none" ELSE "denied",
                   !.now = IF authorised THEN clock ELSE 0])
    /\ UNCHANGED <<approvals, expiryEvents, clock>>

StartGet(t, id) ==
    /\ call[t].pc = "idle"
    /\ Continue(t, [Idle EXCEPT !.op = "get", !.pc = "read", !.id = id])
    /\ UNCHANGED <<approvals, expiryEvents, clock>>

-----------------------------------------------------------------------------
(* reconcile_approval                                                      *)

\* Mutants: >= for >; an approved row expires too.
OverdueAtDeadline(id, now) ==
    approvals[id].status = "PENDING" /\ now >= approvals[id].expires
OverdueWhileLive(id, now) ==
    approvals[id].status \in Live /\ now > approvals[id].expires

Overdue(id, now) == approvals[id].status = "PENDING" /\ now > approvals[id].expires

\* The live approval that already covers the fingerprint, oldest first.
Covering(candidates, f) ==
    {id \in candidates :
        /\ approvals[id].fingerprint = f
        /\ \A other \in candidates :
              approvals[other].fingerprint = f =>
                  approvals[id].expires <= approvals[other].expires}

\* Mutant: the row is inserted with a status the schema does not know.
NewRowOpen(r, f, now) ==
    [status |-> "OPEN", request |-> r, fingerprint |-> f, expires |-> now + TTL]

NewRow(r, f, now) ==
    [status |-> "PENDING", request |-> r, fingerprint |-> f, expires |-> now + TTL]

\* The rows after the transaction: keep is the approval that stays live (or
\* None), fresh tells whether it is inserted.
Reconciled(c, expired, superseded, keep, fresh) ==
    [id \in Ids |->
        IF id \in expired THEN [approvals[id] EXCEPT !.status = "EXPIRED"]
        ELSE IF id \in superseded THEN [approvals[id] EXCEPT !.status = "SUPERSEDED"]
        ELSE IF fresh /\ id = keep THEN NewRow(c.request, c.fingerprint, c.now)
        ELSE approvals[id]]

AfterTx(expired) == IF expired = {} THEN "done" ELSE "audit"

\* Mutant: the expired rows are committed and their audit loop is forgotten.
CommitReconcileUnaudited(t, expired, superseded, keep, out) ==
    /\ approvals' = Reconciled(call[t], expired, superseded, keep, out = "created")
    /\ Continue(t, [call[t] EXCEPT !.pc = "done", !.id = keep,
                            !.superseded = superseded, !.out = out])
    /\ UNCHANGED <<expiryEvents, clock>>

\* One write transaction: overdue rows expire, the covering approval is kept
\* or a new one inserted, every other live row is superseded.
CommitReconcile(t, expired, superseded, keep, out) ==
    /\ approvals' = Reconciled(call[t], expired, superseded, keep, out = "created")
    /\ Continue(t, [call[t] EXCEPT !.pc = AfterTx(expired), !.id = keep,
                            !.todo = expired, !.superseded = superseded,
                            !.out = out])
    /\ UNCHANGED <<expiryEvents, clock>>

ReconcileTx(t) ==
    /\ InCall(t, "reconcile", "begin")
    /\ LET c == call[t]
           expired == {id \in LiveOf(c.request) : Overdue(id, c.now)}
           live == LiveOf(c.request) \ expired
       IN \/ /\ c.required
             /\ \E keep \in Covering(live, c.fingerprint) :
                    CommitReconcile(t, expired, live \ {keep}, keep, "reused")
          \/ /\ c.required
             /\ Covering(live, c.fingerprint) = {}
             /\ \E keep \in Ids :
                    /\ approvals[keep].status = "ABSENT"
                    /\ CommitReconcile(t, expired, live, keep, "created")
          \/ /\ ~c.required
             /\ CommitReconcile(t, expired, live, None, "unneeded")

-----------------------------------------------------------------------------
(* approve and reject: _transition                                         *)

InDecision(t, pc) == call[t].op \in {"approve", "reject"} /\ call[t].pc = pc

Target(op) == IF op = "approve" THEN "APPROVED" ELSE "REJECTED"

DecisionNotFound(t) ==
    /\ InDecision(t, "begin")
    /\ approvals[call[t].id].status = "ABSENT"
    /\ Continue(t, [call[t] EXCEPT !.pc = "done", !.out = "not_found"])
    /\ UNCHANGED <<approvals, expiryEvents, clock>>

DecisionInvalid(t) ==
    /\ InDecision(t, "begin")
    /\ approvals[call[t].id].status \notin {"ABSENT", "PENDING"}
    /\ Continue(t, [call[t] EXCEPT !.pc = "done", !.out = "invalid"])
    /\ UNCHANGED <<approvals, expiryEvents, clock>>

\* The deadline passed before the call sampled the clock: the row expires in
\* the same transaction, and the caller gets InvalidApprovalStateError.
DecisionExpires(t) ==
    /\ InDecision(t, "begin")
    /\ Overdue(call[t].id, call[t].now)
    /\ approvals' = [approvals EXCEPT ![call[t].id].status = "EXPIRED"]
    /\ Continue(t, [call[t] EXCEPT !.pc = "audit", !.todo = {call[t].id},
                            !.out = "invalid"])
    /\ UNCHANGED <<expiryEvents, clock>>

\* Mutants: the status guard is dropped; a closed approval can be reopened by
\* an approve.
DecisionCommitsUnguarded(t) ==
    /\ InDecision(t, "begin")
    /\ approvals[call[t].id].status # "ABSENT"
    /\ call[t].now <= approvals[call[t].id].expires
    /\ approvals' = [approvals EXCEPT ![call[t].id].status = Target(call[t].op)]
    /\ Continue(t, [call[t] EXCEPT !.pc = "read", !.out = "ok"])
    /\ UNCHANGED <<expiryEvents, clock>>
DecisionCommitsReopening(t) ==
    /\ InDecision(t, "begin")
    /\ approvals[call[t].id].status \in {"PENDING", "REJECTED"}
    /\ call[t].now <= approvals[call[t].id].expires
    /\ approvals' = [approvals EXCEPT ![call[t].id].status = Target(call[t].op)]
    /\ Continue(t, [call[t] EXCEPT !.pc = "read", !.out = "ok"])
    /\ UNCHANGED <<expiryEvents, clock>>

\* The compare-and-set.  The lock is held since the row was read, so the
\* update cannot miss and its rowcount # 1 branch has no action.
DecisionCommits(t) ==
    /\ InDecision(t, "begin")
    /\ approvals[call[t].id].status = "PENDING"
    /\ call[t].now <= approvals[call[t].id].expires
    /\ approvals' = [approvals EXCEPT ![call[t].id].status = Target(call[t].op)]
    /\ Continue(t, [call[t] EXCEPT !.pc = "read", !.out = "ok"])
    /\ UNCHANGED <<expiryEvents, clock>>

DecisionTx(t) ==
    \/ DecisionNotFound(t)
    \/ DecisionInvalid(t)
    \/ DecisionExpires(t)
    \/ DecisionCommits(t)

-----------------------------------------------------------------------------
(* get_approval, alone or as the last line of a decision.                  *)

\* The row and the clock are read together: a later look at the clock only
\* makes more rows overdue, and the update that follows checks again.
ReadRow(t) ==
    /\ call[t].pc = "read"
    /\ ~Overdue(call[t].id, clock)
    /\ LET status == approvals[call[t].id].status
       IN Continue(t, [call[t] EXCEPT !.pc = "done", !.seen = status,
                            !.out = IF status = "ABSENT" THEN "not_found" ELSE "ok"])
    /\ UNCHANGED <<approvals, expiryEvents, clock>>

ReadOverdue(t) ==
    /\ call[t].pc = "read"
    /\ Overdue(call[t].id, clock)
    /\ Continue(t, [call[t] EXCEPT !.pc = "expire", !.now = clock])
    /\ UNCHANGED <<approvals, expiryEvents, clock>>

\* Mutant: the rowcount is not looked at, every caller that saw an overdue row
\* audits it.
ExpireWinsAlways(t) ==
    /\ call[t].pc = "expire"
    /\ approvals' = [approvals EXCEPT ![call[t].id].status =
                         IF Overdue(call[t].id, call[t].now) THEN "EXPIRED" ELSE @]
    /\ Continue(t, [call[t] EXCEPT !.pc = "audit", !.todo = {call[t].id},
                            !.seen = "EXPIRED", !.out = "ok"])
    /\ UNCHANGED <<expiryEvents, clock>>

\* _expire_if_pending: only the call whose update changed the row audits it.
ExpireWins(t) ==
    /\ call[t].pc = "expire"
    /\ Overdue(call[t].id, call[t].now)
    /\ approvals' = [approvals EXCEPT ![call[t].id].status = "EXPIRED"]
    /\ Continue(t, [call[t] EXCEPT !.pc = "audit", !.todo = {call[t].id},
                            !.seen = "EXPIRED", !.out = "ok"])
    /\ UNCHANGED <<expiryEvents, clock>>

\* Mutant: the update is retried until it changes the row.
ExpireLosesRetry(t) ==
    /\ call[t].pc = "expire"
    /\ ~Overdue(call[t].id, call[t].now)
    /\ Continue(t, [call[t] EXCEPT !.now = clock])
    /\ UNCHANGED <<approvals, expiryEvents, clock>>

ExpireLoses(t) ==
    /\ call[t].pc = "expire"
    /\ ~Overdue(call[t].id, call[t].now)
    /\ Continue(t, [call[t] EXCEPT !.pc = "reread"])
    /\ UNCHANGED <<approvals, expiryEvents, clock>>

Reread(t) ==
    /\ call[t].pc = "reread"
    /\ Continue(t, [call[t] EXCEPT !.pc = "done", !.out = "ok",
                            !.seen = approvals[call[t].id].status])
    /\ UNCHANGED <<approvals, expiryEvents, clock>>

-----------------------------------------------------------------------------
(* After the commit.                                                       *)

\* _audit_expiry inserts one event per expired approval, one at a time.
AuditExpiry(t) ==
    /\ call[t].pc = "audit"
    /\ \E id \in call[t].todo :
          /\ expiryEvents' = [expiryEvents EXCEPT ![id] = @ + 1]
          /\ Continue(t, [call[t] EXCEPT !.todo = @ \ {id},
                            !.pc = AfterTx(call[t].todo \ {id})])
    /\ UNCHANGED <<approvals, clock>>

\* The caller takes the answer, returned or raised.
Return(t) ==
    /\ call[t].pc = "done"
    /\ Continue(t, Idle)
    /\ UNCHANGED <<approvals, expiryEvents, clock>>

\* The call dies: the process crashes, or sqlite raises "database is locked"
\* or "disk full".  What it committed stays; the rest is forgotten.
Abort(t) ==
    /\ CanAbort
    /\ call[t].pc \notin {"idle", "done"}
    /\ Continue(t, Idle)
    /\ UNCHANGED <<approvals, expiryEvents, clock>>

\* create_approval: a row is inserted whatever else is live, by default with
\* an empty fingerprint.
CreateApproval ==
    /\ DirectCreate
    /\ IdsLeft
    /\ \E id \in Ids, r \in Requests, f \in Fingerprints \cup {None} :
          /\ approvals[id].status = "ABSENT"
          /\ approvals' = [approvals EXCEPT ![id] = NewRow(r, f, clock)]
    /\ UNCHANGED <<expiryEvents, clock, call>>

Tick ==
    /\ clock < MaxClock
    /\ clock' = clock + 1
    /\ UNCHANGED <<approvals, expiryEvents, call>>

\* The steps a call takes by itself once it was entered.
StoreStep(t) ==
    \/ ReconcileTx(t)
    \/ DecisionTx(t)
    \/ ReadRow(t)
    \/ ReadOverdue(t)
    \/ ExpireWins(t)
    \/ ExpireLoses(t)
    \/ Reread(t)
    \/ AuditExpiry(t)

Enter(t) ==
    \/ \E r \in Requests, f \in Fingerprints, required \in BOOLEAN :
          StartReconcile(t, r, f, required)
    \/ \E op \in {"approve", "reject"}, id \in Ids, authorised \in BOOLEAN :
          StartDecision(t, op, id, authorised)
    \/ \E id \in Ids : StartGet(t, id)

Next ==
    \/ \E t \in Threads : Enter(t) \/ StoreStep(t) \/ Return(t) \/ Abort(t)
    \/ CreateApproval
    \/ Tick

Spec == Init /\ [][Next]_vars

\* A worker thread is scheduled again and again, and the 30 s busy timeout
\* is taken to be long enough for every write transaction to get the lock.
FairSpec == Spec /\ \A t \in Threads : WF_vars(StoreStep(t))

-----------------------------------------------------------------------------
(* Properties                                                              *)

\* The types, and that a call has the arguments its method works on.
TypeOK ==
    /\ approvals \in [Ids -> Row]
    /\ expiryEvents \in [Ids -> Nat]
    /\ clock \in Nat
    /\ call \in [Threads -> Call]
    /\ \A t \in Threads :
          /\ call[t].op \in {"approve", "reject", "get"} => call[t].id \in Ids
          /\ call[t].pc \in {"read", "expire", "reread"} =>
                call[t].op \in {"approve", "reject", "get"}
          /\ call[t].op = "reconcile" =>
                call[t].request \in Requests /\ call[t].fingerprint \in Fingerprints

\* A purchase request never has two live approvals, however analyses,
\* decisions, reads and the clock interleave (reconcile_approval's promise).
SingleLive ==
    \A id, other \in Ids :
        /\ approvals[id].status \in Live
        /\ approvals[other].status \in Live
        /\ approvals[id].request = approvals[other].request
        => id = other

\* An approval is reported expired at most once, and only if it is expired:
\* three methods may expire a row, and each audits only the row it changed.
OneExpiryEvent ==
    \A id \in Ids :
        /\ expiryEvents[id] <= 1
        /\ expiryEvents[id] = 1 => approvals[id].status = "EXPIRED"

\* No approval expires before its deadline, although every method compares
\* the deadline with a clock it sampled before it waited for the lock.
NotExpiredEarly ==
    \A id \in Ids : approvals[id].status = "EXPIRED" => clock > approvals[id].expires

\* Of all the calls that decide an approval at most one succeeds, and what
\* the winner is told fits its decision: a rejection is final, an approval
\* may already be superseded when get_approval reads the row again.
OneDecision ==
    \A t \in Threads :
        call[t].op \in {"approve", "reject"} /\ call[t].out = "ok" =>
            /\ \A u \in Threads \ {t} :
                  ~(/\ call[u].op \in {"approve", "reject"}
                    /\ call[u].out = "ok"
                    /\ call[u].id = call[t].id)
            /\ approvals[call[t].id].status \in
                  IF call[t].op = "approve" THEN {"APPROVED", "SUPERSEDED"} ELSE {"REJECTED"}
            /\ call[t].pc = "done" => call[t].seen \in
                  IF call[t].op = "approve" THEN {"APPROVED", "SUPERSEDED"} ELSE {"REJECTED"}

\* No two analyses both report an approval as superseded by them, and one
\* that is reported is superseded: APPROVAL_SUPERSEDED is audited from this.
SupersededReportedOnce ==
    \A t \in Threads :
        /\ \A id \in call[t].superseded : approvals[id].status = "SUPERSEDED"
        /\ \A u \in Threads \ {t} : call[t].superseded \cap call[u].superseded = {}

\* Whoever changed an approval, and nobody else, is told so: the audit events
\* of decisions and supersessions are written from what a call was told.
ToldOnce == OneDecision /\ SupersededReportedOnce

\* The life of an approval, step by step: a decision, an expiry and a
\* supersession leave PENDING, only a supersession leaves APPROVED, and
\* nothing leaves a terminal status or changes what the approval covers.
Successors ==
    [ABSENT |-> {"PENDING"}, PENDING |-> {"APPROVED"} \cup Terminal,
     APPROVED |-> {"SUPERSEDED"}, REJECTED |-> {}, EXPIRED |-> {}, SUPERSEDED |-> {}]

LifecycleStep ==
    \A id \in Ids :
        approvals'[id] # approvals[id] =>
            /\ approvals'[id].status \in Successors[approvals[id].status]
            /\ approvals[id].status # "ABSENT" =>
                  approvals'[id] = [approvals[id] EXCEPT !.status = approvals'[id].status]

Lifecycle == [][LifecycleStep]_vars

\* Every call returns, whatever the other threads and the clock do.
CallsReturn ==
    \A t \in Threads : call[t].pc # "idle" ~> call[t].pc \in {"done", "idle"}

\* Every expiry is audited in the end (when no call dies half-way).
ExpiryAudited ==
    \A id \in Ids : approvals[id].status = "EXPIRED" ~> expiryEvents[id] = 1

-----------------------------------------------------------------------------
(* The ledger the table implements.                                        *)

OneOf(ids) == IF ids = {} THEN None ELSE CHOOSE id \in ids : TRUE

currentOf == [r \in Requests |-> OneOf(LiveOf(r))]

grantedOf == {id \in Ids : approvals[id].status = "APPROVED"}

fateOf ==
    [id \in Ids |->
        CASE approvals[id].status = "ABSENT" -> "unused"
          [] approvals[id].status \in Live -> "open"
          [] OTHER -> approvals[id].status]

Ledger == INSTANCE ApprovalLedger
            WITH current <- currentOf, granted <- grantedOf, fate <- fateOf

\* Every step of the threaded, transactional store is a step of the ledger
\* or changes nothing the ledger shows.
ImplementsLedger == Ledger!LedgerSpec
=============================================================================
