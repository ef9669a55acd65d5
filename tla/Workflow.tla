------------------------------- MODULE Workflow -------------------------------
(***************************************************************************)
(* The request handlers of ProcurementService (app/service.py): analyze,   *)
(* approve, reject, action_preview and execute, composed of the calls they *)
(* make to the approvals table (ApprovalStore), to the cases and           *)
(* audit_events tables, and to the MockDesk gateway (TicketLedger).        *)
(*                                                                         *)
(* Users name approvals they were told of.  Any other id is answered 404   *)
(* by the first read of the approvals table and leaves no trace - unless   *)
(* the user's role is refused before that, which is audited for any id.    *)
(*                                                                         *)
(* A handler is a thread's session.  It holds no lock between two calls:   *)
(* each call is a step of the session, and sessions interleave.            *)
(***************************************************************************)
EXTENDS ApprovalStore

CONSTANTS
    Offered,     \* bound: the handlers users call
    Recorded,    \* bound: the kinds of audit event the trail keeps
    Edits        \* what a stored case may be edited to behind the handlers

ASSUME WorkflowAssumption == Edits \subseteq Fingerprints /\ None \notin Fingerprints

VARIABLES
    sess,      \* the handler each thread runs
    cases,     \* cases.payload_json, as the fingerprint of its context
    trail,     \* the kinds of audit event an approval has
    told,      \* the approval ids users were told
    granted,   \* history: the approvals that were ever APPROVED
    ticket,    \* what MockDesk issued under the key of an approval
    order,     \* the create_ticket call of each thread
    late       \* requests to MockDesk nobody waits for

Desk == INSTANCE TicketLedger
            WITH Callers <- Threads, Keys <- Ids, Payloads <- Fingerprints

ASSUME AnswerAssumption == None \notin Desk!Answers

deskVars == <<ticket, order, late>>
flowVars == <<vars, sess, cases, trail, told, granted, ticket, order, late>>

Handlers == {"none", "analyze", "approve", "reject", "preview", "execute"}
Kinds == {"REQUESTED", "REUSED", "SUPERSEDED", "DENIED", "GRANTED", "REJECTED",
          "TRANSITION_FAILED", "EXECUTION_DENIED", "BLOCKED",
          "EXECUTED_OPEN", "EXECUTED_REPLAY", "CONFLICT", "FAILED"}
Session == [op : Handlers,
            pc : {"idle", "store", "saved", "claimed", "loaded", "failed", "reread", "ordered"},
            id : Ids \cup {None}, todo : SUBSET Ids]

Rest == [op |-> "none", pc |-> "idle", id |-> None, todo |-> {}]

\* Rows of an earlier version may have a case, were shown to users, and were
\* audited when they were granted.
FlowInit ==
    /\ Init
    /\ sess = [t \in Threads |-> Rest]
    /\ cases \in [Ids -> Fingerprints \cup {None}]
    /\ told = {id \in Ids : approvals[id].status # "ABSENT"}
    /\ \A id \in Ids \ told : cases[id] = None
    /\ granted = {id \in Ids : approvals[id].status = "APPROVED"}
    /\ trail = [id \in Ids |-> IF id \in granted THEN {"GRANTED"} \cap Recorded ELSE {}]
    /\ ticket = [id \in Ids |-> None]
    /\ order = [t \in Threads |-> Desk!NoOrder]
    /\ late = {}

At(t, op, pc) == sess[t].op = op /\ sess[t].pc = pc
Answered(t, outs) == call[t].pc = "done" /\ call[t].out \in outs

Begin(t, op, id) ==
    /\ op \in Offered
    /\ sess[t].pc = "idle"
    /\ sess' = [sess EXCEPT ![t] = [op |-> op, pc |-> "store", id |-> id, todo |-> {}]]

Goto(t, pc) == sess' = [sess EXCEPT ![t].pc = pc]

\* The handler returns or raises; nothing is left of its store call.
Leave(t) == sess' = [sess EXCEPT ![t] = Rest] /\ Return(t)

\* store.add_audit
Record(kind, id) ==
    trail' = [trail EXCEPT ![id] = @ \cup ({kind} \cap Recorded)]

-----------------------------------------------------------------------------
(* analyze, once the decision is computed                                  *)

Analyze(t) ==
    /\ Begin(t, "analyze", None)
    /\ \E r \in Requests, f \in Fingerprints, required \in BOOLEAN :
          StartReconcile(t, r, f, required)
    /\ UNCHANGED <<cases, trail, told, granted, deskVars>>

\* A new approval gets its case snapshot, in a transaction of its own.
SaveCase(t) ==
    /\ At(t, "analyze", "store")
    /\ Answered(t, {"created"})
    /\ cases' = [cases EXCEPT ![call[t].id] = call[t].fingerprint]
    /\ Goto(t, "saved")
    /\ UNCHANGED <<vars, trail, told, granted, deskVars>>

\* Mutant: the supersessions are audited only along with an approval.
AuditClaimOnly(t) ==
    /\ \/ At(t, "analyze", "saved")
       \/ At(t, "analyze", "store") /\ Answered(t, {"reused", "unneeded"})
    /\ CASE call[t].out = "created" -> Record("REQUESTED", call[t].id)
         [] call[t].out = "reused" -> Record("REUSED", call[t].id)
         [] OTHER -> UNCHANGED trail
    /\ sess' = [sess EXCEPT ![t].pc = "claimed",
                            ![t].todo = IF call[t].id = None THEN {} ELSE call[t].superseded]
    /\ UNCHANGED <<vars, cases, told, granted, deskVars>>

AuditClaim(t) ==
    /\ \/ At(t, "analyze", "saved")
       \/ At(t, "analyze", "store") /\ Answered(t, {"reused", "unneeded"})
    /\ CASE call[t].out = "created" -> Record("REQUESTED", call[t].id)
         [] call[t].out = "reused" -> Record("REUSED", call[t].id)
         [] OTHER -> UNCHANGED trail
    /\ sess' = [sess EXCEPT ![t].pc = "claimed", ![t].todo = call[t].superseded]
    /\ UNCHANGED <<vars, cases, told, granted, deskVars>>

AuditSuperseded(t) ==
    /\ At(t, "analyze", "claimed")
    /\ \E id \in sess[t].todo :
          /\ Record("SUPERSEDED", id)
          /\ sess' = [sess EXCEPT ![t].todo = @ \ {id}]
    /\ UNCHANGED <<vars, cases, told, granted, deskVars>>

AnalyzeReturns(t) ==
    /\ At(t, "analyze", "claimed")
    /\ sess[t].todo = {}
    /\ told' = told \cup ({call[t].id} \ {None})
    /\ Leave(t)
    /\ UNCHANGED <<cases, trail, granted, deskVars>>

-----------------------------------------------------------------------------
(* approve and reject                                                      *)

Decide(t) ==
    /\ \E op \in {"approve", "reject"}, id \in Ids, authorised \in BOOLEAN :
          /\ authorised => id \in told
          /\ Begin(t, op, id)
          /\ StartDecision(t, op, id, authorised)
    /\ UNCHANGED <<cases, trail, told, granted, deskVars>>

Deciding(t, pc) == At(t, "approve", pc) \/ At(t, "reject", pc)

DecisionLoadsCase(t) ==
    /\ Deciding(t, "store")
    /\ Answered(t, {"ok"})
    /\ cases[sess[t].id] # None
    /\ Goto(t, "loaded")
    /\ UNCHANGED <<vars, cases, trail, told, granted, deskVars>>

DecisionAudited(t) ==
    /\ Deciding(t, "loaded")
    /\ Record(IF sess[t].op = "approve" THEN "GRANTED" ELSE "REJECTED", sess[t].id)
    /\ Leave(t)
    /\ UNCHANGED <<cases, told, granted, deskVars>>

DecisionDenied(t) ==
    /\ Deciding(t, "store")
    /\ Answered(t, {"denied"})
    /\ Record("DENIED", sess[t].id)
    /\ Leave(t)
    /\ UNCHANGED <<cases, told, granted, deskVars>>

\* Mutant: a refused transition is taken for a made one.
DecisionRefusedIgnored(t) ==
    /\ Deciding(t, "store")
    /\ Answered(t, {"invalid"})
    /\ Goto(t, "loaded")
    /\ UNCHANGED <<vars, cases, trail, told, granted, deskVars>>

\* InvalidApprovalStateError: the approval is read again for the audit.
DecisionRefused(t) ==
    /\ Deciding(t, "store")
    /\ Answered(t, {"invalid"})
    /\ Return(t)
    /\ Goto(t, "failed")
    /\ UNCHANGED <<cases, trail, told, granted, deskVars>>

-----------------------------------------------------------------------------
(* action_preview and execute                                              *)

\* Reading an approval may expire it, so a preview is no mere read.
Preview(t) ==
    /\ \E id \in told : Begin(t, "preview", id) /\ StartGet(t, id)
    /\ UNCHANGED <<cases, trail, told, granted, deskVars>>

PreviewReturns(t) ==
    /\ At(t, "preview", "store")
    /\ Answered(t, {"ok"})
    /\ Leave(t)
    /\ UNCHANGED <<cases, trail, told, granted, deskVars>>

Execute(t) ==
    /\ \E id \in told : Begin(t, "execute", id) /\ StartGet(t, id)
    /\ UNCHANGED <<cases, trail, told, granted, deskVars>>

ExecuteDenied(t) ==
    /\ "execute" \in Offered
    /\ sess[t].pc = "idle"
    /\ \E id \in Ids : Record("EXECUTION_DENIED", id)
    /\ UNCHANGED <<vars, sess, cases, told, granted, deskVars>>

\* The context of the stored case is the one the approval was granted for;
\* an approval with an empty fingerprint is not compared.
SnapshotFits(id) ==
    approvals[id].fingerprint # None => cases[id] = approvals[id].fingerprint

\* Mutants: the status is not looked at; the context is not compared.
ExecuteOrdersUnapproved(t) ==
    LET id == sess[t].id
    IN /\ At(t, "execute", "store")
       /\ Answered(t, {"ok"})
       /\ cases[id] # None /\ SnapshotFits(id)
       /\ Desk!Place(t, id, cases[id])
       /\ Goto(t, "ordered")
       /\ UNCHANGED <<vars, cases, trail, told, granted>>
ExecuteOrdersUncompared(t) ==
    LET id == sess[t].id
    IN /\ At(t, "execute", "store")
       /\ Answered(t, {"ok"}) /\ call[t].seen = "APPROVED"
       /\ cases[id] # None
       /\ Desk!Place(t, id, cases[id])
       /\ Goto(t, "ordered")
       /\ UNCHANGED <<vars, cases, trail, told, granted>>

\* The approval was read as APPROVED, now the case is loaded, compared with
\* the approval and sent; the idempotency key is derived from the id.
ExecuteOrders(t) ==
    LET id == sess[t].id
    IN /\ At(t, "execute", "store")
       /\ Answered(t, {"ok"}) /\ call[t].seen = "APPROVED"
       /\ cases[id] # None /\ SnapshotFits(id)
       /\ Desk!Place(t, id, cases[id])
       /\ Goto(t, "ordered")
       /\ UNCHANGED <<vars, cases, trail, told, granted>>

ExecuteBlocked(t) ==
    LET id == sess[t].id
    IN /\ At(t, "execute", "store")
       /\ Answered(t, {"ok"})
       /\ call[t].seen = "APPROVED" => cases[id] # None /\ ~SnapshotFits(id)
       /\ Return(t)
       /\ Goto(t, "failed")
       /\ UNCHANGED <<cases, trail, told, granted, deskVars>>

Verdict ==
    [OPEN |-> "EXECUTED_OPEN", ALREADY_PROCESSED |-> "EXECUTED_REPLAY",
     CONFLICT |-> "CONFLICT", FAILED |-> "FAILED"]

\* Mutant: every result of the gateway is audited as a ticket that was opened.
ExecuteReturnsOpen(t) ==
    /\ At(t, "execute", "ordered")
    /\ order[t].phase = "done"
    /\ Record("EXECUTED_OPEN", sess[t].id)
    /\ Desk!Collect(t)
    /\ Leave(t)
    /\ UNCHANGED <<cases, told, granted>>

ExecuteReturns(t) ==
    /\ At(t, "execute", "ordered")
    /\ order[t].phase = "done"
    /\ Record(Verdict[order[t].answer], sess[t].id)
    /\ Desk!Collect(t)
    /\ Leave(t)
    /\ UNCHANGED <<cases, told, granted>>

-----------------------------------------------------------------------------
(* What decisions and execute share                                        *)

\* The error handler asks the store for the current status,
FailureReads(t) ==
    /\ sess[t].pc = "failed"
    /\ StartGet(t, sess[t].id)
    /\ Goto(t, "reread")
    /\ UNCHANGED <<cases, trail, told, granted, deskVars>>

\* audits the failure and raises.
FailureAudited(t) ==
    /\ sess[t].pc = "reread"
    /\ call[t].pc = "done"
    /\ Record(IF sess[t].op = "execute" THEN "BLOCKED" ELSE "TRANSITION_FAILED", sess[t].id)
    /\ Leave(t)
    /\ UNCHANGED <<cases, told, granted, deskVars>>

\* KeyError, answered with 404 and not audited: load_case finds nothing.
NotFound(t) ==
    /\ sess[t].pc = "store"
    /\ sess[t].op \in {"approve", "reject", "execute"}
    /\ Answered(t, {"ok"})
    /\ sess[t].op = "execute" => call[t].seen = "APPROVED"
    /\ cases[sess[t].id] = None
    /\ Leave(t)
    /\ UNCHANGED <<cases, trail, told, granted, deskVars>>

\* The handler dies wherever it is: a crash, or a statement that raises.
SessionDies(t) ==
    /\ CanAbort
    /\ sess[t].pc # "idle"
    /\ sess' = [sess EXCEPT ![t] = Rest]
    /\ IF call[t].pc = "idle" THEN UNCHANGED vars ELSE Abort(t) \/ Return(t)
    /\ IF order[t].phase = "idle" THEN UNCHANGED deskVars
       ELSE Desk!Abandon(t) \/ Desk!Collect(t)
    /\ UNCHANGED <<cases, trail, told, granted>>

-----------------------------------------------------------------------------
(* The store, the desk, the clock                                          *)

StoreMoves(t) ==
    /\ StoreStep(t)
    /\ granted' = granted \cup {id \in Ids : approvals'[id].status = "APPROVED"}
    /\ UNCHANGED <<sess, cases, trail, told, deskVars>>

DeskMoves ==
    /\ \/ \E t \in Threads : Desk!Issue(t)
       \/ \E t \in Threads, a \in Desk!Answers : Desk!Answer(t, a)
       \/ \E id \in Ids, f \in Fingerprints : Desk!IssueLate(id, f)
       \/ \E id \in Ids, f \in Fingerprints : Desk!Forget(id, f)
    /\ UNCHANGED <<vars, sess, cases, trail, told, granted>>

FlowTick == Tick /\ UNCHANGED <<sess, cases, trail, told, granted, deskVars>>

\* As tests/test_approval_context.py does: a stored case changes.
EditCase ==
    /\ \E id \in Ids, f \in Edits :
          cases[id] # None /\ cases' = [cases EXCEPT ![id] = f]
    /\ UNCHANGED <<vars, sess, trail, told, granted, deskVars>>

\* What a handler does by itself between its calls.
HandlerStep(t) ==
    \/ SaveCase(t)
    \/ AuditClaim(t)
    \/ AuditSuperseded(t)
    \/ AnalyzeReturns(t)
    \/ DecisionLoadsCase(t)
    \/ DecisionAudited(t)
    \/ DecisionDenied(t)
    \/ DecisionRefused(t)
    \/ PreviewReturns(t)
    \/ ExecuteOrders(t)
    \/ ExecuteBlocked(t)
    \/ ExecuteReturns(t)
    \/ FailureReads(t)
    \/ FailureAudited(t)
    \/ NotFound(t)

FlowNext ==
    \/ \E t \in Threads :
          \/ Analyze(t)
          \/ Decide(t)
          \/ Preview(t)
          \/ Execute(t)
          \/ ExecuteDenied(t)
          \/ HandlerStep(t)
          \/ StoreMoves(t)
          \/ SessionDies(t)
    \/ DeskMoves
    \/ FlowTick
    \/ EditCase

FlowSpec == FlowInit /\ [][FlowNext]_flowVars

-----------------------------------------------------------------------------
(* Properties                                                              *)

\* The types, and that a handler was called for an approval.
FlowTypeOK ==
    /\ TypeOK
    /\ sess \in [Threads -> Session]
    /\ \A t \in Threads :
          IF sess[t].op \in {"none", "analyze"}
          THEN sess[t].pc \in {"idle", "store", "saved", "claimed"}
          ELSE sess[t].id \in Ids
    /\ cases \in [Ids -> Fingerprints \cup {None}]
    /\ trail \in [Ids -> SUBSET (Kinds \cap Recorded)]
    /\ told \in SUBSET Ids
    /\ granted \in SUBSET Ids
    /\ Desk!TicketTypeOK

\* MockDesk only ever holds a ticket for an approval that was granted, and
\* the ticket says what was approved - whatever happens between the check,
\* the load of the case and the arrival of the request.  What was approved
\* is fixed by the fingerprint; for a row of an earlier version, which has
\* none, it is what the case says, and nothing detects that it was edited.
TicketNeedsGrant ==
    \A id \in Ids : ticket[id] # None =>
        /\ id \in granted
        /\ IF approvals[id].fingerprint # None THEN ticket[id] = approvals[id].fingerprint
           ELSE ticket[id] = cases[id] \/ cases[id] \in Edits

\* What the trail reports has happened: a grant, a rejection or a
\* supersession that the table shows.
TrailTruthful ==
    \A id \in Ids :
        /\ "GRANTED" \in trail[id] => id \in granted
        /\ "REJECTED" \in trail[id] => approvals[id].status = "REJECTED"
        /\ "SUPERSEDED" \in trail[id] => approvals[id].status = "SUPERSEDED"

\* A ticket is reported as created only if MockDesk holds it, and at most
\* once: what metrics.summarize counts as tickets_created never exceeds the
\* tickets of MockDesk.
CreatedOnce ==
    \A id \in Ids :
        /\ "EXECUTED_OPEN" \in trail[id] => ticket[id] # None
        /\ LET opened == {t \in Threads : /\ At(t, "execute", "ordered") /\ sess[t].id = id
                                        /\ order[t].answer = "OPEN"}
           IN IF "EXECUTED_OPEN" \in trail[id] THEN opened = {} ELSE Cardinality(opened) <= 1

\* When no handler is under way, the trail names every approval that was
\* superseded, although the event is written long after the row changed (and
\* provided that no handler died in between).
SupersessionsAudited ==
    (\A t \in Threads : sess[t].pc = "idle") =>
        \A id \in Ids :
            approvals[id].status = "SUPERSEDED" => "SUPERSEDED" \in trail[id]

\* FR-016 and "Audit events reconstruct success and failure paths": when no
\* handler is under way, the trail names every approval that was granted.
GrantsAudited ==
    (\A t \in Threads : sess[t].pc = "idle") =>
        \A id \in granted : "GRANTED" \in trail[id]

\* "Procurement executes only an approved action": MockDesk issues a ticket
\* only while the approval is APPROVED.
TicketsOfApprovedOnly ==
    [][\A id \in Ids :
          ticket'[id] # ticket[id] => approvals[id].status = "APPROVED"]_flowVars

\* The handlers use the store only through its calls, one at a time, so that
\* all that is shown of the store alone holds of the composed system.
UsesStore == Spec
=============================================================================
