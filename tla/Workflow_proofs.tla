---------------------------- MODULE Workflow_proofs ----------------------------
(***************************************************************************)
(* Theorems about Workflow: the handlers keep to the calls of the store,   *)
(* no ticket is issued for an approval that was never granted, and the     *)
(* audit trail tells what happened.                                        *)
(***************************************************************************)
EXTENDS Workflow, ApprovalStore_proofs, FiniteSetTheorems

-----------------------------------------------------------------------------
(* The handlers use the store as its specification says.                   *)

LEMMA HandlerUsesStore ==
    ASSUME FlowTypeOK, NEW t \in Threads, HandlerStep(t)
    PROVE  UNCHANGED vars \/ Return(t) \/ Enter(t)
<1>1. CASE \/ SaveCase(t) \/ AuditClaim(t) \/ AuditSuperseded(t)
           \/ DecisionLoadsCase(t) \/ ExecuteOrders(t)
  BY <1>1 DEF SaveCase, AuditClaim, AuditSuperseded, DecisionLoadsCase, ExecuteOrders
<1>2. CASE \/ AnalyzeReturns(t) \/ DecisionAudited(t) \/ DecisionDenied(t)
           \/ DecisionRefused(t) \/ PreviewReturns(t) \/ ExecuteBlocked(t)
           \/ ExecuteReturns(t) \/ FailureAudited(t) \/ NotFound(t)
  BY <1>2 DEF AnalyzeReturns, DecisionAudited, DecisionDenied, DecisionRefused,
     PreviewReturns, ExecuteBlocked, ExecuteReturns, FailureAudited, NotFound, Leave
<1>3. CASE FailureReads(t)
  <2>1. sess[t].id \in Ids
    BY <1>3 DEF FailureReads, FlowTypeOK
  <2> QED
    BY <1>3, <2>1 DEF FailureReads, Enter
<1> QED
  BY <1>1, <1>2, <1>3 DEF HandlerStep

LEMMA FlowUsesStore == FlowTypeOK /\ [FlowNext]_flowVars => [Next]_vars
<1> SUFFICES ASSUME FlowTypeOK, FlowNext PROVE [Next]_vars
  BY DEF flowVars
<1>0. told \in SUBSET Ids
  BY DEF FlowTypeOK
<1>1. ASSUME NEW t \in Threads, Analyze(t) PROVE Enter(t)
  BY <1>1 DEF Analyze, Enter
<1>2. ASSUME NEW t \in Threads, Decide(t) PROVE Enter(t)
  BY <1>0, <1>2 DEF Decide, Enter
<1>3. ASSUME NEW t \in Threads, Preview(t) \/ Execute(t) PROVE Enter(t)
  BY <1>0, <1>3 DEF Preview, Execute, Enter
<1>4. ASSUME NEW t \in Threads, ExecuteDenied(t) PROVE UNCHANGED vars
  BY <1>4 DEF ExecuteDenied
<1>5. ASSUME NEW t \in Threads, SessionDies(t)
      PROVE  UNCHANGED vars \/ Abort(t) \/ Return(t)
  BY <1>5 DEF SessionDies
<1>6. ASSUME NEW t \in Threads, StoreMoves(t) PROVE StoreStep(t)
  BY <1>6 DEF StoreMoves
<1>7. FlowTick => Tick
  BY DEF FlowTick
<1>8. DeskMoves \/ EditCase => UNCHANGED vars
  BY DEF DeskMoves, EditCase
<1> QED
  BY <1>1, <1>2, <1>3, <1>4, <1>5, <1>6, <1>7, <1>8, HandlerUsesStore DEF FlowNext, Next
-----------------------------------------------------------------------------
(* Types                                                                   *)

DeskStep ==
    \/ \E t \in Threads :
          \/ \E id \in Ids, f \in Fingerprints : Desk!Place(t, id, f)
          \/ Desk!Issue(t)
          \/ \E a \in Desk!Answers : Desk!Answer(t, a)
          \/ Desk!Collect(t)
          \/ Desk!Abandon(t)
    \/ \E id \in Ids, f \in Fingerprints : Desk!IssueLate(id, f) \/ Desk!Forget(id, f)

LEMMA DeskType == Desk!TicketTypeOK /\ DeskStep => Desk!TicketTypeOK'
<1> SUFFICES ASSUME Desk!TicketTypeOK, DeskStep PROVE Desk!TicketTypeOK'
  OBVIOUS
<1>0. /\ ticket \in [Ids -> Fingerprints \cup {None}]
      /\ order \in [Threads -> Desk!Order]
      /\ late \in SUBSET (Ids \X Fingerprints)
      /\ \A t \in Threads :
            /\ order[t].phase = "open" => order[t].key \in Ids /\ order[t].payload \in Fingerprints
            /\ order[t].phase = "done" => order[t].answer \in Desk!Answers
  BY DEF Desk!TicketTypeOK
\* It is enough that one order becomes a good one.
<1>c. ASSUME NEW t \in Threads, NEW o \in Desk!Order,
             o.phase = "open" => o.key \in Ids /\ o.payload \in Fingerprints,
             o.phase = "done" => o.answer \in Desk!Answers,
             order' = [order EXCEPT ![t] = o],
             ticket' \in [Ids -> Fingerprints \cup {None}],
             late' \in SUBSET (Ids \X Fingerprints)
      PROVE  Desk!TicketTypeOK'
  BY <1>0, <1>c DEF Desk!TicketTypeOK
<1>n. Desk!NoOrder \in Desk!Order /\ Desk!NoOrder.phase = "idle"
  BY DEF Desk!NoOrder, Desk!Order
<1>1. ASSUME NEW t \in Threads, NEW id \in Ids, NEW f \in Fingerprints, Desk!Place(t, id, f)
      PROVE  Desk!TicketTypeOK'
  <2> DEFINE o == [Desk!NoOrder EXCEPT !.phase = "open", !.key = id, !.payload = f]
  <2>1. o \in Desk!Order /\ o.key \in Ids /\ o.payload \in Fingerprints /\ o.phase = "open"
    BY DEF Desk!NoOrder, Desk!Order
  <2>2. order' = [order EXCEPT ![t] = o] /\ ticket' = ticket /\ late' = late
    BY <1>1 DEF Desk!Place
  <2> QED
    BY <2>1, <2>2, <1>0, <1>c
<1>2. ASSUME NEW t \in Threads, Desk!Issue(t) PROVE Desk!TicketTypeOK'
  <2> DEFINE o == [order[t] EXCEPT !.created = TRUE]
  <2>1. /\ o \in Desk!Order /\ o.phase = order[t].phase
        /\ o.key = order[t].key /\ o.payload = order[t].payload
    BY <1>0 DEF Desk!Order
  <2>2. order' = [order EXCEPT ![t] = o] /\ late' = late /\ order[t].phase = "open"
    BY <1>2 DEF Desk!Issue
  <2>3. ticket' \in [Ids -> Fingerprints \cup {None}]
    BY <1>2, <1>0 DEF Desk!Issue
  <2> QED
    BY <2>1, <2>2, <2>3, <1>0, <1>c
<1>3. ASSUME NEW t \in Threads, NEW a \in Desk!Answers, Desk!Answer(t, a)
      PROVE  Desk!TicketTypeOK'
  <2> DEFINE o == [order[t] EXCEPT !.phase = "done", !.answer = a]
  <2>1. o \in Desk!Order /\ o.phase = "done" /\ o.answer = a
    BY <1>0 DEF Desk!Order
  <2>2. order' = [order EXCEPT ![t] = o] /\ ticket' = ticket /\ order[t].phase = "open"
    BY <1>3 DEF Desk!Answer
  <2>3. late' \in SUBSET (Ids \X Fingerprints)
    BY <1>3, <1>0 DEF Desk!Answer, Desk!Contents
  <2> QED
    BY <2>1, <2>2, <2>3, <1>0, <1>c
<1>4. ASSUME NEW t \in Threads, Desk!Collect(t) \/ Desk!Abandon(t)
      PROVE  Desk!TicketTypeOK'
  <2>1. order' = [order EXCEPT ![t] = Desk!NoOrder] /\ ticket' = ticket
    BY <1>4 DEF Desk!Collect, Desk!Abandon
  <2>2. late' \in SUBSET (Ids \X Fingerprints)
    BY <1>4, <1>0 DEF Desk!Collect, Desk!Abandon, Desk!Contents
  <2> QED
    BY <2>1, <2>2, <1>0, <1>n, <1>c
<1>5. ASSUME NEW id \in Ids, NEW f \in Fingerprints, Desk!IssueLate(id, f) \/ Desk!Forget(id, f)
      PROVE  Desk!TicketTypeOK'
  BY <1>0, <1>5 DEF Desk!IssueLate, Desk!Forget, Desk!TicketTypeOK
<1> QED
  BY <1>1, <1>2, <1>3, <1>4, <1>5 DEF DeskStep

\* The handlers reach MockDesk only through its gateway.
LEMMA FlowUsesDesk ==
    ASSUME FlowTypeOK, [FlowNext]_flowVars
    PROVE  DeskStep \/ UNCHANGED deskVars
<1>1. ASSUME NEW t \in Threads, ExecuteOrders(t) PROVE DeskStep
  <2>1. sess[t].id \in Ids /\ cases[sess[t].id] \in Fingerprints
    BY <1>1 DEF ExecuteOrders, At, FlowTypeOK
  <2> QED
    BY <1>1, <2>1 DEF ExecuteOrders, DeskStep
<1>2. ASSUME NEW t \in Threads, ExecuteReturns(t) PROVE DeskStep
  BY <1>2 DEF ExecuteReturns, DeskStep
<1>3. ASSUME NEW t \in Threads, SessionDies(t) PROVE DeskStep \/ UNCHANGED deskVars
  BY <1>3 DEF SessionDies, DeskStep
<1>4. CASE DeskMoves
  BY <1>4 DEF DeskMoves, DeskStep
<1>5. ASSUME NEW t \in Threads, HandlerStep(t), ~ExecuteOrders(t), ~ExecuteReturns(t)
      PROVE  UNCHANGED deskVars
  BY <1>5 DEF HandlerStep, SaveCase, AuditClaim, AuditSuperseded, AnalyzeReturns,
     DecisionLoadsCase, DecisionAudited, DecisionDenied, DecisionRefused, PreviewReturns,
     ExecuteBlocked, FailureReads, FailureAudited, NotFound
<1>6. ASSUME NEW t \in Threads,
             \/ Analyze(t) \/ Decide(t) \/ Preview(t) \/ Execute(t)
             \/ ExecuteDenied(t) \/ StoreMoves(t)
      PROVE  UNCHANGED deskVars
  BY <1>6 DEF Analyze, Decide, Preview, Execute, ExecuteDenied, StoreMoves
<1>7. FlowTick \/ EditCase \/ UNCHANGED flowVars => UNCHANGED deskVars
  BY DEF FlowTick, EditCase, flowVars, deskVars
<1> QED
  BY <1>1, <1>2, <1>3, <1>4, <1>5, <1>6, <1>7 DEF FlowNext

\* What FlowTypeOK says of a session.
SessionsOK ==
    /\ sess \in [Threads -> Session]
    /\ \A t \in Threads :
          IF sess[t].op \in {"none", "analyze"}
          THEN sess[t].pc \in {"idle", "store", "saved", "claimed"}
          ELSE sess[t].id \in Ids

LEMMA SessionType ==
    ASSUME SessionsOK, NEW t \in Threads, NEW s \in Session,
           IF s.op \in {"none", "analyze"}
           THEN s.pc \in {"idle", "store", "saved", "claimed"}
           ELSE s.id \in Ids,
           sess' = [sess EXCEPT ![t] = s]
    PROVE  SessionsOK'
  BY DEF SessionsOK

LEMMA FlowSessions ==
    ASSUME FlowTypeOK, [FlowNext]_flowVars
    PROVE  SessionsOK'
<1>0. SessionsOK /\ told \in SUBSET Ids /\ call \in [Threads -> Call]
  BY DEF FlowTypeOK, SessionsOK, TypeOK
<1>r. ASSUME NEW t \in Threads, sess' = [sess EXCEPT ![t] = Rest] PROVE SessionsOK'
  BY <1>0, <1>r, SessionType DEF Rest, Session, Handlers
\* A handler called for an approval moves on.
<1>g. ASSUME NEW t \in Threads, sess[t].id \in Ids,
             NEW pc \in {"loaded", "failed", "reread", "ordered"}, sess[t].op \notin {"none", "analyze"},
             Goto(t, pc)
      PROVE  SessionsOK'
  <2>1. [sess[t] EXCEPT !.pc = pc] \in Session
    BY <1>0 DEF SessionsOK, Session
  <2> QED
    BY <1>0, <1>g, <2>1, SessionType DEF Goto, SessionsOK, Session
<1>b. ASSUME NEW t \in Threads, NEW op \in Handlers, NEW id \in Ids, Begin(t, op, id)
      PROVE  SessionsOK'
  <2>1. [op |-> op, pc |-> "store", id |-> id, todo |-> {}] \in Session
    BY DEF Session
  <2> QED
    BY <1>0, <1>b, <2>1, SessionType DEF Begin
<1>1. ASSUME NEW t \in Threads, Analyze(t) PROVE SessionsOK'
  <2>1. [op |-> "analyze", pc |-> "store", id |-> None, todo |-> {}] \in Session
    BY DEF Session, Handlers
  <2> QED
    BY <1>0, <1>1, <2>1, SessionType DEF Analyze, Begin
<1>2. ASSUME NEW t \in Threads, SaveCase(t) PROVE SessionsOK'
  <2>1. [sess[t] EXCEPT !.pc = "saved"] \in Session /\ sess[t].op = "analyze"
    BY <1>0, <1>2 DEF SaveCase, At, SessionsOK, Session
  <2> QED
    BY <1>0, <1>2, <2>1, SessionType DEF SaveCase, Goto, SessionsOK, Session
<1>3. ASSUME NEW t \in Threads, AuditClaim(t) PROVE SessionsOK'
  <2>1. /\ [sess[t] EXCEPT !.pc = "claimed", !.todo = call[t].superseded] \in Session
        /\ sess[t].op = "analyze"
    BY <1>0, <1>3 DEF AuditClaim, At, SessionsOK, Session, Call
  <2>2. sess' = [sess EXCEPT ![t] = [sess[t] EXCEPT !.pc = "claimed",
                                                   !.todo = call[t].superseded]]
    BY <1>0, <1>3 DEF AuditClaim, SessionsOK
  <2> QED
    BY <1>0, <2>1, <2>2, SessionType DEF SessionsOK, Session
<1>4. ASSUME NEW t \in Threads, AuditSuperseded(t) PROVE SessionsOK'
  <2>1. PICK id \in sess[t].todo : sess' = [sess EXCEPT ![t].todo = @ \ {id}]
    BY <1>4 DEF AuditSuperseded
  <2>2. /\ [sess[t] EXCEPT !.todo = @ \ {id}] \in Session
        /\ sess[t].op = "analyze" /\ sess[t].pc = "claimed"
    BY <1>0, <1>4 DEF AuditSuperseded, At, SessionsOK, Session
  <2> QED
    BY <1>0, <2>1, <2>2, SessionType DEF SessionsOK, Session
<1>5. ASSUME NEW t \in Threads,
             \/ AnalyzeReturns(t) \/ DecisionAudited(t) \/ DecisionDenied(t)
             \/ PreviewReturns(t) \/ ExecuteReturns(t) \/ FailureAudited(t)
             \/ NotFound(t) \/ SessionDies(t)
      PROVE  SessionsOK'
  BY <1>r, <1>5 DEF AnalyzeReturns, DecisionAudited, DecisionDenied, PreviewReturns,
     ExecuteReturns, FailureAudited, NotFound, SessionDies, Leave
<1>6. ASSUME NEW t \in Threads, Decide(t) \/ Preview(t) \/ Execute(t) PROVE SessionsOK'
  <2>1. \E op \in Handlers, id \in Ids : Begin(t, op, id)
    BY <1>0, <1>6 DEF Decide, Preview, Execute, Handlers
  <2> QED
    BY <1>b, <2>1
<1>7. ASSUME NEW t \in Threads,
             \/ DecisionLoadsCase(t) \/ DecisionRefused(t)
             \/ ExecuteOrders(t) \/ ExecuteBlocked(t)
      PROVE  SessionsOK'
  <2>1. sess[t].op \in {"approve", "reject", "execute"}
    BY <1>7 DEF DecisionLoadsCase, DecisionRefused, ExecuteOrders, ExecuteBlocked, Deciding, At
  <2>2. sess[t].id \in Ids
    BY <2>1, <1>0 DEF SessionsOK
  <2> QED
    BY <2>1, <2>2, <1>7, <1>g DEF DecisionLoadsCase, DecisionRefused, ExecuteOrders, ExecuteBlocked
<1>8. ASSUME NEW t \in Threads, FailureReads(t) PROVE SessionsOK'
  <2>1. sess[t].op \notin {"none", "analyze"} /\ sess[t].id \in Ids
    BY <1>0, <1>8 DEF SessionsOK, FailureReads
  <2> QED
    BY <2>1, <1>8, <1>g DEF FailureReads
<1>9. ASSUME \/ \E t \in Threads : ExecuteDenied(t) \/ StoreMoves(t)
             \/ DeskMoves \/ FlowTick \/ EditCase \/ UNCHANGED flowVars
      PROVE  SessionsOK'
  <2>1. sess' = sess
    BY <1>9 DEF ExecuteDenied, StoreMoves, DeskMoves, FlowTick, EditCase, flowVars
  <2> QED
    BY <1>0, <2>1 DEF SessionsOK
<1> QED
  BY <1>1, <1>2, <1>3, <1>4, <1>5, <1>6, <1>7, <1>8, <1>9 DEF FlowNext, HandlerStep

\* What FlowTypeOK says of the tables and of the users.
TablesOK ==
    /\ cases \in [Ids -> Fingerprints \cup {None}]
    /\ trail \in [Ids -> SUBSET (Kinds \cap Recorded)]
    /\ told \in SUBSET Ids
    /\ granted \in SUBSET Ids

LEMMA FlowTables ==
    ASSUME FlowTypeOK, [FlowNext]_flowVars
    PROVE  TablesOK'
<1>0. TablesOK /\ call \in [Threads -> Call]
  BY DEF FlowTypeOK, TablesOK, TypeOK
<1>r. ASSUME NEW kind \in Kinds, NEW id, Record(kind, id)
      PROVE  trail' \in [Ids -> SUBSET (Kinds \cap Recorded)]
  BY <1>0, <1>r DEF Record, TablesOK
<1>u. ASSUME trail' \in [Ids -> SUBSET (Kinds \cap Recorded)], UNCHANGED <<cases, told, granted>>
      PROVE  TablesOK'
  BY <1>0, <1>u DEF TablesOK
<1>1. ASSUME NEW t \in Threads, SaveCase(t) PROVE TablesOK'
  BY <1>0, <1>1 DEF SaveCase, TablesOK, Call
<1>2. ASSUME NEW t \in Threads, AuditClaim(t) PROVE TablesOK'
  <2>1. trail' = trail \/ \E kind \in Kinds : Record(kind, call[t].id)
    BY <1>2 DEF AuditClaim, Kinds
  <2> QED
    BY <2>1, <1>2, <1>r, <1>u, <1>0 DEF AuditClaim, TablesOK
<1>3. ASSUME NEW t \in Threads,
             \/ AuditSuperseded(t) \/ DecisionAudited(t) \/ DecisionDenied(t)
             \/ FailureAudited(t) \/ ExecuteDenied(t)
      PROVE  TablesOK'
  <2>1. /\ \E kind \in Kinds : \E id : Record(kind, id)
        /\ UNCHANGED <<cases, told, granted>>
    BY <1>3 DEF AuditSuperseded, DecisionAudited, DecisionDenied, FailureAudited,
       ExecuteDenied, Kinds
  <2> QED
    BY <2>1, <1>r, <1>u
<1>4. ASSUME NEW t \in Threads, ExecuteReturns(t) PROVE TablesOK'
  <2>1. PICK kind : Record(kind, sess[t].id)
    BY <1>4 DEF ExecuteReturns
  <2>2. order[t].answer \in Desk!Answers
    BY <1>4 DEF ExecuteReturns, FlowTypeOK, Desk!TicketTypeOK
  <2>3. Verdict[order[t].answer] \in Kinds
    BY <2>2 DEF Desk!Answers, Verdict, Kinds
  <2> QED
    BY <2>3, <1>4, <1>r, <1>u DEF ExecuteReturns
<1>5. ASSUME NEW t \in Threads, AnalyzeReturns(t) PROVE TablesOK'
  BY <1>0, <1>5 DEF AnalyzeReturns, TablesOK, Call
<1>6. ASSUME NEW t \in Threads, StoreMoves(t) PROVE TablesOK'
  BY <1>0, <1>6 DEF StoreMoves, TablesOK
<1>7. CASE EditCase
  BY <1>0, <1>7, WorkflowAssumption DEF EditCase, TablesOK
<1>8. ASSUME \/ \E t \in Threads :
                \/ Analyze(t) \/ Decide(t) \/ Preview(t) \/ Execute(t)
                \/ DecisionLoadsCase(t) \/ DecisionRefused(t) \/ PreviewReturns(t)
                \/ ExecuteOrders(t) \/ ExecuteBlocked(t) \/ FailureReads(t)
                \/ NotFound(t) \/ SessionDies(t)
             \/ DeskMoves \/ FlowTick \/ UNCHANGED flowVars
      PROVE  TablesOK'
  <2>1. UNCHANGED <<cases, trail, told, granted>>
    BY <1>8 DEF Analyze, Decide, Preview, Execute, DecisionLoadsCase, DecisionRefused,
       PreviewReturns, ExecuteOrders, ExecuteBlocked, FailureReads, NotFound, SessionDies,
       DeskMoves, FlowTick, flowVars
  <2> QED
    BY <1>0, <2>1 DEF TablesOK
<1> QED
  BY <1>1, <1>2, <1>3, <1>4, <1>5, <1>6, <1>7, <1>8 DEF FlowNext, HandlerStep

LEMMA FlowTypeStep == FlowTypeOK /\ [FlowNext]_flowVars => FlowTypeOK'
<1> SUFFICES ASSUME FlowTypeOK, [FlowNext]_flowVars PROVE FlowTypeOK'
  OBVIOUS
<1>1. TypeOK'
  BY FlowUsesStore, TypeStep DEF FlowTypeOK
<1>2. Desk!TicketTypeOK'
  <2>1. Desk!TicketTypeOK
    BY DEF FlowTypeOK
  <2>2. CASE UNCHANGED deskVars
    BY <2>1, <2>2 DEF deskVars, Desk!TicketTypeOK
  <2> QED
    BY <2>1, <2>2, FlowUsesDesk, DeskType
<1>3. SessionsOK' /\ TablesOK'
  BY FlowSessions, FlowTables
<1> QED
  BY <1>1, <1>2, <1>3 DEF FlowTypeOK, SessionsOK, TablesOK

LEMMA FlowStart == FlowInit => Init /\ FlowTypeOK
<1> SUFFICES ASSUME FlowInit PROVE Init /\ FlowTypeOK
  OBVIOUS
<1>1. Init /\ TypeOK
  BY StartRows, TypeFacts DEF FlowInit, Init, TypeOK, GoodCall
<1>2. sess \in [Threads -> Session] /\ \A t \in Threads : sess[t] = Rest
  BY DEF FlowInit, Rest, Session, Handlers
<1>3. Desk!TicketTypeOK
  BY DEF FlowInit, Desk!TicketTypeOK, Desk!NoOrder, Desk!Order
<1>4. \A id \in Ids : trail[id] \in SUBSET ({"GRANTED"} \cap Recorded)
  BY DEF FlowInit
<1>5. trail \in [Ids -> SUBSET (Kinds \cap Recorded)]
  <2>1. DOMAIN trail = Ids /\ trail = [id \in Ids |-> trail[id]]
    BY DEF FlowInit
  <2> QED
    BY <1>4, <2>1 DEF Kinds
<1> QED
  BY <1>1, <1>2, <1>3, <1>5 DEF FlowInit, FlowTypeOK, Rest

\* Every variable of the composed system stays in its type.
THEOREM FlowTypes == FlowSpec => []FlowTypeOK
  BY FlowStart, FlowTypeStep, PTL DEF FlowSpec

\* Every behaviour of the composed system is one of the store, so each theorem
\* about ApprovalStore holds of it.
THEOREM HandlersUseStore == FlowSpec => UsesStore
  BY FlowStart, FlowTypeStep, FlowUsesStore, PTL DEF FlowSpec, UsesStore, Spec

\* In the composed system, too, a purchase request never has two live
\* approvals.
THEOREM FlowOneLiveApproval ==
    ASSUME ~DirectCreate, ~Upgraded PROVE FlowSpec => []SingleLive
<1>1. Spec => []SingleLive
  BY OneLiveApproval
<1> QED
  BY <1>1, HandlersUseStore DEF UsesStore

-----------------------------------------------------------------------------
(* No ticket without a grant.                                              *)
(*                                                                         *)
(* execute reads the approval, loads the case, and posts: three moments,   *)
(* and the request may arrive long after them.  The invariant follows the  *)
(* grant from the row to what the call has seen of it, from there to the   *)
(* order, to requests that outlive their caller, and to the ticket.        *)

\* f is what approval id covers, as far as its row can tell.
Says(id, f) ==
    IF approvals[id].fingerprint # None THEN f = approvals[id].fingerprint
    ELSE f = cases[id] \/ cases[id] \in Edits

Covered(id, f) == id \in granted /\ Says(id, f)

RowsGranted ==
    /\ \A id \in Ids : approvals[id].status = "APPROVED" => id \in granted
    /\ \A id \in granted : approvals[id].status # "ABSENT"

SeenGranted ==
    \A t \in Threads : call[t].op = "get" /\ call[t].seen = "APPROVED" => call[t].id \in granted

ReadsOwn ==
    \A t \in Threads :
        At(t, "execute", "store") => call[t].op = "get" /\ call[t].id = sess[t].id

DeskCovered ==
    /\ \A t \in Threads : order[t].phase = "open" => Covered(order[t].key, order[t].payload)
    /\ \A id \in Ids, f \in Fingerprints : <<id, f>> \in late => Covered(id, f)
    /\ \A id \in Ids : ticket[id] # None => Covered(id, ticket[id])

\* A call that created an approval: the row has a fingerprint.
CreatedFits(c, rows) ==
    c.out = "created" =>
        c.id \in Ids /\ rows[c.id].status # "ABSENT" /\ rows[c.id].fingerprint # None

CallsCreated == \A t \in Threads : CreatedFits(call[t], approvals)

GrantInv == RowsGranted /\ SeenGranted /\ ReadsOwn /\ CallsCreated /\ DeskCovered

\* A row that exists keeps what it covers.
LEMMA RowStays ==
    ASSUME TypeOK, [Next]_vars, NEW id \in Ids, approvals[id].status # "ABSENT"
    PROVE  /\ approvals'[id].status # "ABSENT"
           /\ approvals'[id].fingerprint = approvals[id].fingerprint
<1>2. approvals \in [Ids -> Row]
  BY DEF TypeOK
<1>3. LifecycleStep
  BY LifecycleOfStep
<1>4. CASE approvals'[id] # approvals[id]
  <2>1. /\ approvals'[id].status \in Successors[approvals[id].status]
        /\ approvals'[id] = [approvals[id] EXCEPT !.status = approvals'[id].status]
    BY <1>3, <1>4 DEF LifecycleStep
  <2>2. approvals[id].status \in {"PENDING", "APPROVED", "REJECTED", "EXPIRED", "SUPERSEDED"}
    BY <1>2 DEF Row, Status, Live, Terminal
  <2>3. approvals'[id].status # "ABSENT"
    BY <2>1, <2>2 DEF Successors, Terminal
  <2>4. approvals'[id].fingerprint = approvals[id].fingerprint
    BY <2>1, <1>2 DEF Row
  <2> QED
    BY <2>3, <2>4
<1> QED
  BY <1>4

LEMMA CreatedKept ==
    ASSUME TypeOK, [Next]_vars, NEW c, NEW d, CreatedFits(c, approvals),
           d.out = "created" => c.out = "created" /\ d.id = c.id
    PROVE  CreatedFits(d, approvals')
  BY RowStays DEF CreatedFits

\* The transaction that creates an approval gives it the fingerprint of the
\* decision.
LEMMA CreatedByTx ==
    ASSUME TypeOK, NEW t \in Threads, ReconcileTx(t)
    PROVE  CreatedFits(call'[t], approvals')
<1> DEFINE c == call[t]
           expired == {id \in LiveOf(c.request) : Overdue(id, c.now)}
           live == LiveOf(c.request) \ expired
<1>0. call \in [Threads -> Call] /\ c \in Call /\ c.fingerprint \in Fingerprints
  BY ReconcileShape DEF TypeOK
<1>1. PICK superseded, keep, out :
         /\ CommitReconcile(t, expired, superseded, keep, out)
         /\ out = "created" => /\ keep \in Ids /\ approvals[keep].status = "ABSENT"
                               /\ superseded = live
  <2> DEFINE Commits(superseded, keep, out) ==
                 /\ CommitReconcile(t, expired, superseded, keep, out)
                 /\ out = "created" => /\ keep \in Ids /\ approvals[keep].status = "ABSENT"
                                       /\ superseded = live
  <2>1. CASE c.required /\ \E keep \in Covering(live, c.fingerprint) :
                             CommitReconcile(t, expired, live \ {keep}, keep, "reused")
    <3>1. PICK keep : CommitReconcile(t, expired, live \ {keep}, keep, "reused")
      BY <2>1
    <3> HIDE DEF expired, live, c
    <3>2. Commits(live \ {keep}, keep, "reused")
      BY <3>1
    <3> QED
      BY <3>2
  <2>2. CASE \E keep \in Ids : /\ approvals[keep].status = "ABSENT"
                              /\ CommitReconcile(t, expired, live, keep, "created")
    <3>1. PICK keep \in Ids : /\ approvals[keep].status = "ABSENT"
                              /\ CommitReconcile(t, expired, live, keep, "created")
      BY <2>2
    <3> HIDE DEF expired, live, c
    <3>2. Commits(live, keep, "created")
      BY <3>1
    <3> QED
      BY <3>2
  <2>3. CASE CommitReconcile(t, expired, live, None, "unneeded")
    <3> HIDE DEF expired, live, c
    <3>1. Commits(live, None, "unneeded")
      BY <2>3
    <3> QED
      BY <3>1
  <2>4. \/ c.required /\ \E keep \in Covering(live, c.fingerprint) :
                          CommitReconcile(t, expired, live \ {keep}, keep, "reused")
        \/ \E keep \in Ids : /\ approvals[keep].status = "ABSENT"
                            /\ CommitReconcile(t, expired, live, keep, "created")
        \/ CommitReconcile(t, expired, live, None, "unneeded")
    BY Zenon DEF ReconcileTx
  <2> QED
    BY <2>1, <2>2, <2>3, <2>4
<1>2. call'[t].id = keep /\ call'[t].out = out
  BY <1>0, <1>1 DEF CommitReconcile, Continue, Call
<1>3. ASSUME out = "created"
      PROVE  approvals'[keep] = NewRow(c.request, c.fingerprint, c.now)
  <2>1. keep \in Ids /\ keep \notin expired /\ keep \notin live
    BY <1>1, <1>3 DEF LiveOf, Live
  <2>2. approvals' = Reconciled(c, expired, live, keep, TRUE)
    BY <1>1, <1>3 DEF CommitReconcile
  <2> HIDE DEF expired, live
  <2> QED
    BY <2>1, <2>2 DEF Reconciled
<1>4. ASSUME out = "created"
      PROVE  keep \in Ids /\ approvals'[keep].status # "ABSENT"
             /\ approvals'[keep].fingerprint # None
  BY <1>0, <1>1, <1>3, <1>4, WorkflowAssumption DEF NewRow
<1> QED
  BY <1>2, <1>4 DEF CreatedFits

LEMMA CallsCreatedStep ==
    ASSUME TypeOK, CallsCreated, [Next]_vars
    PROVE  CallsCreated'
<1>0. call \in [Threads -> Call]
  BY DEF TypeOK
<1>c. ASSUME NEW t \in Threads PROVE call[t] \in Call /\ \A c : Continue(t, c) => call'[t] = c
  BY <1>0 DEF Continue
<1>1. ASSUME NEW t \in Threads, Enter(t) \/ StoreStep(t) \/ Return(t) \/ Abort(t)
      PROVE  CallsCreated'
  <2>1. \A u \in Threads \ {t} : call'[u] = call[u]
    BY <1>0, <1>1, OwnStep DEF Continue
  <2>2. CASE call'[t].out = "created" => call[t].out = "created" /\ call'[t].id = call[t].id
    BY <2>1, <2>2, CreatedKept DEF CallsCreated
  <2>3. CASE ReconcileTx(t)
    BY <2>1, <2>3, CreatedKept, CreatedByTx DEF CallsCreated
  <2>4. Enter(t) => call'[t].out # "created"
    BY <1>c, Entered
  <2>5. Return(t) \/ Abort(t) => call'[t].out # "created"
    BY <1>c DEF Return, Abort, Idle
  <2>6. ReadRow(t) \/ ExpireWins(t) \/ Reread(t) => call'[t].out # "created"
    <3>1. ReadRow(t) => call'[t].out # "created"
      BY <1>0 DEF Continue, ReadRow, Call
    <3>2. ExpireWins(t) => call'[t].out # "created"
      BY <1>0 DEF Continue, ExpireWins, Call
    <3>3. Reread(t) => call'[t].out # "created"
      BY <1>0 DEF Continue, Reread, Call
    <3> QED
      BY <3>1, <3>2, <3>3
  <2>7. ReadOverdue(t) \/ ExpireLoses(t) \/ AuditExpiry(t) =>
           call'[t].out = call[t].out /\ call'[t].id = call[t].id
    <3>1. ReadOverdue(t) \/ ExpireLoses(t) =>
             call'[t].out = call[t].out /\ call'[t].id = call[t].id
      BY <1>0 DEF Continue, ReadOverdue, ExpireLoses, Call
    <3>2. ASSUME AuditExpiry(t) PROVE call'[t].out = call[t].out /\ call'[t].id = call[t].id
      <4>1. PICK left, pc : Continue(t, [call[t] EXCEPT !.todo = left, !.pc = pc])
        BY <3>2 DEF AuditExpiry
      <4> QED
        BY <1>0, <4>1 DEF Continue, Call
    <3> QED
      BY <3>1, <3>2
  <2>8. DecisionTx(t) => call'[t].out # "created"
    <3>1. DecisionNotFound(t) => call'[t].out # "created"
      BY <1>0 DEF Continue, DecisionNotFound, Call
    <3>4. DecisionInvalid(t) => call'[t].out # "created"
      BY <1>0 DEF Continue, DecisionInvalid, Call
    <3>2. DecisionExpires(t) => call'[t].out # "created"
      BY <1>0 DEF Continue, DecisionExpires, Call
    <3>3. DecisionCommits(t) => call'[t].out # "created"
      BY <1>0 DEF Continue, DecisionCommits, Call
    <3> QED
      BY <3>1, <3>2, <3>3, <3>4 DEF DecisionTx
  <2> QED
    BY <1>1, <2>2, <2>3, <2>4, <2>5, <2>6, <2>7, <2>8 DEF StoreStep
<1>2. ASSUME CreateApproval \/ Tick \/ UNCHANGED vars PROVE CallsCreated'
  <2>1. call' = call
    BY <1>2 DEF CreateApproval, Tick, vars
  <2> QED
    BY <2>1, CreatedKept DEF CallsCreated
<1> QED
  BY <1>1, <1>2 DEF Next

\* What a call of get_approval knows, it read from the row.
LEMMA GetSteps ==
    ASSUME TypeOK, NEW t \in Threads, StoreStep(t), NEW u \in Threads
    PROVE  /\ call'[u].op = call[u].op
           /\ call[u].op = "get" =>
                 /\ call'[u].id = call[u].id
                 /\ call'[u].seen = "APPROVED" =>
                       \/ call[u].seen = "APPROVED"
                       \/ approvals[call[u].id].status = "APPROVED"
<1>0. call \in [Threads -> Call]
  BY DEF TypeOK
<1>1. CASE u # t
  BY <1>0, <1>1 DEF StoreStep, ReconcileTx, CommitReconcile, DecisionTx, DecisionNotFound,
     DecisionInvalid, DecisionExpires, DecisionCommits, ReadRow, ReadOverdue, ExpireWins,
     ExpireLoses, Reread, AuditExpiry, Continue
<1>2. CASE u = t
  <2>1. CASE ReconcileTx(t)
    <3>1. call[t].op = "reconcile"
      BY <2>1 DEF ReconcileTx, InCall
    <3>2. PICK expired, superseded, keep, out : CommitReconcile(t, expired, superseded, keep, out)
      BY <2>1 DEF ReconcileTx
    <3>3. call'[t] = [call[t] EXCEPT !.pc = AfterTx(expired), !.id = keep, !.todo = expired,
                                     !.superseded = superseded, !.out = out]
      BY <3>2, <1>0 DEF CommitReconcile, Continue
    <3>4. call'[t].op = call[t].op
      BY <3>3, <1>0 DEF Call
    <3> QED
      BY <3>1, <3>4, <1>2
  <2>2. CASE DecisionTx(t)
    <3>1. call[t].op \in {"approve", "reject"}
      BY <2>2 DEF DecisionTx, DecisionNotFound, DecisionInvalid, DecisionExpires,
         DecisionCommits, InDecision
    <3>2. call'[t].op = call[t].op
      BY <2>2, <1>0 DEF DecisionTx, DecisionNotFound, DecisionInvalid, DecisionExpires,
         DecisionCommits, Continue, Call
    <3> QED
      BY <3>1, <3>2, <1>2
  <2>3. CASE ReadRow(t)
    <3>1. call'[t] = [call[t] EXCEPT !.pc = "done", !.seen = approvals[call[t].id].status,
                          !.out = IF approvals[call[t].id].status = "ABSENT"
                                  THEN "not_found" ELSE "ok"]
      BY <2>3, <1>0 DEF ReadRow, Continue
    <3> QED
      BY <3>1, <1>0, <1>2 DEF Call
  <2>7. CASE ReadOverdue(t)
    <3>1. call'[t] = [call[t] EXCEPT !.pc = "expire", !.now = clock]
      BY <2>7, <1>0 DEF ReadOverdue, Continue
    <3> QED
      BY <3>1, <1>0, <1>2 DEF Call
  <2>4. CASE ExpireWins(t)
    <3>1. call'[t] = [call[t] EXCEPT !.pc = "audit", !.todo = {call[t].id},
                                     !.seen = "EXPIRED", !.out = "ok"]
      BY <2>4, <1>0 DEF ExpireWins, Continue
    <3> QED
      BY <3>1, <1>0, <1>2 DEF Call
  <2>8. CASE ExpireLoses(t)
    <3>1. call'[t] = [call[t] EXCEPT !.pc = "reread"]
      BY <2>8, <1>0 DEF ExpireLoses, Continue
    <3> QED
      BY <3>1, <1>0, <1>2 DEF Call
  <2>5. CASE Reread(t)
    BY <2>5, <1>0, <1>2 DEF Reread, Continue, Call
  <2>6. CASE AuditExpiry(t)
    BY <2>6, <1>0, <1>2 DEF AuditExpiry, Continue, Call
  <2> QED
    BY <2>1, <2>2, <2>3, <2>4, <2>5, <2>6, <2>7, <2>8 DEF StoreStep
<1> QED
  BY <1>1, <1>2

\* A step of the composed system moves a store call, or leaves the rows and
\* what is granted alone and at most starts or ends one.
LEMMA FlowCalls ==
    ASSUME FlowTypeOK, [FlowNext]_flowVars
    PROVE  \/ \E t \in Threads : StoreMoves(t)
           \/ /\ approvals' = approvals /\ granted' = granted
              /\ \/ call' = call
                 \/ \E t \in Threads : \E c : Continue(t, c) /\ c.seen = "ABSENT"
<1>1. CASE \E t \in Threads : StoreMoves(t)
  BY <1>1
<1>2. ASSUME ~\E t \in Threads : StoreMoves(t)
      PROVE  granted' = granted
  BY <1>2 DEF FlowNext, HandlerStep, SaveCase, AuditClaim, AuditSuperseded, AnalyzeReturns,
     DecisionLoadsCase, DecisionAudited, DecisionDenied, DecisionRefused, PreviewReturns,
     ExecuteOrders, ExecuteReturns, ExecuteBlocked, FailureReads, FailureAudited, NotFound,
     Analyze, Decide, Preview, Execute, ExecuteDenied, SessionDies, DeskMoves, FlowTick,
     EditCase, flowVars
<1> DEFINE Stops == /\ approvals' = approvals
                    /\ \/ call' = call
                       \/ \E t \in Threads : \E c : Continue(t, c) /\ c.seen = "ABSENT"
<1>3. ASSUME NEW t \in Threads, Return(t) \/ Abort(t) PROVE Stops
  BY <1>3 DEF Return, Abort, Idle
<1>4. ASSUME NEW t \in Threads, NEW r, NEW f, NEW required, StartReconcile(t, r, f, required)
      PROVE  Stops
  <2> DEFINE c == [Idle EXCEPT !.op = "reconcile", !.pc = "begin", !.request = r,
                     !.fingerprint = f, !.required = required, !.now = clock]
  <2>1. Continue(t, c) /\ approvals' = approvals
    BY <1>4 DEF StartReconcile
  <2>2. c.seen = "ABSENT"
    BY DEF Idle
  <2> QED
    BY <2>1, <2>2
<1>5. ASSUME NEW t \in Threads, NEW op, NEW id, NEW authorised, StartDecision(t, op, id, authorised)
      PROVE  Stops
  <2> DEFINE c == [Idle EXCEPT !.op = op, !.id = id,
                     !.pc = IF authorised THEN "begin" ELSE "done",
                     !.out = IF authorised THEN "none" ELSE "denied",
                     !.now = IF authorised THEN clock ELSE 0]
  <2>1. Continue(t, c) /\ approvals' = approvals
    BY <1>5 DEF StartDecision
  <2>2. c.seen = "ABSENT"
    BY DEF Idle
  <2> QED
    BY <2>1, <2>2
<1>6. ASSUME NEW t \in Threads, NEW id, StartGet(t, id) PROVE Stops
  <2> DEFINE c == [Idle EXCEPT !.op = "get", !.pc = "read", !.id = id]
  <2>1. Continue(t, c) /\ approvals' = approvals
    BY <1>6 DEF StartGet
  <2>2. c.seen = "ABSENT"
    BY DEF Idle
  <2> QED
    BY <2>1, <2>2
<1>7. UNCHANGED vars \/ Tick => Stops
  BY DEF vars, Tick
<1>8. ASSUME NEW t \in Threads, Enter(t) PROVE Stops
  BY <1>8, <1>4, <1>5, <1>6 DEF Enter
<1>9. ASSUME ~\E t \in Threads : StoreMoves(t) PROVE Stops
  <2>1. ASSUME NEW t \in Threads, HandlerStep(t) PROVE Stops
    BY <2>1, HandlerUsesStore, <1>3, <1>7, <1>8
  <2>2. ASSUME NEW t \in Threads, Analyze(t) PROVE Stops
    BY <2>2, <1>4 DEF Analyze
  <2>3. ASSUME NEW t \in Threads, Decide(t) PROVE Stops
    BY <2>3, <1>5 DEF Decide
  <2>4. ASSUME NEW t \in Threads, Preview(t) \/ Execute(t) PROVE Stops
    BY <2>4, <1>6 DEF Preview, Execute
  <2>5. ASSUME NEW t \in Threads, SessionDies(t) PROVE Stops
    BY <2>5, <1>3, <1>7 DEF SessionDies
  <2>6. ASSUME \/ \E t \in Threads : ExecuteDenied(t)
               \/ DeskMoves \/ FlowTick \/ EditCase \/ UNCHANGED flowVars
        PROVE  Stops
    <3>1. UNCHANGED vars \/ Tick
      BY <2>6 DEF ExecuteDenied, DeskMoves, FlowTick, EditCase, flowVars
    <3> QED
      BY <3>1, <1>7
  <2> QED
    BY <1>9, <2>1, <2>2, <2>3, <2>4, <2>5, <2>6 DEF FlowNext
<1> QED
  BY <1>1, <1>2, <1>9

\* A grant and what it covers stay for good.
LEMMA GrantsStay ==
    ASSUME FlowTypeOK, [FlowNext]_flowVars, NEW id \in Ids, id \in granted,
           approvals[id].status # "ABSENT"
    PROVE  /\ id \in granted'
           /\ approvals'[id].status # "ABSENT"
           /\ approvals'[id].fingerprint = approvals[id].fingerprint
<1>1. id \in granted'
  BY FlowCalls DEF StoreMoves
<1> QED
  BY <1>1, FlowUsesStore, RowStays DEF FlowTypeOK

\* The case of a row without a fingerprint is only ever edited.
LEMMA CaseStays ==
    ASSUME FlowTypeOK, CallsCreated, [FlowNext]_flowVars,
           NEW id \in Ids, approvals[id].fingerprint = None
    PROVE  cases'[id] = cases[id] \/ cases'[id] \in Edits
<1>0. cases \in [Ids -> Fingerprints \cup {None}]
  BY DEF FlowTypeOK
<1>1. CASE \E t \in Threads : SaveCase(t)
  <2>1. PICK t \in Threads : SaveCase(t)
    BY <1>1
  <2>2. /\ cases' = [cases EXCEPT ![call[t].id] = call[t].fingerprint]
        /\ call[t].out = "created"
    BY <2>1 DEF SaveCase, Answered
  <2>3. call[t].id # id
    BY <2>2 DEF CallsCreated, CreatedFits
  <2> QED
    BY <1>0, <2>2, <2>3
<1>2. CASE EditCase
  BY <1>0, <1>2 DEF EditCase
<1>3. CASE ~EditCase /\ ~\E t \in Threads : SaveCase(t)
  BY <1>3 DEF FlowNext, HandlerStep, AuditClaim, AuditSuperseded, AnalyzeReturns,
     DecisionLoadsCase, DecisionAudited, DecisionDenied, DecisionRefused, PreviewReturns,
     ExecuteOrders, ExecuteBlocked, ExecuteReturns, FailureReads, FailureAudited, NotFound,
     Analyze, Decide, Preview, Execute, ExecuteDenied, StoreMoves, SessionDies, DeskMoves,
     FlowTick, flowVars
<1> QED
  BY <1>1, <1>2, <1>3

LEMMA CoveredStays ==
    ASSUME FlowTypeOK, RowsGranted, CallsCreated, [FlowNext]_flowVars,
           NEW id \in Ids, NEW f, Covered(id, f)
    PROVE  Covered(id, f)'
<1>1. /\ id \in granted' /\ approvals'[id].fingerprint = approvals[id].fingerprint
  BY GrantsStay DEF Covered, RowsGranted
<1>2. CASE approvals[id].fingerprint # None
  BY <1>1, <1>2 DEF Covered, Says
<1>3. CASE approvals[id].fingerprint = None
  BY <1>1, <1>3, CaseStays DEF Covered, Says
<1> QED
  BY <1>2, <1>3

LEMMA RowsGrantedStep ==
    ASSUME FlowTypeOK, RowsGranted, [FlowNext]_flowVars
    PROVE  RowsGranted'
<1>0. granted \in SUBSET Ids
  BY DEF FlowTypeOK
<1>1. \A id \in Ids : approvals'[id].status = "APPROVED" => id \in granted'
  BY FlowCalls DEF StoreMoves, RowsGranted
<1>2. ASSUME NEW id \in granted' PROVE approvals'[id].status # "ABSENT"
  <2>1. CASE id \in granted
    BY <1>0, <2>1, GrantsStay DEF RowsGranted
  <2>2. CASE id \notin granted
    <3>1. approvals'[id].status = "APPROVED"
      BY <2>2, <1>2, FlowCalls DEF StoreMoves
    <3> QED
      BY <3>1
  <2> QED
    BY <2>1, <2>2
<1> QED
  BY <1>1, <1>2 DEF RowsGranted

LEMMA SeenGrantedStep ==
    ASSUME FlowTypeOK, RowsGranted, SeenGranted, [FlowNext]_flowVars
    PROVE  SeenGranted'
<1> SUFFICES ASSUME NEW u \in Threads, call'[u].op = "get", call'[u].seen = "APPROVED"
             PROVE  call'[u].id \in granted'
  BY DEF SeenGranted
<1>0. call \in [Threads -> Call] /\ TypeOK
  BY DEF FlowTypeOK, TypeOK
<1>1. CASE \E t \in Threads : StoreMoves(t)
  <2>1. PICK t \in Threads : StoreMoves(t)
    BY <1>1
  <2>2. /\ call[u].op = "get" /\ call'[u].id = call[u].id
        /\ call[u].seen = "APPROVED" \/ approvals[call[u].id].status = "APPROVED"
    BY <2>1, <1>0, GetSteps DEF StoreMoves
  <2>3. call[u].id \in Ids
    BY <1>0, <2>2 DEF TypeOK
  <2>4. call[u].id \in granted
    BY <2>2, <2>3 DEF SeenGranted, RowsGranted
  <2> QED
    BY <2>1, <2>2, <2>4 DEF StoreMoves
<1>2. CASE granted' = granted /\ call' = call
  BY <1>2 DEF SeenGranted
<1>3. ASSUME granted' = granted, NEW t \in Threads, NEW c, Continue(t, c), c.seen = "ABSENT"
      PROVE  call'[u].id \in granted'
  <2>1. u # t /\ call'[u] = call[u]
    BY <1>0, <1>3 DEF Continue
  <2> QED
    BY <2>1, <1>3 DEF SeenGranted
<1> QED
  BY <1>1, <1>2, <1>3, FlowCalls

\* An execute that is in its first call started in it, or was in it before.
LEMMA ReadsOwnStep ==
    ASSUME FlowTypeOK, ReadsOwn, [FlowNext]_flowVars
    PROVE  ReadsOwn'
<1> SUFFICES ASSUME NEW u \in Threads, At(u, "execute", "store")'
             PROVE  call'[u].op = "get" /\ call'[u].id = sess'[u].id
  BY DEF ReadsOwn
<1>0. call \in [Threads -> Call] /\ TypeOK /\ sess \in [Threads -> Session]
  BY DEF FlowTypeOK, TypeOK
<1>e. sess'[u].op = "execute" /\ sess'[u].pc = "store"
  BY DEF At
\* The step does not touch the session and the call of u.
<1>k. ASSUME sess'[u] = sess[u], call'[u] = call[u]
      PROVE  call'[u].op = "get" /\ call'[u].id = sess'[u].id
  BY <1>e, <1>k DEF ReadsOwn, At
\* A step of another thread, or one that takes the session elsewhere.
<1>o. ASSUME NEW t \in Threads, NEW s, sess' = [sess EXCEPT ![t] = s],
             s.op # "execute" \/ s.pc # "store",
             call' = call \/ \E c : Continue(t, c)
      PROVE  call'[u].op = "get" /\ call'[u].id = sess'[u].id
  BY <1>0, <1>e, <1>k, <1>o DEF Continue
<1>g. ASSUME NEW t \in Threads, NEW pc, pc # "store", Goto(t, pc),
             call' = call \/ \E c : Continue(t, c)
      PROVE  call'[u].op = "get" /\ call'[u].id = sess'[u].id
  <2>1. [sess[t] EXCEPT !.pc = pc].pc = pc
    BY <1>0 DEF Session
  <2> QED
    BY <2>1, <1>g, <1>o DEF Goto
<1>1. ASSUME NEW t \in Threads, StoreMoves(t)
      PROVE  call'[u].op = "get" /\ call'[u].id = sess'[u].id
  BY <1>0, <1>1, <1>e, GetSteps DEF StoreMoves, ReadsOwn, At
<1>2. ASSUME NEW t \in Threads, Execute(t)
      PROVE  call'[u].op = "get" /\ call'[u].id = sess'[u].id
  <2>1. PICK id \in told : Begin(t, "execute", id) /\ StartGet(t, id)
    BY <1>2 DEF Execute
  <2>2. CASE u = t
    BY <2>1, <2>2, <1>0 DEF Begin, StartGet, Continue, Idle
  <2>3. CASE u # t
    BY <2>1, <2>3, <1>0, <1>k DEF Begin, StartGet, Continue
  <2> QED
    BY <2>2, <2>3
<1>3. ASSUME NEW t \in Threads, Analyze(t) \/ Decide(t) \/ Preview(t)
      PROVE  call'[u].op = "get" /\ call'[u].id = sess'[u].id
  <2>1. \E op \in {"analyze", "approve", "reject", "preview"} : \E id :
            sess' = [sess EXCEPT ![t] = [op |-> op, pc |-> "store", id |-> id, todo |-> {}]]
    BY <1>3 DEF Analyze, Decide, Preview, Begin
  <2>2. \E c : Continue(t, c)
    BY <1>3 DEF Analyze, Decide, Preview, StartReconcile, StartDecision, StartGet
  <2> QED
    BY <2>1, <2>2, <1>o
<1>4. ASSUME NEW t \in Threads, Leave(t) \/ SessionDies(t)
      PROVE  call'[u].op = "get" /\ call'[u].id = sess'[u].id
  <2>1. sess' = [sess EXCEPT ![t] = Rest] /\ Rest.op # "execute"
    BY <1>4 DEF Leave, SessionDies, Rest
  <2>2. call' = call \/ \E c : Continue(t, c)
    BY <1>4 DEF Leave, SessionDies, Return, Abort, vars
  <2> QED
    BY <2>1, <2>2, <1>o
<1>5. ASSUME NEW t \in Threads,
             \/ SaveCase(t) \/ DecisionLoadsCase(t) \/ DecisionRefused(t)
             \/ ExecuteOrders(t) \/ ExecuteBlocked(t) \/ FailureReads(t)
      PROVE  call'[u].op = "get" /\ call'[u].id = sess'[u].id
  <2>1. \E pc \in {"saved", "loaded", "failed", "ordered", "reread"} : Goto(t, pc)
    BY <1>5 DEF SaveCase, DecisionLoadsCase, DecisionRefused, ExecuteOrders, ExecuteBlocked,
       FailureReads
  <2>2. call' = call \/ \E c : Continue(t, c)
    BY <1>5 DEF SaveCase, DecisionLoadsCase, DecisionRefused, ExecuteOrders, ExecuteBlocked,
       FailureReads, Return, StartGet, vars
  <2> QED
    BY <2>1, <2>2, <1>g
<1>6. ASSUME NEW t \in Threads, AuditClaim(t) \/ AuditSuperseded(t)
      PROVE  call'[u].op = "get" /\ call'[u].id = sess'[u].id
  <2>1. sess[t].op = "analyze" /\ call' = call
    BY <1>6 DEF AuditClaim, AuditSuperseded, At, vars
  <2>2. /\ \A v \in Threads \ {t} : sess'[v] = sess[v]
        /\ sess'[t].op = "analyze"
    BY <1>6, <1>0, <2>1 DEF AuditClaim, AuditSuperseded, Session
  <2> QED
    BY <2>1, <2>2, <1>e, <1>k
<1>7. ASSUME \/ \E t \in Threads : ExecuteDenied(t)
             \/ DeskMoves \/ FlowTick \/ EditCase \/ UNCHANGED flowVars
      PROVE  call'[u].op = "get" /\ call'[u].id = sess'[u].id
  <2>1. sess' = sess /\ call' = call
    BY <1>7 DEF ExecuteDenied, DeskMoves, FlowTick, Tick, EditCase, flowVars, vars
  <2> QED
    BY <2>1, <1>k
<1>8. ASSUME NEW t \in Threads,
             \/ AnalyzeReturns(t) \/ DecisionAudited(t) \/ DecisionDenied(t)
             \/ PreviewReturns(t) \/ ExecuteReturns(t) \/ FailureAudited(t) \/ NotFound(t)
      PROVE  Leave(t)
  BY <1>8 DEF AnalyzeReturns, DecisionAudited, DecisionDenied, PreviewReturns, ExecuteReturns,
     FailureAudited, NotFound
<1> QED
  BY <1>1, <1>2, <1>3, <1>4, <1>5, <1>6, <1>7, <1>8 DEF FlowNext, HandlerStep

\* An order is placed for what the approval that was read covers.
LEMMA OrderIsCovered ==
    ASSUME FlowTypeOK, GrantInv, NEW t \in Threads, ExecuteOrders(t)
    PROVE  \E id \in Ids, f \in Fingerprints : Desk!Place(t, id, f) /\ Covered(id, f)
<1>1. sess[t].id \in Ids /\ cases[sess[t].id] \in Fingerprints
  BY DEF ExecuteOrders, At, FlowTypeOK
<1>2. sess[t].id \in granted
  BY DEF ExecuteOrders, GrantInv, ReadsOwn, SeenGranted
<1>3. Says(sess[t].id, cases[sess[t].id])
  BY DEF ExecuteOrders, SnapshotFits, Says
<1>4. Desk!Place(t, sess[t].id, cases[sess[t].id])
  BY DEF ExecuteOrders
<1> QED
  BY <1>1, <1>2, <1>3, <1>4 DEF Covered

\* The desk issues what was ordered: nothing new is ordered but what is
\* covered, late requests come from orders, tickets from both.
LEMMA DeskCoveredStep ==
    ASSUME FlowTypeOK, GrantInv, [FlowNext]_flowVars
    PROVE  DeskCovered'
<1> DEFINE Good == /\ \A t \in Threads : order'[t].phase = "open" =>
                         /\ order'[t].key \in Ids
                         /\ Covered(order'[t].key, order'[t].payload)
                   /\ \A id \in Ids, f \in Fingerprints : <<id, f>> \in late' => Covered(id, f)
                   /\ \A id \in Ids : ticket'[id] # None => Covered(id, ticket'[id])
<1>0. /\ ticket \in [Ids -> Fingerprints \cup {None}]
      /\ order \in [Threads -> Desk!Order]
      /\ \A t \in Threads : order[t].phase = "open" =>
            order[t].key \in Ids /\ order[t].payload \in Fingerprints
  BY DEF FlowTypeOK, Desk!TicketTypeOK
<1>c. DeskCovered
  BY DEF GrantInv
<1>1. ASSUME NEW t \in Threads, NEW id \in Ids, NEW f \in Fingerprints,
             Desk!Place(t, id, f), Covered(id, f)
      PROVE  Good
  <2>1. \A u \in Threads : u # t => order'[u] = order[u]
    BY <1>1, <1>0 DEF Desk!Place
  <2>2. order'[t].key = id /\ order'[t].payload = f
    BY <1>1, <1>0 DEF Desk!Place, Desk!NoOrder
  <2>3. ticket' = ticket /\ late' = late
    BY <1>1 DEF Desk!Place
  <2> QED
    BY <2>1, <2>2, <2>3, <1>1, <1>0, <1>c DEF DeskCovered
<1>2. ASSUME NEW t \in Threads, Desk!Issue(t) PROVE Good
  <2>1. /\ order[t].phase = "open" /\ late' = late
        /\ ticket' = [ticket EXCEPT ![order[t].key] = order[t].payload]
    BY <1>2 DEF Desk!Issue
  <2>2. \A u \in Threads : /\ order'[u].phase = order[u].phase
                            /\ order'[u].key = order[u].key
                            /\ order'[u].payload = order[u].payload
    BY <1>2, <1>0 DEF Desk!Issue, Desk!Order
  <2>3. \A id \in Ids : ticket'[id] # None => Covered(id, ticket'[id])
    BY <2>1, <1>0, <1>c DEF DeskCovered
  <2> QED
    BY <2>1, <2>2, <2>3, <1>0, <1>c DEF DeskCovered
<1>3. ASSUME NEW t \in Threads,
             Desk!Abandon(t) \/ Desk!Collect(t) \/ \E a \in Desk!Answers : Desk!Answer(t, a)
      PROVE  Good
  <2>1. \A u \in Threads : order'[u].phase = "open" => order'[u] = order[u]
    BY <1>3, <1>0 DEF Desk!Abandon, Desk!Collect, Desk!Answer, Desk!NoOrder, Desk!Order
  <2>2. ticket' = ticket
    BY <1>3 DEF Desk!Abandon, Desk!Collect, Desk!Answer
  <2>3. \/ late' = late
        \/ order[t].phase = "open" /\ late' = late \cup {<<order[t].key, order[t].payload>>}
    BY <1>3 DEF Desk!Abandon, Desk!Collect, Desk!Answer, Desk!Contents
  <2>4. \A id \in Ids, f \in Fingerprints : <<id, f>> \in late' => Covered(id, f)
    BY <2>3, <1>c DEF DeskCovered
  <2> QED
    BY <2>1, <2>2, <2>4, <1>0, <1>c DEF DeskCovered
<1>4. ASSUME NEW id \in Ids, NEW f \in Fingerprints, Desk!IssueLate(id, f) \/ Desk!Forget(id, f)
      PROVE  Good
  <2>1. <<id, f>> \in late /\ late' \in SUBSET late /\ order' = order
    BY <1>4 DEF Desk!IssueLate, Desk!Forget
  <2>2. ticket' = ticket \/ ticket' = [ticket EXCEPT ![id] = f]
    BY <1>4 DEF Desk!IssueLate, Desk!Forget
  <2> QED
    BY <2>1, <2>2, <1>0, <1>c DEF DeskCovered
<1>5. ASSUME UNCHANGED deskVars PROVE Good
  <2>1. order' = order /\ late' = late /\ ticket' = ticket
    BY <1>5 DEF deskVars
  <2> QED
    BY <2>1, <1>0, <1>c DEF DeskCovered
<1>6. Good
  <2> HIDE DEF Good
  <2>1. ASSUME NEW t \in Threads, ExecuteOrders(t) PROVE Good
    BY <2>1, <1>1, OrderIsCovered
  <2>2. ASSUME NEW t \in Threads, ExecuteReturns(t) PROVE Good
    BY <2>2, <1>3 DEF ExecuteReturns
  <2>3. ASSUME NEW t \in Threads, SessionDies(t) PROVE Good
    <3>1. Desk!Abandon(t) \/ Desk!Collect(t) \/ UNCHANGED deskVars
      BY <2>3 DEF SessionDies
    <3> QED
      BY <3>1, <1>3, <1>5
  <2>4. CASE DeskMoves
    BY <2>4, <1>2, <1>3, <1>4 DEF DeskMoves
  <2>5. ASSUME NEW t \in Threads, HandlerStep(t), ~ExecuteOrders(t), ~ExecuteReturns(t)
        PROVE  UNCHANGED deskVars
    BY <2>5 DEF HandlerStep, SaveCase, AuditClaim, AuditSuperseded, AnalyzeReturns,
       DecisionLoadsCase, DecisionAudited, DecisionDenied, DecisionRefused, PreviewReturns,
       ExecuteBlocked, FailureReads, FailureAudited, NotFound
  <2>6. ASSUME NEW t \in Threads,
               \/ Analyze(t) \/ Decide(t) \/ Preview(t) \/ Execute(t)
               \/ ExecuteDenied(t) \/ StoreMoves(t)
        PROVE  UNCHANGED deskVars
    BY <2>6 DEF Analyze, Decide, Preview, Execute, ExecuteDenied, StoreMoves
  <2>7. FlowTick \/ EditCase \/ UNCHANGED flowVars => UNCHANGED deskVars
    BY DEF FlowTick, EditCase, flowVars, deskVars
  <2> QED
    BY <1>5, <2>1, <2>2, <2>3, <2>4, <2>5, <2>6, <2>7 DEF FlowNext
<1>7. RowsGranted /\ CallsCreated
  BY DEF GrantInv
<1>8. \A id \in Ids : \A f : Covered(id, f) => Covered(id, f)'
  BY <1>7, CoveredStays
<1>9. ASSUME NEW id \in Ids, NEW f, Covered(id, f)
      PROVE  /\ id \in granted'
             /\ IF approvals'[id].fingerprint # None THEN f = approvals'[id].fingerprint
                ELSE f = cases'[id] \/ cases'[id] \in Edits
  BY <1>7, <1>9, CoveredStays DEF Covered, Says
<1> QED
  BY <1>6, <1>9 DEF DeskCovered, Covered, Says

LEMMA GrantInvStep == FlowTypeOK /\ GrantInv /\ [FlowNext]_flowVars => GrantInv'
<1>1. FlowTypeOK /\ CallsCreated /\ [FlowNext]_flowVars => CallsCreated'
  BY FlowUsesStore, CallsCreatedStep DEF FlowTypeOK
<1> QED
  BY <1>1, RowsGrantedStep, SeenGrantedStep, ReadsOwnStep, DeskCoveredStep DEF GrantInv

LEMMA GrantStart == FlowInit => GrantInv
<1> SUFFICES ASSUME FlowInit PROVE GrantInv
  OBVIOUS
<1>1. granted = {id \in Ids : approvals[id].status = "APPROVED"}
  BY DEF FlowInit
<1>2. RowsGranted
  BY <1>1 DEF RowsGranted
<1>3. \A t \in Threads : call[t] = Idle /\ sess[t] = Rest
  BY DEF FlowInit, Init
<1>4. SeenGranted /\ ReadsOwn /\ CallsCreated
  BY <1>3 DEF SeenGranted, ReadsOwn, CallsCreated, CreatedFits, At, Rest, Idle
<1>5. DeskCovered
  BY DEF FlowInit, DeskCovered, Desk!NoOrder
<1> QED
  BY <1>2, <1>4, <1>5 DEF GrantInv

\* MockDesk never holds a ticket for an approval that no finance approver
\* granted, nor one that says something else than what was approved: for any
\* number of users, retries, late requests, crashes, edited cases and rows
\* of an earlier version (whose tickets say what an unedited case says).
THEOREM TicketsNeedGrants == FlowSpec => []TicketNeedsGrant
<1>1. GrantInv => TicketNeedsGrant
  BY DEF GrantInv, DeskCovered, Covered, Says, TicketNeedsGrant
<1> QED
  BY <1>1, FlowStart, FlowTypeStep, GrantStart, GrantInvStep, PTL DEF FlowSpec
-----------------------------------------------------------------------------
(* The trail reports what has happened.                                    *)
(*                                                                         *)
(* An event is written steps after the row changed, from what the store    *)
(* call of the session was told.  The invariant ties a session to its      *)
(* call, and what the call was told to the row as it is now.               *)

\* What one thread does.
ThreadStep(t) ==
    \/ Analyze(t) \/ Decide(t) \/ Preview(t) \/ Execute(t)
    \/ ExecuteDenied(t) \/ HandlerStep(t) \/ StoreMoves(t) \/ SessionDies(t)

\* The handlers' steps that end the session.
Leaves(t) ==
    \/ AnalyzeReturns(t) \/ DecisionAudited(t) \/ DecisionDenied(t)
    \/ PreviewReturns(t) \/ ExecuteReturns(t) \/ FailureAudited(t) \/ NotFound(t)

LEMMA LeavesRest ==
    ASSUME FlowTypeOK, NEW t \in Threads, Leaves(t)
    PROVE  sess'[t] = Rest /\ call'[t] = Idle
<1>0. call \in [Threads -> Call] /\ sess \in [Threads -> Session]
  BY DEF FlowTypeOK, TypeOK
<1>1. Leave(t)
  BY DEF Leaves, AnalyzeReturns, DecisionAudited, DecisionDenied, PreviewReturns,
     ExecuteReturns, FailureAudited, NotFound
<1> QED
  BY <1>0, <1>1 DEF Leave, Return, Continue

LEMMA OthersKeep ==
    ASSUME FlowTypeOK, NEW t \in Threads, ThreadStep(t), NEW u \in Threads \ {t}
    PROVE  sess'[u] = sess[u] /\ call'[u] = call[u]
<1>0. /\ call \in [Threads -> Call] /\ sess \in [Threads -> Session] /\ TypeOK
      /\ told \in SUBSET Ids
  BY DEF FlowTypeOK, TypeOK
<1>1. UNCHANGED vars \/ \E c : Continue(t, c)
  <2>1. \/ UNCHANGED vars \/ Enter(t) \/ StoreStep(t) \/ Return(t) \/ Abort(t)
    <3>1. Analyze(t) => Enter(t)
      BY DEF Analyze, Enter
    <3>2. Decide(t) \/ Preview(t) \/ Execute(t) => Enter(t)
      BY <1>0 DEF Decide, Preview, Execute, Enter
    <3> QED
      BY <3>1, <3>2, HandlerUsesStore DEF ThreadStep, ExecuteDenied, StoreMoves, SessionDies
  <2> QED
    BY <2>1, <1>0, OwnStep
<1>2. sess'[u] = sess[u]
  <2>1. CASE HandlerStep(t)
    BY <2>1, <1>0 DEF HandlerStep, SaveCase, AuditClaim, AuditSuperseded, AnalyzeReturns,
       DecisionLoadsCase, DecisionAudited, DecisionDenied, DecisionRefused, PreviewReturns,
       ExecuteOrders, ExecuteBlocked, ExecuteReturns, FailureReads, FailureAudited, NotFound,
       Leave, Goto
  <2>2. CASE ~HandlerStep(t)
    BY <2>2, <1>0 DEF ThreadStep, Analyze, Decide, Preview, Execute, Begin, ExecuteDenied,
       StoreMoves, SessionDies
  <2> QED
    BY <2>1, <2>2
<1> QED
  BY <1>0, <1>1, <1>2 DEF Continue, vars

\* The step of no thread leaves sessions and calls alone.
LEMMA NobodysStep ==
    ASSUME [FlowNext]_flowVars, ~\E t \in Threads : ThreadStep(t)
    PROVE  UNCHANGED <<approvals, call, sess, trail, granted>>
  BY DEF FlowNext, ThreadStep, DeskMoves, FlowTick, Tick, EditCase, flowVars, vars

\* What a step of a call does to its arguments and its report.
LEMMA CallSteps ==
    ASSUME TypeOK, NEW t \in Threads, StoreStep(t)
    PROVE  /\ call[t].pc # "done"
           /\ call'[t].op = call[t].op /\ call'[t].pc # "begin"
           /\ call[t].op # "reconcile" => call'[t].id = call[t].id
           /\ \/ ReconcileTx(t)
              \/ call'[t].superseded = call[t].superseded
<1>0. call \in [Threads -> Call]
  BY DEF TypeOK
<1>1. CASE ReconcileTx(t)
  <2>1. call[t].op = "reconcile" /\ call[t].pc = "begin"
    BY <1>1 DEF ReconcileTx, InCall
  <2>2. PICK expired, superseded, keep, out : CommitReconcile(t, expired, superseded, keep, out)
    BY <1>1 DEF ReconcileTx
  <2>3. call'[t] = [call[t] EXCEPT !.pc = AfterTx(expired), !.id = keep, !.todo = expired,
                                   !.superseded = superseded, !.out = out]
    BY <2>2, <1>0 DEF CommitReconcile, Continue
  <2>4. call'[t].op = call[t].op /\ call'[t].pc = AfterTx(expired)
    BY <2>3, <1>0 DEF Call
  <2> QED
    BY <2>1, <2>4, <1>1 DEF AfterTx
<1>c. call[t] \in Call /\ \A c : Continue(t, c) => call'[t] = c
  BY <1>0 DEF Continue
<1>2. CASE DecisionTx(t)
  <2>1. call[t].pc = "begin"
    BY <1>2 DEF DecisionTx, DecisionNotFound, DecisionInvalid, DecisionExpires,
       DecisionCommits, InDecision
  <2>2. /\ call'[t].op = call[t].op /\ call'[t].pc \in {"done", "audit", "read"}
        /\ call'[t].id = call[t].id /\ call'[t].superseded = call[t].superseded
    BY <1>2, <1>c DEF DecisionTx, DecisionNotFound, DecisionInvalid, DecisionExpires,
       DecisionCommits, Call
  <2> QED
    BY <2>1, <2>2
<1>3. CASE ReadRow(t) \/ ReadOverdue(t) \/ ExpireWins(t) \/ ExpireLoses(t) \/ Reread(t)
  <2>1. call[t].pc \in {"read", "expire", "reread"}
    BY <1>3 DEF ReadRow, ReadOverdue, ExpireWins, ExpireLoses, Reread
  <2> DEFINE Kept == /\ call'[t].op = call[t].op /\ call'[t].pc # "begin"
                     /\ call'[t].id = call[t].id /\ call'[t].superseded = call[t].superseded
  <2>2. ReadRow(t) => Kept
    BY <1>c DEF ReadRow, Call
  <2>3. ReadOverdue(t) \/ ExpireLoses(t) \/ Reread(t) => Kept
    BY <1>c DEF ReadOverdue, ExpireLoses, Reread, Call
  <2>4. ExpireWins(t) => Kept
    BY <1>c DEF ExpireWins, Call
  <2> QED
    BY <1>3, <2>1, <2>2, <2>3, <2>4
<1>4. CASE AuditExpiry(t)
  BY <1>4, <1>c DEF AuditExpiry, AfterTx, Call
<1> QED
  BY <1>1, <1>2, <1>3, <1>4 DEF StoreStep

\* The events a step adds to the trail.
LEMMA TrailSteps ==
    ASSUME FlowTypeOK, [FlowNext]_flowVars, NEW id \in Ids
    PROVE  /\ trail[id] \subseteq trail'[id]
           /\ \A kind \in trail'[id] \ trail[id] :
                 \/ kind \in {"REQUESTED", "REUSED", "DENIED", "EXECUTION_DENIED", "BLOCKED",
                              "TRANSITION_FAILED"}
                 \/ \E t \in Threads :
                       \/ /\ DecisionAudited(t) /\ id = sess[t].id
                          /\ kind = IF sess[t].op = "approve" THEN "GRANTED" ELSE "REJECTED"
                       \/ AuditSuperseded(t) /\ id \in sess[t].todo /\ kind = "SUPERSEDED"
                       \/ /\ ExecuteReturns(t) /\ id = sess[t].id
                          /\ kind = Verdict[order[t].answer]
<1>0. trail \in [Ids -> SUBSET (Kinds \cap Recorded)]
  BY DEF FlowTypeOK
<1>r. ASSUME NEW kind, NEW other, Record(kind, other)
      PROVE  /\ trail[id] \subseteq trail'[id]
             /\ \A k \in trail'[id] \ trail[id] : k = kind /\ id = other
  BY <1>0, <1>r DEF Record
<1>1. CASE trail' = trail
  BY <1>1
<1>2. ASSUME NEW t \in Threads, AuditClaim(t)
      PROVE  trail' = trail \/ \E kind \in {"REQUESTED", "REUSED"} : \E other : Record(kind, other)
  BY <1>2 DEF AuditClaim
<1>3. ASSUME NEW t \in Threads, DecisionDenied(t) \/ FailureAudited(t) \/ ExecuteDenied(t)
      PROVE  \E kind \in {"DENIED", "BLOCKED", "TRANSITION_FAILED", "EXECUTION_DENIED"} : \E other :
                Record(kind, other)
  BY <1>3 DEF DecisionDenied, FailureAudited, ExecuteDenied
<1>4. ASSUME NEW t \in Threads, DecisionAudited(t)
      PROVE  Record(IF sess[t].op = "approve" THEN "GRANTED" ELSE "REJECTED", sess[t].id)
  BY <1>4 DEF DecisionAudited
<1>5. ASSUME NEW t \in Threads, AuditSuperseded(t)
      PROVE  \E other \in sess[t].todo : Record("SUPERSEDED", other)
  BY <1>5 DEF AuditSuperseded
<1>6. ASSUME NEW t \in Threads, ExecuteReturns(t)
      PROVE  Record(Verdict[order[t].answer], sess[t].id)
  BY <1>6 DEF ExecuteReturns
<1>7. \/ trail' = trail
      \/ \E t \in Threads : \/ AuditClaim(t) \/ DecisionDenied(t) \/ FailureAudited(t)
                            \/ ExecuteDenied(t) \/ DecisionAudited(t) \/ AuditSuperseded(t)
                            \/ ExecuteReturns(t)
  BY DEF FlowNext, HandlerStep, SaveCase, AnalyzeReturns, DecisionLoadsCase, DecisionRefused,
     PreviewReturns, ExecuteOrders, ExecuteBlocked, FailureReads, NotFound, Analyze, Decide,
     Preview, Execute, StoreMoves, SessionDies, DeskMoves, FlowTick, EditCase, flowVars
<1>8. ASSUME NEW t \in Threads, AuditClaim(t) PROVE
         /\ trail[id] \subseteq trail'[id]
         /\ \A k \in trail'[id] \ trail[id] : k \in {"REQUESTED", "REUSED"}
  BY <1>2, <1>8, <1>r
<1>9. ASSUME NEW t \in Threads, DecisionDenied(t) \/ FailureAudited(t) \/ ExecuteDenied(t) PROVE
         /\ trail[id] \subseteq trail'[id]
         /\ \A k \in trail'[id] \ trail[id] :
               k \in {"DENIED", "BLOCKED", "TRANSITION_FAILED", "EXECUTION_DENIED"}
  BY <1>3, <1>9, <1>r
<1> QED
  BY <1>1, <1>4, <1>5, <1>6, <1>7, <1>8, <1>9, <1>r

\* A decision's session is about the approval its call decides; once the case
\* is loaded, the call has succeeded.
OwnsDecision(s, c) ==
    /\ s.op \in Decisions /\ s.pc \in {"store", "loaded"} => c.op = s.op /\ c.id = s.id
    /\ s.op \in Decisions /\ s.pc = "loaded" => c.pc = "done" /\ c.out = "ok"

TrailInv ==
    /\ \A t \in Threads : OwnsDecision(sess[t], call[t])
    /\ \A t \in Threads : Won(call[t]) /\ call[t].op = "approve" => call[t].id \in granted
    /\ \A t \in Threads : \A id \in sess[t].todo : approvals[id].status = "SUPERSEDED"
    /\ TrailTruthful

LEMMA OwnsDecisionStep ==
    ASSUME FlowTypeOK, NEW t \in Threads, OwnsDecision(sess[t], call[t]), ThreadStep(t)
    PROVE  OwnsDecision(sess'[t], call'[t])
<1>0. /\ call \in [Threads -> Call] /\ sess \in [Threads -> Session] /\ TypeOK
      /\ sess[t] \in Session /\ sess[t].op \in Decisions => sess[t].id \in Ids
  BY DEF FlowTypeOK, TypeOK, Decisions
<1>n. ASSUME sess'[t].op \notin Decisions \/ sess'[t].pc \notin {"store", "loaded"}
      PROVE  OwnsDecision(sess'[t], call'[t])
  BY <1>n DEF OwnsDecision
<1>g. ASSUME NEW pc, Goto(t, pc) PROVE sess'[t].pc = pc /\ sess'[t].op = sess[t].op
                                       /\ sess'[t].id = sess[t].id
  BY <1>0, <1>g DEF Goto, Session
<1>1. CASE Analyze(t) \/ Preview(t) \/ Execute(t)
  BY <1>0, <1>1, <1>n DEF Analyze, Preview, Execute, Begin, Decisions
<1>2. CASE Decide(t)
  <2>1. PICK op \in {"approve", "reject"}, id \in Ids, authorised \in BOOLEAN :
           Begin(t, op, id) /\ StartDecision(t, op, id, authorised)
    BY <1>2 DEF Decide
  <2>2. sess'[t] = [op |-> op, pc |-> "store", id |-> id, todo |-> {}]
    BY <1>0, <2>1 DEF Begin
  <2>3. call'[t].op = op /\ call'[t].id = id
    BY <1>0, <2>1 DEF StartDecision, Continue, Idle
  <2> QED
    BY <2>2, <2>3 DEF OwnsDecision
<1>3. CASE Leaves(t)
  BY <1>3, <1>n, LeavesRest DEF Rest, Decisions
<1>4. CASE SessionDies(t)
  BY <1>0, <1>4, <1>n DEF SessionDies, Rest, Decisions
<1>5. CASE SaveCase(t) \/ AuditClaim(t) \/ AuditSuperseded(t)
  <2>1. sess[t].op = "analyze"
    BY <1>5 DEF SaveCase, AuditClaim, AuditSuperseded, At
  <2>2. sess'[t].op = sess[t].op
    BY <1>0, <1>5, <1>g DEF SaveCase, AuditClaim, AuditSuperseded, Session
  <2> QED
    BY <2>1, <2>2, <1>n DEF Decisions
<1>6. CASE DecisionLoadsCase(t)
  <2>1. /\ sess[t].op \in Decisions /\ sess[t].pc = "store" /\ call' = call
        /\ call[t].pc = "done" /\ call[t].out = "ok" /\ Goto(t, "loaded")
    BY <1>6 DEF DecisionLoadsCase, Deciding, At, Decisions, Answered, vars
  <2> QED
    BY <2>1, <1>g DEF OwnsDecision
<1>7. CASE DecisionRefused(t) \/ ExecuteOrders(t) \/ ExecuteBlocked(t) \/ FailureReads(t)
  <2>1. \E pc \in {"failed", "ordered", "reread"} : Goto(t, pc)
    BY <1>7 DEF DecisionRefused, ExecuteOrders, ExecuteBlocked, FailureReads
  <2> QED
    BY <2>1, <1>g, <1>n
<1>8. CASE ExecuteDenied(t)
  BY <1>8 DEF ExecuteDenied, vars
<1>9. CASE StoreMoves(t)
  <2>1. StoreStep(t) /\ sess' = sess
    BY <1>9 DEF StoreMoves
  <2>2. /\ call[t].pc # "done" /\ call'[t].op = call[t].op
        /\ call[t].op # "reconcile" => call'[t].id = call[t].id
    BY <1>0, <2>1, CallSteps
  <2> QED
    BY <2>1, <2>2 DEF OwnsDecision, Decisions
<1> QED
  BY <1>1, <1>2, <1>3, <1>4, <1>5, <1>6, <1>7, <1>8, <1>9 DEF ThreadStep, HandlerStep, Leaves

\* Whoever wins an approve has just made the row APPROVED.
LEMMA WonGrantedStep ==
    ASSUME FlowTypeOK, DecisionInv, TrailInv, [FlowNext]_flowVars,
           NEW t \in Threads, Won(call'[t]), call'[t].op = "approve"
    PROVE  call'[t].id \in granted'
<1>0. TypeOK /\ call \in [Threads -> Call] /\ granted \subseteq granted' /\ approvals \in [Ids -> Row]
  BY FlowCalls DEF FlowTypeOK, TypeOK, StoreMoves
<1>1. CASE call'[t] = call[t]
  BY <1>0, <1>1 DEF TrailInv
<1>2. CASE call'[t] # call[t]
  <2>1. ThreadStep(t)
    BY <1>2, OthersKeep, NobodysStep
  <2>2. Enter(t) \/ StoreMoves(t) \/ Return(t) \/ Abort(t)
    <3>1. Analyze(t) => Enter(t)
      BY DEF Analyze, Enter
    <3>2. Decide(t) \/ Preview(t) \/ Execute(t) => Enter(t)
      BY DEF Decide, Preview, Execute, Enter, FlowTypeOK
    <3> QED
      BY <2>1, <3>1, <3>2, <1>2, HandlerUsesStore
         DEF ThreadStep, ExecuteDenied, StoreMoves, SessionDies, vars
  <2>3. /\ call'[t].id = call[t].id /\ call'[t].id \in Ids
        /\ Won(call[t]) \/ DecisionCommits(t)
    BY <1>0, <2>2, WinnerStep DEF DecisionInv, StoreMoves
  <2>4. CASE DecisionCommits(t)
    <3>1. call'[t].op = call[t].op
      BY <1>0, <2>4 DEF DecisionCommits, Continue, Call
    <3>2. approvals'[call[t].id].status = "APPROVED"
      BY <1>0, <2>3, <2>4, <3>1 DEF DecisionCommits, Target, Row
    <3>3. StoreMoves(t)
      <4>1. DecisionCommits(t) => ~Enter(t) /\ ~Return(t) /\ ~Abort(t)
        <5>1. DecisionCommits(t) => call'[t].pc = "read" /\ call'[t].op \in Decisions
          BY <1>0, <3>1 DEF DecisionCommits, Continue, Call, InDecision, Decisions
        <5>2. Enter(t) => call'[t].pc # "read" \/ call'[t].op \notin Decisions
          BY <1>0, Entered DEF Continue, Decisions
        <5>3. Return(t) \/ Abort(t) => call'[t].pc = "idle"
          BY <1>0 DEF Return, Abort, Continue, Idle
        <5> QED
          BY <5>1, <5>2, <5>3
      <4> QED
        BY <4>1, <2>2, <2>4
    <3> QED
      BY <3>2, <3>3, <2>3 DEF StoreMoves
  <2>5. CASE Won(call[t])
    <3>1. call[t].op = "approve"
      <4>1. ~Enter(t) /\ ~Return(t) /\ ~Abort(t)
        <5>1. Enter(t) => ~Won(call'[t])
          BY <1>0, Entered DEF Continue, Won, Decisions
        <5>2. Return(t) \/ Abort(t) => ~Won(call'[t])
          BY <1>0 DEF Return, Abort, Continue, Idle, Won, Decisions
        <5> QED
          BY <5>1, <5>2
      <4> QED
        BY <4>1, <2>2, <1>0, CallSteps DEF StoreMoves
    <3> QED
      BY <2>3, <2>5, <3>1, <1>0 DEF TrailInv
  <2> QED
    BY <2>3, <2>4, <2>5
<1> QED
  BY <1>1, <1>2

\* What is settled by a rejection or a supersession stays so.
LEMMA ClosedStays ==
    ASSUME FlowTypeOK, [FlowNext]_flowVars, NEW id \in Ids, NEW status \in {"REJECTED", "SUPERSEDED"},
           approvals[id].status = status
    PROVE  approvals'[id].status = status
<1>1. Successors["REJECTED"] = {} /\ Successors["SUPERSEDED"] = {}
  BY DEF Successors
<1> QED
  BY <1>1, FlowUsesStore, LifecycleOfStep DEF LifecycleStep, FlowTypeOK

\* What is still to be audited was reported by the call.
LEMMA SessionTodo ==
    ASSUME FlowTypeOK, [FlowNext]_flowVars, NEW t \in Threads
    PROVE  \/ sess'[t].todo \subseteq sess[t].todo
           \/ AuditClaim(t) /\ sess'[t].todo = call[t].superseded
<1>0. sess \in [Threads -> Session] /\ sess[t] \in Session
  BY DEF FlowTypeOK
<1>1. CASE AuditClaim(t)
  BY <1>0, <1>1 DEF AuditClaim, Session
<1>2. CASE AuditSuperseded(t)
  BY <1>0, <1>2 DEF AuditSuperseded, Session
<1>3. CASE Analyze(t) \/ Decide(t) \/ Preview(t) \/ Execute(t)
  BY <1>0, <1>3 DEF Analyze, Decide, Preview, Execute, Begin
<1>4. CASE Leaves(t) \/ SessionDies(t)
  BY <1>0, <1>4, LeavesRest DEF SessionDies, Rest
<1>5. CASE \/ SaveCase(t) \/ DecisionLoadsCase(t) \/ DecisionRefused(t) \/ ExecuteOrders(t)
           \/ ExecuteBlocked(t) \/ FailureReads(t)
  <2>1. \E pc : Goto(t, pc)
    BY <1>5 DEF SaveCase, DecisionLoadsCase, DecisionRefused, ExecuteOrders, ExecuteBlocked,
       FailureReads
  <2> QED
    BY <1>0, <2>1 DEF Goto, Session
<1>6. CASE ExecuteDenied(t) \/ StoreMoves(t)
  BY <1>6 DEF ExecuteDenied, StoreMoves
<1>7. CASE ~ThreadStep(t)
  BY <1>7, OthersKeep, NobodysStep
<1> QED
  BY <1>1, <1>2, <1>3, <1>4, <1>5, <1>6, <1>7 DEF ThreadStep, HandlerStep, Leaves

LEMMA TrailInvStep ==
    ASSUME FlowTypeOK, DecisionInv, SupersededReportedOnce, RowsGranted, TrailInv,
           [FlowNext]_flowVars
    PROVE  TrailInv'
<1>0. /\ call \in [Threads -> Call] /\ sess \in [Threads -> Session]
      /\ \A t \in Threads : call[t].superseded \in SUBSET Ids /\ sess[t].todo \in SUBSET Ids
      /\ \A t \in Threads : sess[t].op \in Decisions => sess[t].id \in Ids
  BY DEF FlowTypeOK, TypeOK, Call, Session, Decisions
<1>1. ASSUME NEW t \in Threads PROVE OwnsDecision(sess'[t], call'[t])
  <2>1. OwnsDecision(sess[t], call[t])
    BY DEF TrailInv
  <2>2. CASE ThreadStep(t)
    BY <2>1, <2>2, OwnsDecisionStep
  <2>3. CASE ~ThreadStep(t)
    BY <2>1, <2>3, OthersKeep, NobodysStep
  <2> QED
    BY <2>2, <2>3
<1>2. \A t \in Threads : Won(call'[t]) /\ call'[t].op = "approve" => call'[t].id \in granted'
  BY WonGrantedStep
<1>3. ASSUME NEW t \in Threads, NEW id \in sess'[t].todo PROVE approvals'[id].status = "SUPERSEDED"
  <2>1. approvals[id].status = "SUPERSEDED" /\ id \in Ids
    BY <1>0, <1>3, SessionTodo DEF TrailInv, SupersededReportedOnce
  <2> QED
    BY <2>1, ClosedStays
<1>4. ASSUME NEW id \in Ids
      PROVE  /\ "GRANTED" \in trail'[id] => id \in granted'
             /\ "REJECTED" \in trail'[id] => approvals'[id].status = "REJECTED"
             /\ "SUPERSEDED" \in trail'[id] => approvals'[id].status = "SUPERSEDED"
  <2>1. \A status \in {"REJECTED", "SUPERSEDED"} :
           approvals[id].status = status => approvals'[id].status = status
    BY ClosedStays
  <2>2. id \in granted => id \in granted'
    BY FlowCalls DEF StoreMoves
  <2>3. ASSUME NEW t \in Threads, ExecuteReturns(t)
        PROVE  Verdict[order[t].answer] \notin {"GRANTED", "REJECTED", "SUPERSEDED"}
    <3>1. order[t].answer \in Desk!Answers
      BY <2>3 DEF ExecuteReturns, FlowTypeOK, Desk!TicketTypeOK
    <3> QED
      BY <3>1 DEF Desk!Answers, Verdict
  <2>4. ASSUME NEW t \in Threads, DecisionAudited(t), id = sess[t].id
        PROVE  /\ sess[t].op = "approve" => id \in granted
               /\ sess[t].op # "approve" => approvals[id].status = "REJECTED"
    <3>1. sess[t].op \in Decisions /\ sess[t].pc = "loaded"
      BY <2>4 DEF DecisionAudited, Deciding, At, Decisions
    <3>2. Won(call[t]) /\ call[t].op = sess[t].op /\ call[t].id = id
      BY <2>4, <3>1 DEF TrailInv, OwnsDecision, Won
    <3>3. approvals[id].status \in Settled(sess[t].op)
      BY <3>2 DEF DecisionInv, Decided
    <3> QED
      BY <3>1, <3>2, <3>3 DEF TrailInv, Settled
  <2>5. ASSUME NEW kind \in {"GRANTED", "REJECTED", "SUPERSEDED"}, kind \in trail'[id],
               kind \notin trail[id]
        PROVE  \E t \in Threads :
                  \/ /\ DecisionAudited(t) /\ id = sess[t].id
                     /\ kind = IF sess[t].op = "approve" THEN "GRANTED" ELSE "REJECTED"
                  \/ id \in sess[t].todo /\ kind = "SUPERSEDED"
    BY <2>3, <2>5, TrailSteps
  <2>6. "GRANTED" \in trail'[id] => id \in granted'
    BY <2>2, <2>4, <2>5 DEF TrailInv, TrailTruthful
  <2>7. "REJECTED" \in trail'[id] => approvals'[id].status = "REJECTED"
    BY <2>1, <2>4, <2>5 DEF TrailInv, TrailTruthful
  <2>8. "SUPERSEDED" \in trail'[id] => approvals'[id].status = "SUPERSEDED"
    BY <2>1, <2>5 DEF TrailInv, TrailTruthful
  <2> QED
    BY <2>6, <2>7, <2>8
<1> QED
  BY <1>1, <1>2, <1>3, <1>4 DEF TrailInv, TrailTruthful

LEMMA TrailStart == FlowInit => TrailInv
<1> SUFFICES ASSUME FlowInit PROVE TrailInv
  OBVIOUS
<1>1. \A id \in Ids : trail[id] = IF id \in granted THEN {"GRANTED"} \cap Recorded ELSE {}
  BY DEF FlowInit
<1>2. \A t \in Threads : call[t] = Idle /\ sess[t] = Rest
  BY DEF FlowInit, Init
<1> QED
  BY <1>1, <1>2 DEF TrailInv, OwnsDecision, Won, Decisions, TrailTruthful, Rest, Idle

\* What is shown of the store alone, for the steps of the composed system.
LEMMA StoreInvStep ==
    FlowTypeOK /\ DecisionInv /\ SupersededReportedOnce /\ [FlowNext]_flowVars =>
        DecisionInv' /\ SupersededReportedOnce'
  BY FlowUsesStore, DecisionInvStep, SupersededStep DEF FlowTypeOK

\* The trail never says GRANTED of an approval that nobody granted, REJECTED
\* or SUPERSEDED of one that is not, although each event is written steps
\* after the row changed and other sessions run in between.
THEOREM TrailIsTruthful == FlowSpec => []TrailTruthful
<1> DEFINE I == /\ FlowTypeOK /\ RowsGranted /\ DecisionInv /\ SupersededReportedOnce
                /\ TrailInv
<1>1. FlowInit => I
  BY FlowStart, GrantStart, ToldStart, TrailStart DEF GrantInv
<1>2. I /\ [FlowNext]_flowVars => I'
  BY FlowTypeStep, RowsGrantedStep, StoreInvStep, TrailInvStep
<1>3. I => TrailTruthful
  BY DEF TrailInv
<1> QED
  BY <1>1, <1>2, <1>3, PTL DEF FlowSpec

-----------------------------------------------------------------------------
(* A ticket is reported as created at most once.                           *)
(*                                                                         *)
(* MockDesk creates the ticket of a key for one order only; that order     *)
(* belongs to the session that placed it until its answer is audited, and  *)
(* a session that dies in between takes the news with it.                  *)

OrdersOwned ==
    \A t \in Threads :
        /\ order[t].phase # "idle" => At(t, "execute", "ordered") /\ order[t].key = sess[t].id
        /\ order[t].answer = "OPEN" => order[t].created
        /\ order[t].created => order[t].phase # "idle"

CreatedOk ==
    /\ \A t \in Threads : order[t].created => ticket[order[t].key] # None
    /\ \A t, u \in Threads :
          order[t].created /\ order[u].created /\ order[t].key = order[u].key => t = u
    /\ \A id \in Ids : "EXECUTED_OPEN" \in trail[id] =>
          /\ ticket[id] # None
          /\ \A t \in Threads : order[t].created => order[t].key # id

CreatedInv == OrdersOwned /\ CreatedOk

\* What a step of the desk does to an order of whatever thread.
LEMMA OrderSteps ==
    ASSUME FlowTypeOK, [FlowNext]_flowVars, NEW u \in Threads, order'[u] # order[u]
    PROVE  \/ /\ ExecuteOrders(u) /\ order[u].phase = "idle"
              /\ order'[u].key = sess[u].id /\ order'[u].answer = None /\ ~order'[u].created
           \/ /\ order[u].phase = "open" /\ order'[u].phase # "idle"
              /\ order'[u].key = order[u].key
              /\ sess'[u] = sess[u]
              /\ \/ order'[u].created = order[u].created
                 \/ Desk!Issue(u) /\ order'[u].answer = order[u].answer
              /\ order'[u].answer = "OPEN" => order[u].answer = "OPEN" \/ order'[u].created
           \/ order'[u] = Desk!NoOrder
<1>0. /\ order \in [Threads -> Desk!Order] /\ order[u] \in Desk!Order
      /\ \A a \in Desk!Answers : a \in Desk!Answers
  BY DEF FlowTypeOK, Desk!TicketTypeOK
<1>1. ASSUME NEW t \in Threads, ExecuteOrders(t)
      PROVE  /\ u = t /\ order[u].phase = "idle"
             /\ order'[u].key = sess[u].id /\ order'[u].answer = None /\ ~order'[u].created
  <2>1. Desk!Place(t, sess[t].id, cases[sess[t].id])
    BY <1>1 DEF ExecuteOrders
  <2>2. order[t].phase = "idle"
    BY <2>1 DEF Desk!Place
  <2>3. order' = [order EXCEPT ![t] = [Desk!NoOrder EXCEPT !.phase = "open", !.key = sess[t].id,
                                                          !.payload = cases[sess[t].id]]]
    BY <2>1 DEF Desk!Place
  <2>4. u = t
    BY <2>3, <1>0
  <2> QED
    BY <2>2, <2>3, <2>4, <1>0 DEF Desk!NoOrder
<1>2. ASSUME NEW t \in Threads, Desk!Collect(t) \/ Desk!Abandon(t) PROVE order'[u] = Desk!NoOrder
  BY <1>0, <1>2 DEF Desk!Collect, Desk!Abandon
<1>3. CASE DeskMoves
  <2>1. sess' = sess
    BY <1>3 DEF DeskMoves
  <2>2. ASSUME NEW t \in Threads, Desk!Issue(t)
        PROVE  /\ u = t /\ order[u].phase = "open" /\ order'[u].phase = "open"
               /\ order'[u].key = order[u].key /\ order'[u].answer = order[u].answer
    BY <1>0, <2>2 DEF Desk!Issue, Desk!Order
  <2>3. ASSUME NEW t \in Threads, NEW a \in Desk!Answers, Desk!Answer(t, a)
        PROVE  /\ order[u].phase = "open" /\ order'[u].phase = "done"
               /\ order'[u].key = order[u].key /\ order'[u].created = order[u].created
               /\ order'[u].answer = "OPEN" => order[u].created
    BY <1>0, <2>3 DEF Desk!Answer, Desk!MayAnswer, Desk!Order
  <2>4. \A id \in Ids, f \in Fingerprints :
           Desk!IssueLate(id, f) \/ Desk!Forget(id, f) => order' = order
    BY DEF Desk!IssueLate, Desk!Forget
  <2> QED
    BY <1>3, <2>1, <2>2, <2>3, <2>4 DEF DeskMoves
<1>4. \/ order' = order
      \/ DeskMoves
      \/ \E t \in Threads : ExecuteOrders(t) \/ Desk!Collect(t) \/ Desk!Abandon(t)
  BY DEF FlowNext, HandlerStep, SaveCase, AuditClaim, AuditSuperseded, AnalyzeReturns,
     DecisionLoadsCase, DecisionAudited, DecisionDenied, DecisionRefused, PreviewReturns,
     ExecuteBlocked, ExecuteReturns, FailureReads, FailureAudited, NotFound,
     Analyze, Decide, Preview, Execute, ExecuteDenied, StoreMoves, SessionDies, FlowTick,
     EditCase, flowVars, deskVars
<1> QED
  BY <1>1, <1>2, <1>3, <1>4

\* A session whose order is under way does nothing else.
LEMMA OrderedWaits ==
    ASSUME FlowTypeOK, [FlowNext]_flowVars, NEW u \in Threads,
           order[u].phase # "idle", order'[u] = order[u],
           sess[u].op = "execute", sess[u].pc = "ordered"
    PROVE  sess'[u] = sess[u]
<1>0. /\ sess \in [Threads -> Session] /\ order \in [Threads -> Desk!Order]
  BY DEF FlowTypeOK, Desk!TicketTypeOK
<1>1. CASE ThreadStep(u)
  <2>1. ~HandlerStep(u)
    <3>1. ~ExecuteReturns(u)
      BY <1>0 DEF ExecuteReturns, Desk!Collect, Desk!NoOrder
    <3> QED
      BY <3>1 DEF HandlerStep, SaveCase, AuditClaim, AuditSuperseded, AnalyzeReturns,
         DecisionLoadsCase, DecisionAudited, DecisionDenied, DecisionRefused, PreviewReturns,
         ExecuteOrders, ExecuteBlocked, FailureReads, FailureAudited, NotFound, Deciding, At
  <2>2. ~Analyze(u) /\ ~Decide(u) /\ ~Preview(u) /\ ~Execute(u)
    BY DEF Analyze, Decide, Preview, Execute, Begin
  <2>3. ~SessionDies(u)
    BY <1>0 DEF SessionDies, Desk!Collect, Desk!Abandon, Desk!NoOrder
  <2> QED
    BY <1>1, <2>1, <2>2, <2>3 DEF ThreadStep, ExecuteDenied, StoreMoves
<1>2. CASE ~ThreadStep(u)
  BY <1>2, OthersKeep, NobodysStep
<1> QED
  BY <1>1, <1>2

\* An order is under way only in its session.
LEMMA OrdersOwnedStep ==
    ASSUME FlowTypeOK, OrdersOwned, [FlowNext]_flowVars
    PROVE  OrdersOwned'
<1>0. /\ sess \in [Threads -> Session] /\ order \in [Threads -> Desk!Order]
  BY DEF FlowTypeOK, Desk!TicketTypeOK
<1> SUFFICES ASSUME NEW u \in Threads
             PROVE  /\ order'[u].phase # "idle" =>
                          /\ sess'[u].op = "execute" /\ sess'[u].pc = "ordered"
                          /\ order'[u].key = sess'[u].id
                    /\ order'[u].answer = "OPEN" => order'[u].created
                    /\ order'[u].created => order'[u].phase # "idle"
  BY DEF OrdersOwned, At
<1>1. CASE order'[u] = Desk!NoOrder
  <2>1. /\ Desk!NoOrder.phase = "idle" /\ Desk!NoOrder.created = FALSE
        /\ Desk!NoOrder.answer = None /\ None # "OPEN"
    BY AnswerAssumption DEF Desk!NoOrder, Desk!Answers
  <2> QED
    BY <1>1, <2>1
<1>2. CASE order'[u] = order[u]
  <2>1. CASE order[u].phase = "idle"
    BY <1>2, <2>1 DEF OrdersOwned
  <2>2. CASE order[u].phase # "idle"
    <3>1. /\ sess[u].op = "execute" /\ sess[u].pc = "ordered" /\ order[u].key = sess[u].id
      BY <2>2 DEF OrdersOwned, At
    <3>2. sess'[u] = sess[u]
      BY <1>2, <2>2, <3>1, OrderedWaits
    <3> QED
      BY <1>2, <3>1, <3>2 DEF OrdersOwned
  <2> QED
    BY <2>1, <2>2
<1>3. CASE order'[u] # order[u] /\ order'[u] # Desk!NoOrder
  <2>1. CASE ExecuteOrders(u) /\ order'[u].key = sess[u].id /\ order'[u].answer = None /\ ~order'[u].created
    <3>1. sess'[u].op = "execute" /\ sess'[u].pc = "ordered" /\ sess'[u].id = sess[u].id
      BY <1>0, <2>1 DEF ExecuteOrders, At, Goto, Session
    <3> QED
      BY <2>1, <3>1, AnswerAssumption DEF Desk!Answers
  <2>2. CASE /\ order[u].phase = "open" /\ order'[u].phase # "idle"
             /\ order'[u].key = order[u].key /\ sess'[u] = sess[u]
             /\ \/ order'[u].created = order[u].created
                \/ Desk!Issue(u) /\ order'[u].answer = order[u].answer
             /\ order'[u].answer = "OPEN" => order[u].answer = "OPEN" \/ order'[u].created
    <3>1. Desk!Issue(u) => order'[u].created
      BY <1>0 DEF Desk!Issue, Desk!Order
    <3> QED
      BY <2>2, <3>1 DEF OrdersOwned, At
  <2> QED
    BY <1>3, <2>1, <2>2, OrderSteps
<1> QED
  BY <1>1, <1>2, <1>3

\* A ticket is never taken back or changed.
LEMMA TicketStays ==
    ASSUME FlowTypeOK, [FlowNext]_flowVars, NEW id \in Ids, ticket[id] # None
    PROVE  ticket'[id] = ticket[id]
<1>0. ticket \in [Ids -> Fingerprints \cup {None}]
  BY DEF FlowTypeOK, Desk!TicketTypeOK
<1>1. DeskStep => ticket'[id] = ticket[id]
  BY <1>0 DEF DeskStep, Desk!Place, Desk!Issue, Desk!Answer, Desk!Collect, Desk!Abandon,
     Desk!IssueLate, Desk!Forget
<1> QED
  BY <1>1, FlowUsesDesk DEF deskVars

\* An order that has created its ticket had done so before, or does it now:
\* then there was none.
LEMMA CreatorStep ==
    ASSUME FlowTypeOK, CreatedInv, [FlowNext]_flowVars, NEW t \in Threads, order'[t].created
    PROVE  /\ order'[t].key = order[t].key /\ order[t].key \in Ids
           /\ ticket'[order[t].key] # None
           /\ \/ order[t].created
              \/ ticket[order[t].key] = None /\ \A u \in Threads \ {t} : order'[u] = order[u]
<1>0. /\ order \in [Threads -> Desk!Order] /\ ticket \in [Ids -> Fingerprints \cup {None}]
      /\ order[t].phase = "open" => order[t].key \in Ids /\ order[t].payload \in Fingerprints
  BY DEF FlowTypeOK, Desk!TicketTypeOK
<1>1. CASE order'[t].key = order[t].key /\ order[t].created
  <2>1. order[t].key \in Ids
    BY <1>1 DEF CreatedInv, OrdersOwned, At, FlowTypeOK
  <2> QED
    BY <1>1, <2>1, TicketStays DEF CreatedInv, CreatedOk
<1>2. CASE Desk!Issue(t) /\ order[t].phase = "open" /\ order'[t].key = order[t].key
  <2>1. ticket'[order[t].key] = order[t].payload /\ ticket[order[t].key] = None
    BY <1>0, <1>2 DEF Desk!Issue
  <2>2. \A u \in Threads \ {t} : order'[u] = order[u]
    BY <1>0, <1>2 DEF Desk!Issue
  <2> QED
    BY <1>0, <1>2, <2>1, <2>2, WorkflowAssumption
<1>3. Desk!NoOrder.created = FALSE
  BY DEF Desk!NoOrder
<1> QED
  BY <1>1, <1>2, <1>3, OrderSteps

LEMMA CreatedOkStep ==
    ASSUME FlowTypeOK, CreatedInv, [FlowNext]_flowVars
    PROVE  CreatedOk'
<1>0. order \in [Threads -> Desk!Order]
  BY DEF FlowTypeOK, Desk!TicketTypeOK
<1>1. \A t \in Threads : order'[t].created => ticket'[order'[t].key] # None
  BY CreatorStep
<1>2. ASSUME NEW t \in Threads, NEW u \in Threads, order'[t].created, order'[u].created,
             order'[t].key = order'[u].key
      PROVE  t = u
  <2>1. order[t].key = order[u].key
    BY <1>2, CreatorStep
  <2>2. CASE order[t].created /\ order[u].created
    BY <2>1, <2>2 DEF CreatedInv, CreatedOk
  <2>3. CASE ~order[t].created /\ t # u
    <3>1. order'[u] = order[u] /\ ticket[order[t].key] = None
      BY <1>2, <2>3, CreatorStep
    <3>2. order[u].created
      BY <1>2, <3>1
    <3> QED
      BY <2>1, <3>1, <3>2 DEF CreatedInv, CreatedOk
  <2>4. CASE ~order[u].created /\ t # u
    <3>1. order'[t] = order[t] /\ ticket[order[u].key] = None
      BY <1>2, <2>4, CreatorStep
    <3>2. order[t].created
      BY <1>2, <3>1
    <3> QED
      BY <2>1, <3>1, <3>2 DEF CreatedInv, CreatedOk
  <2> QED
    BY <2>2, <2>3, <2>4
<1>3. ASSUME NEW id \in Ids, "EXECUTED_OPEN" \in trail'[id]
      PROVE  /\ ticket'[id] # None
             /\ \A t \in Threads : order'[t].created => order'[t].key # id
  <2>1. CASE "EXECUTED_OPEN" \in trail[id]
    <3>1. ticket[id] # None /\ \A t \in Threads : order[t].created => order[t].key # id
      BY <2>1 DEF CreatedInv, CreatedOk
    <3>2. ticket'[id] # None
      BY <3>1, TicketStays
    <3>3. \A t \in Threads : order'[t].created => order'[t].key # id
      BY <3>1, CreatorStep
    <3> QED
      BY <3>2, <3>3
  <2>2. CASE "EXECUTED_OPEN" \notin trail[id]
    <3>1. PICK t \in Threads : /\ ExecuteReturns(t) /\ id = sess[t].id
                               /\ "EXECUTED_OPEN" = Verdict[order[t].answer]
      BY <1>3, <2>2, TrailSteps
    <3>2. order[t].phase = "done" /\ order[t].answer \in Desk!Answers
      BY <3>1 DEF ExecuteReturns, FlowTypeOK, Desk!TicketTypeOK
    <3>3. order[t].answer = "OPEN"
      BY <3>1, <3>2 DEF Desk!Answers, Verdict
    <3>4. order[t].created /\ order[t].key = id
      BY <3>1, <3>2, <3>3 DEF CreatedInv, OrdersOwned
    <3>5. ticket[id] # None
      BY <3>4 DEF CreatedInv, CreatedOk
    <3>6. order'[t].created = FALSE
      BY <1>0, <3>1 DEF ExecuteReturns, Desk!Collect, Desk!NoOrder
    <3>7. ASSUME NEW u \in Threads, order'[u].created, order'[u].key = id PROVE FALSE
      <4>1. order[u].key = id /\ order[u].created
        BY <3>5, <3>7, CreatorStep
      <4>2. u = t
        BY <4>1, <3>4 DEF CreatedInv, CreatedOk
      <4> QED
        BY <4>2, <3>6, <3>7
    <3>8. ticket'[id] # None
      BY <3>5, TicketStays
    <3> QED
      BY <3>7, <3>8
  <2> QED
    BY <2>1, <2>2
<1> QED
  BY <1>1, <1>2, <1>3 DEF CreatedOk

LEMMA CreatedStart == FlowInit => CreatedInv
<1> SUFFICES ASSUME FlowInit PROVE CreatedInv
  OBVIOUS
<1>1. \A t \in Threads : order[t].phase = "idle" /\ order[t].created = FALSE /\ order[t].answer = None
  BY DEF FlowInit, Desk!NoOrder
<1>2. \A id \in Ids : "EXECUTED_OPEN" \notin trail[id]
  BY DEF FlowInit
<1> QED
  BY <1>1, <1>2, AnswerAssumption DEF CreatedInv, OrdersOwned, CreatedOk, Desk!Answers

\* At most one event says of an approval that its ticket was created, and
\* MockDesk holds that ticket: whatever is retried, answered late or executed
\* twice at a time, tickets_created counts no ticket twice.
THEOREM TicketReportedOnce == FlowSpec => []CreatedOnce
<1>1. ASSUME CreatedInv PROVE CreatedOnce
  <2> SUFFICES ASSUME NEW id \in Ids
               PROVE  /\ "EXECUTED_OPEN" \in trail[id] => ticket[id] # None
                      /\ LET opened == {t \in Threads : /\ At(t, "execute", "ordered")
                                                        /\ sess[t].id = id
                                                        /\ order[t].answer = "OPEN"}
                         IN IF "EXECUTED_OPEN" \in trail[id] THEN opened = {}
                            ELSE Cardinality(opened) <= 1
    BY DEF CreatedOnce
  <2> DEFINE opened == {t \in Threads : /\ At(t, "execute", "ordered") /\ sess[t].id = id
                                        /\ order[t].answer = "OPEN"}
  <2>1. \A t \in opened : order[t].created /\ order[t].key = id
    BY <1>1 DEF CreatedInv, OrdersOwned
  <2>2. "EXECUTED_OPEN" \in trail[id] => ticket[id] # None /\ opened = {}
    BY <1>1, <2>1 DEF CreatedInv, CreatedOk
  <2>3. \A t, u \in opened : t = u
    BY <1>1, <2>1 DEF CreatedInv, CreatedOk
  <2> HIDE DEF opened
  <2>4. Cardinality(opened) <= 1
    <3>1. CASE opened = {}
      BY <3>1, FS_EmptySet
    <3>2. CASE opened # {}
      <4>1. PICK t : opened = {t}
        BY <2>3, <3>2
      <4> QED
        BY <4>1, FS_Singleton
    <3> QED
      BY <3>1, <3>2
  <2> QED
    BY <2>2, <2>4 DEF opened
<1>2. FlowTypeOK /\ CreatedInv /\ [FlowNext]_flowVars => CreatedInv'
  BY OrdersOwnedStep, CreatedOkStep DEF CreatedInv
<1> QED
  BY <1>1, <1>2, FlowStart, FlowTypeStep, CreatedStart, PTL DEF FlowSpec

-----------------------------------------------------------------------------
(* Every supersession reaches the trail, if nobody dies.                   *)
(*                                                                         *)
(* The row is superseded in one transaction and audited after the handler  *)
(* has saved the case and audited its claim.  Until then the approval is   *)
(* in the report of the call, or in what the session has still to audit.   *)

Reported(t, id) ==
    \/ At(t, "analyze", "store") /\ id \in call[t].superseded
    \/ At(t, "analyze", "saved") /\ id \in call[t].superseded
    \/ At(t, "analyze", "claimed") /\ id \in sess[t].todo

\* A reconcile that has not run yet belongs to an analyze that waits for it.
OwnsReconcile(s, c) ==
    c.op = "reconcile" /\ c.pc = "begin" =>
        s.op = "analyze" /\ s.pc = "store" /\ c.superseded = {}

ReportInv ==
    /\ \A t \in Threads : OwnsReconcile(sess[t], call[t])
    /\ \A id \in Ids : approvals[id].status = "SUPERSEDED" =>
           "SUPERSEDED" \in trail[id] \/ \E t \in Threads : Reported(t, id)

LEMMA OwnsReconcileStep ==
    ASSUME FlowTypeOK, NEW t \in Threads, OwnsReconcile(sess[t], call[t]), ThreadStep(t)
    PROVE  OwnsReconcile(sess'[t], call'[t])
<1>0. call \in [Threads -> Call] /\ sess \in [Threads -> Session] /\ TypeOK
  BY DEF FlowTypeOK, TypeOK
<1>n. ASSUME call'[t].op # "reconcile" \/ call'[t].pc # "begin"
      PROVE  OwnsReconcile(sess'[t], call'[t])
  BY <1>n DEF OwnsReconcile
<1>1. CASE Analyze(t)
  <2>1. sess'[t].op = "analyze" /\ sess'[t].pc = "store"
    BY <1>0, <1>1 DEF Analyze, Begin
  <2>2. call'[t].superseded = {}
    BY <1>0, <1>1 DEF Analyze, StartReconcile, Continue, Idle
  <2> QED
    BY <2>1, <2>2 DEF OwnsReconcile
<1>2. CASE Decide(t)
  <2>1. call'[t].op \in {"approve", "reject"}
    BY <1>0, <1>2 DEF Decide, StartDecision, Continue, Idle
  <2> QED
    BY <2>1, <1>n
<1>3. CASE Preview(t) \/ Execute(t) \/ FailureReads(t)
  <2>1. call'[t].op = "get"
    BY <1>0, <1>3 DEF Preview, Execute, FailureReads, StartGet, Continue, Idle
  <2> QED
    BY <2>1, <1>n
<1>4. CASE Leaves(t)
  BY <1>4, <1>n, LeavesRest DEF Idle
<1>5. CASE DecisionRefused(t) \/ ExecuteBlocked(t)
  BY <1>0, <1>5, <1>n DEF DecisionRefused, ExecuteBlocked, Return, Continue, Idle
<1>6. CASE SessionDies(t)
  <2>1. call'[t].pc = "idle"
    BY <1>0, <1>6 DEF SessionDies, Abort, Return, Continue, Idle, vars
  <2> QED
    BY <2>1, <1>n
<1>7. CASE SaveCase(t) \/ DecisionLoadsCase(t) \/ ExecuteOrders(t)
  BY <1>7, <1>n DEF SaveCase, DecisionLoadsCase, ExecuteOrders, Answered, vars
<1>8. CASE AuditClaim(t) \/ AuditSuperseded(t)
  <2>1. call' = call /\ ~(sess[t].pc = "store" /\ call[t].pc = "begin")
    BY <1>8 DEF AuditClaim, AuditSuperseded, Answered, At, vars
  <2> QED
    BY <2>1, <1>n DEF OwnsReconcile
<1>9. CASE ExecuteDenied(t)
  BY <1>9 DEF ExecuteDenied, vars
<1>10. CASE StoreMoves(t)
  <2>1. call'[t].pc # "begin"
    BY <1>0, <1>10, CallSteps DEF StoreMoves
  <2> QED
    BY <2>1, <1>n
<1> QED
  BY <1>1, <1>2, <1>3, <1>4, <1>5, <1>6, <1>7, <1>8, <1>9, <1>10
     DEF ThreadStep, HandlerStep, Leaves

\* Until a supersession is in the trail it stays reported.
LEMMA ReportedStays ==
    ASSUME FlowTypeOK, ReportInv, ~CanAbort, "SUPERSEDED" \in Recorded, [FlowNext]_flowVars,
           NEW id \in Ids, NEW t \in Threads, Reported(t, id)
    PROVE  "SUPERSEDED" \in trail'[id] \/ Reported(t, id)'
<1>0. /\ call \in [Threads -> Call] /\ sess \in [Threads -> Session] /\ sess[t] \in Session
      /\ TypeOK /\ trail \in [Ids -> SUBSET (Kinds \cap Recorded)]
  BY DEF FlowTypeOK, TypeOK
<1>a. sess[t].op = "analyze" /\ sess[t].pc \in {"store", "saved", "claimed"}
  BY DEF Reported, At
<1>1. CASE ~ThreadStep(t)
  <2>1. sess'[t] = sess[t] /\ call'[t] = call[t]
    BY <1>1, OthersKeep, NobodysStep
  <2> QED
    BY <2>1 DEF Reported, At
<1>2. CASE SaveCase(t)
  <2>1. call' = call /\ sess'[t].op = "analyze" /\ sess'[t].pc = "saved" /\ sess[t].pc = "store"
    BY <1>0, <1>2, <1>a DEF SaveCase, Goto, At, Session, vars
  <2> QED
    BY <2>1 DEF Reported, At
<1>3. CASE AuditClaim(t)
  <2>1. /\ sess'[t].op = "analyze" /\ sess'[t].pc = "claimed"
        /\ sess'[t].todo = call[t].superseded /\ sess[t].pc \in {"saved", "store"}
    BY <1>0, <1>3, <1>a DEF AuditClaim, At, Session
  <2> QED
    BY <2>1 DEF Reported, At
<1>4. CASE AuditSuperseded(t)
  <2>1. PICK other \in sess[t].todo : /\ Record("SUPERSEDED", other)
                                      /\ sess' = [sess EXCEPT ![t].todo = @ \ {other}]
    BY <1>4 DEF AuditSuperseded
  <2>2. /\ sess'[t].op = "analyze" /\ sess'[t].pc = "claimed" /\ sess[t].pc = "claimed"
        /\ sess'[t].todo = sess[t].todo \ {other}
    BY <1>0, <1>4, <1>a, <2>1 DEF AuditSuperseded, At, Session
  <2>3. CASE other = id
    BY <1>0, <2>1, <2>3 DEF Record
  <2>4. CASE other # id
    BY <2>2, <2>4 DEF Reported, At
  <2> QED
    BY <2>3, <2>4
<1>5. ~Analyze(t) /\ ~Decide(t) /\ ~Preview(t) /\ ~Execute(t) /\ ~SessionDies(t)
  BY <1>a DEF Analyze, Decide, Preview, Execute, Begin, SessionDies
<1>6. ASSUME AnalyzeReturns(t) PROVE FALSE
  BY <1>6 DEF AnalyzeReturns, Reported, At
<1>7. CASE ExecuteDenied(t)
  BY <1>7 DEF ExecuteDenied, Reported, At, vars
<1>8. CASE StoreMoves(t)
  <2>1. sess' = sess /\ StoreStep(t)
    BY <1>8 DEF StoreMoves
  <2>2. CASE sess[t].pc = "claimed"
    BY <2>1, <2>2 DEF Reported, At
  <2>3. CASE sess[t].pc # "claimed"
    <3>1. id \in call[t].superseded
      BY <2>3 DEF Reported, At
    <3>2. ~ReconcileTx(t)
      BY <3>1 DEF ReconcileTx, InCall, ReportInv, OwnsReconcile
    <3>3. call'[t].superseded = call[t].superseded
      BY <1>0, <2>1, <3>2, CallSteps
    <3> QED
      BY <2>1, <3>3 DEF Reported, At
  <2> QED
    BY <2>2, <2>3
<1>9. CASE \/ DecisionLoadsCase(t) \/ DecisionAudited(t) \/ DecisionDenied(t) \/ DecisionRefused(t)
           \/ PreviewReturns(t) \/ ExecuteOrders(t) \/ ExecuteBlocked(t) \/ ExecuteReturns(t)
           \/ FailureReads(t) \/ FailureAudited(t) \/ NotFound(t)
  BY <1>9, <1>a DEF DecisionLoadsCase, DecisionAudited, DecisionDenied, DecisionRefused,
     PreviewReturns, ExecuteOrders, ExecuteBlocked, ExecuteReturns, FailureReads, FailureAudited,
     NotFound, Deciding, At
<1> QED
  BY <1>1, <1>2, <1>3, <1>4, <1>5, <1>6, <1>7, <1>8, <1>9 DEF ThreadStep, HandlerStep

\* A row becomes superseded only in the transaction that reports it.
LEMMA SupersedingReports ==
    ASSUME FlowTypeOK, ReportInv, [FlowNext]_flowVars, NEW id \in Ids,
           approvals[id].status # "SUPERSEDED", approvals'[id].status = "SUPERSEDED"
    PROVE  \E t \in Threads : Reported(t, id)'
<1>0. TypeOK /\ call \in [Threads -> Call] /\ approvals \in [Ids -> Row]
  BY DEF FlowTypeOK, TypeOK
<1>1. PICK t \in Threads : StoreMoves(t)
  BY FlowCalls
<1>2. StoreStep(t) /\ sess' = sess
  BY <1>1 DEF StoreMoves
<1>3. ReconcileTx(t)
  <2>1. CASE DecisionTx(t)
    BY <1>0, <2>1 DEF DecisionTx, DecisionNotFound, DecisionInvalid, DecisionExpires,
       DecisionCommits, Target, Row
  <2>2. CASE ExpireWins(t)
    BY <1>0, <2>2 DEF ExpireWins, Row
  <2>3. CASE ReadRow(t) \/ ReadOverdue(t) \/ ExpireLoses(t) \/ Reread(t) \/ AuditExpiry(t)
    BY <2>3 DEF ReadRow, ReadOverdue, ExpireLoses, Reread, AuditExpiry
  <2> QED
    BY <1>2, <2>1, <2>2, <2>3 DEF StoreStep
<1>4. PICK expired, superseded, keep, fresh :
           ReconcileRows(t, call[t].request, expired, superseded, keep, fresh)
  BY <1>0, <1>3, ReconcileShape
<1>5. id \in superseded /\ call'[t].superseded = superseded
  BY <1>0, <1>4 DEF ReconcileRows, Reconciled, NewRow, Row
<1>6. sess[t].op = "analyze" /\ sess[t].pc = "store"
  BY <1>3 DEF ReconcileTx, InCall, ReportInv, OwnsReconcile
<1> QED
  BY <1>2, <1>5, <1>6 DEF Reported, At

LEMMA ReportInvStep ==
    ASSUME FlowTypeOK, ReportInv, ~CanAbort, "SUPERSEDED" \in Recorded, [FlowNext]_flowVars
    PROVE  ReportInv'
<1>1. ASSUME NEW t \in Threads PROVE OwnsReconcile(sess'[t], call'[t])
  <2>1. OwnsReconcile(sess[t], call[t])
    BY DEF ReportInv
  <2>2. CASE ThreadStep(t)
    BY <2>1, <2>2, OwnsReconcileStep
  <2>3. CASE ~ThreadStep(t)
    BY <2>1, <2>3, OthersKeep, NobodysStep
  <2> QED
    BY <2>2, <2>3
<1>2. ASSUME NEW id \in Ids, approvals'[id].status = "SUPERSEDED"
      PROVE  "SUPERSEDED" \in trail'[id] \/ \E t \in Threads : Reported(t, id)'
  <2>1. CASE approvals[id].status # "SUPERSEDED"
    BY <1>2, <2>1, SupersedingReports
  <2>2. CASE "SUPERSEDED" \in trail[id]
    BY <2>2, TrailSteps
  <2>3. ASSUME NEW t \in Threads, Reported(t, id)
        PROVE  "SUPERSEDED" \in trail'[id] \/ Reported(t, id)'
    BY <2>3, ReportedStays
  <2> QED
    BY <2>1, <2>2, <2>3 DEF ReportInv
<1> QED
  BY <1>1, <1>2 DEF ReportInv

\* If no handler dies and the trail keeps the event, then whenever all
\* handlers are through, every superseded approval has it: also those that
\* an analyze superseded which needed no approval itself.
THEOREM SupersessionsReachTrail ==
    ASSUME ~CanAbort, "SUPERSEDED" \in Recorded
    PROVE  FlowSpec => []SupersessionsAudited
<1>1. FlowInit => ReportInv
  <2>1. FlowInit => \A id \in Ids : approvals[id].status # "SUPERSEDED"
    BY FlowStart, StartRows DEF Live
  <2> QED
    BY <2>1 DEF FlowInit, Init, ReportInv, OwnsReconcile, Idle
<1>2. FlowTypeOK /\ ReportInv /\ [FlowNext]_flowVars => ReportInv'
  BY ReportInvStep
<1>3. ReportInv => SupersessionsAudited
  BY DEF ReportInv, Reported, At, SupersessionsAudited
<1> QED
  BY <1>1, <1>2, <1>3, FlowStart, FlowTypeStep, PTL DEF FlowSpec
=============================================================================
