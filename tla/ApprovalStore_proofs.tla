------------------------ MODULE ApprovalStore_proofs ------------------------
(***************************************************************************)
(* Theorems about ApprovalStore, for every number of threads, approvals    *)
(* and requests and for every TTL.                                         *)
(***************************************************************************)
EXTENDS ApprovalStore, TLAPS

-----------------------------------------------------------------------------
(* Types                                                                   *)

\* A call as TypeOK wants it.
GoodCall(c) ==
    /\ c \in Call
    /\ c.op \in {"approve", "reject", "get"} => c.id \in Ids
    /\ c.pc \in {"read", "expire", "reread"} => c.op \in {"approve", "reject", "get"}
    /\ c.op = "reconcile" => c.request \in Requests /\ c.fingerprint \in Fingerprints

LEMMA TypeFacts ==
    /\ GoodCall(Idle)
    /\ NoRow \in Row
    /\ \A r \in Requests, f \in Fingerprints \cup {None}, now \in Nat : NewRow(r, f, now) \in Row
  BY TimeAssumption DEF GoodCall, Idle, Call, NoRow, Row, NewRow, Status, Live, Terminal,
     Ops, Pcs, Outcomes

\* Replacing one call by a good one keeps the calls well typed.
LEMMA ContinueType ==
    ASSUME NEW t \in Threads, NEW c, call \in [Threads -> Call], GoodCall(c),
           \A u \in Threads : GoodCall(call[u]), Continue(t, c)
    PROVE  /\ call' \in [Threads -> Call]
           /\ call'[t] = c
           /\ \A u \in Threads \ {t} : call'[u] = call[u]
           /\ \A u \in Threads : GoodCall(call'[u])
<1>1. /\ call' \in [Threads -> Call]
      /\ call'[t] = c
      /\ \A u \in Threads \ {t} : call'[u] = call[u]
  BY DEF Continue, GoodCall
<1>2. ASSUME NEW u \in Threads PROVE GoodCall(call'[u])
  <2>1. CASE u = t
    BY <2>1, <1>1
  <2>2. CASE u # t
    BY <2>2, <1>1
  <2> QED
    BY <2>1, <2>2
<1> QED
  BY <1>1, <1>2

LEMMA TypeOKCalls ==
    TypeOK <=> /\ approvals \in [Ids -> Row]
               /\ expiryEvents \in [Ids -> Nat]
               /\ clock \in Nat
               /\ call \in [Threads -> Call]
               /\ \A t \in Threads : GoodCall(call[t])
  BY DEF TypeOK, GoodCall

\* Setting the status of a row keeps the rows well typed.
LEMMA SetStatusType ==
    ASSUME approvals \in [Ids -> Row], NEW id, NEW s \in Status,
           approvals' = [approvals EXCEPT ![id].status = s]
    PROVE  approvals' \in [Ids -> Row]
  BY DEF Row

LEMMA ReconciledType ==
    ASSUME approvals \in [Ids -> Row], NEW c \in Call, NEW expired, NEW superseded,
           NEW keep, NEW fresh \in BOOLEAN,
           fresh => c.request \in Requests /\ c.fingerprint \in Fingerprints
    PROVE  Reconciled(c, expired, superseded, keep, fresh) \in [Ids -> Row]
<1>1. ASSUME NEW id \in Ids PROVE /\ approvals[id] \in Row
                                  /\ [approvals[id] EXCEPT !.status = "EXPIRED"] \in Row
                                  /\ [approvals[id] EXCEPT !.status = "SUPERSEDED"] \in Row
  BY DEF Row, Status, Terminal
<1>2. fresh => NewRow(c.request, c.fingerprint, c.now) \in Row
  BY TypeFacts DEF Call
<1> QED
  BY <1>1, <1>2 DEF Reconciled

\* The transaction of reconcile_approval, for each way it ends.
LEMMA CommitReconcileType ==
    ASSUME TypeOK, NEW t \in Threads, InCall(t, "reconcile", "begin"),
           NEW expired \in SUBSET Ids, NEW superseded \in SUBSET Ids,
           NEW keep \in Ids \cup {None}, NEW out \in {"created", "reused", "unneeded"},
           CommitReconcile(t, expired, superseded, keep, out)
    PROVE  TypeOK'
<1> DEFINE c == [call[t] EXCEPT !.pc = AfterTx(expired), !.id = keep, !.todo = expired,
                                !.superseded = superseded, !.out = out]
<1>0. GoodCall(call[t]) /\ call[t].op = "reconcile"
  BY TypeOKCalls DEF InCall
<1>a. AfterTx(expired) \in {"done", "audit"}
  BY DEF AfterTx
<1>1. GoodCall(c)
  <2>1. c \in Call
    BY <1>0, <1>a DEF GoodCall, Call, Pcs, Outcomes
  <2> QED
    BY <1>0, <1>a, <2>1 DEF GoodCall, Call
<1>2. Continue(t, c)
  BY DEF CommitReconcile
<1>3. call' \in [Threads -> Call] /\ \A u \in Threads : GoodCall(call'[u])
  BY <1>1, <1>2, ContinueType, TypeOKCalls
<1>4. approvals' \in [Ids -> Row]
  BY <1>0, ReconciledType, TypeOKCalls DEF CommitReconcile, GoodCall
<1>5. expiryEvents' = expiryEvents /\ clock' = clock
  BY DEF CommitReconcile
<1> QED
  BY <1>3, <1>4, <1>5, TypeOKCalls DEF TypeOK, GoodCall

\* No step leaves the types.
LEMMA TypeStep == TypeOK /\ [Next]_vars => TypeOK'
<1> SUFFICES ASSUME TypeOK, [Next]_vars PROVE TypeOK'
  OBVIOUS
<1>0. /\ approvals \in [Ids -> Row] /\ expiryEvents \in [Ids -> Nat] /\ clock \in Nat
      /\ call \in [Threads -> Call] /\ \A t \in Threads : GoodCall(call[t])
  BY TypeOKCalls
\* It is enough that the new call is good and the rows and counters are typed.
<1>c. ASSUME NEW t \in Threads, NEW c, GoodCall(c), Continue(t, c),
             approvals' \in [Ids -> Row], expiryEvents' \in [Ids -> Nat], clock' \in Nat
      PROVE  TypeOK'
  <2>1. call' \in [Threads -> Call] /\ \A u \in Threads : GoodCall(call'[u])
    BY <1>0, <1>c, ContinueType
  <2> QED
    BY <2>1, <1>c DEF TypeOK, GoodCall
<1>1. ASSUME NEW t \in Threads, Enter(t) PROVE TypeOK'
  <2>1. ASSUME NEW r \in Requests, NEW f \in Fingerprints, NEW required \in BOOLEAN,
               StartReconcile(t, r, f, required)
        PROVE  TypeOK'
    <3> DEFINE c == [Idle EXCEPT !.op = "reconcile", !.pc = "begin", !.request = r,
                       !.fingerprint = f, !.required = required, !.now = clock]
    <3>1. GoodCall(c)
      BY <1>0, TypeFacts DEF GoodCall, Call, Ops, Pcs
    <3> QED
      BY <3>1, <2>1, <1>c, <1>0 DEF StartReconcile
  <2>2. ASSUME NEW op \in {"approve", "reject"}, NEW id \in Ids, NEW authorised \in BOOLEAN,
               StartDecision(t, op, id, authorised)
        PROVE  TypeOK'
    <3> DEFINE c == [Idle EXCEPT !.op = op, !.id = id,
                       !.pc = IF authorised THEN "begin" ELSE "done",
                       !.out = IF authorised THEN "none" ELSE "denied",
                       !.now = IF authorised THEN clock ELSE 0]
    <3>a. /\ (IF authorised THEN clock ELSE 0) \in Nat
          /\ (IF authorised THEN "begin" ELSE "done") \in {"begin", "done"}
          /\ (IF authorised THEN "none" ELSE "denied") \in {"none", "denied"}
      BY <1>0
    <3>b. ASSUME NEW pc \in {"begin", "done"}, NEW out \in {"none", "denied"}, NEW now \in Nat
          PROVE  GoodCall([Idle EXCEPT !.op = op, !.id = id, !.pc = pc, !.out = out,
                                       !.now = now])
      BY TypeFacts DEF GoodCall, Call, Ops, Pcs, Outcomes
    <3>1. GoodCall(c)
      BY <3>a, <3>b
    <3> QED
      BY <3>1, <2>2, <1>c, <1>0 DEF StartDecision
  <2>3. ASSUME NEW id \in Ids, StartGet(t, id) PROVE TypeOK'
    <3> DEFINE c == [Idle EXCEPT !.op = "get", !.pc = "read", !.id = id]
    <3>1. GoodCall(c)
      BY TypeFacts DEF GoodCall, Call, Ops, Pcs
    <3> QED
      BY <3>1, <2>3, <1>c, <1>0 DEF StartGet
  <2> QED
    BY <1>1, <2>1, <2>2, <2>3 DEF Enter
<1>2. ASSUME NEW t \in Threads, ReconcileTx(t) PROVE TypeOK'
  <2>1. PICK expired \in SUBSET Ids, superseded \in SUBSET Ids, keep \in Ids \cup {None},
             out \in {"created", "reused", "unneeded"} :
             CommitReconcile(t, expired, superseded, keep, out)
    <3> DEFINE r == call[t].request
               f == call[t].fingerprint
               ex == {id \in LiveOf(r) : Overdue(id, call[t].now)}
               live == LiveOf(r) \ ex
    <3>1. ex \in SUBSET Ids /\ live \in SUBSET Ids /\ Covering(live, f) \in SUBSET Ids
      BY DEF LiveOf, Covering
    <3>2. \/ \E keep \in Covering(live, f) : CommitReconcile(t, ex, live \ {keep}, keep, "reused")
          \/ \E keep \in Ids : CommitReconcile(t, ex, live, keep, "created")
          \/ CommitReconcile(t, ex, live, None, "unneeded")
      BY <1>2 DEF ReconcileTx
    <3> HIDE DEF ex, live
    <3> QED
      BY <3>1, <3>2
  <2> QED
    BY <1>2, <2>1, CommitReconcileType DEF ReconcileTx
<1>3. ASSUME NEW t \in Threads, DecisionTx(t) PROVE TypeOK'
  <2>0. GoodCall(call[t]) /\ call[t].op \in {"approve", "reject"} /\ call[t].id \in Ids
    BY <1>0, <1>3 DEF GoodCall, DecisionTx, DecisionNotFound, DecisionInvalid, DecisionExpires,
       DecisionCommits, InDecision
  <2>1. CASE DecisionNotFound(t)
    <3>1. GoodCall([call[t] EXCEPT !.pc = "done", !.out = "not_found"])
      BY <2>0 DEF GoodCall, Call, Pcs, Outcomes
    <3> QED
      BY <3>1, <2>1, <1>c, <1>0 DEF DecisionNotFound
  <2>2. CASE DecisionInvalid(t)
    <3>1. GoodCall([call[t] EXCEPT !.pc = "done", !.out = "invalid"])
      BY <2>0 DEF GoodCall, Call, Pcs, Outcomes
    <3> QED
      BY <3>1, <2>2, <1>c, <1>0 DEF DecisionInvalid
  <2>3. CASE DecisionExpires(t)
    <3>1. GoodCall([call[t] EXCEPT !.pc = "audit", !.todo = {call[t].id}, !.out = "invalid"])
      BY <2>0 DEF GoodCall, Call, Pcs, Outcomes
    <3>2. approvals' \in [Ids -> Row]
      BY <2>3, <1>0, SetStatusType DEF DecisionExpires, Status, Terminal
    <3> QED
      BY <3>1, <3>2, <2>3, <1>c, <1>0 DEF DecisionExpires
  <2>4. CASE DecisionCommits(t)
    <3>1. GoodCall([call[t] EXCEPT !.pc = "read", !.out = "ok"])
      BY <2>0 DEF GoodCall, Call, Pcs, Outcomes
    <3>2. approvals' \in [Ids -> Row]
      BY <2>4, <1>0, SetStatusType DEF DecisionCommits, Target, Status, Terminal, Live
    <3> QED
      BY <3>1, <3>2, <2>4, <1>c, <1>0 DEF DecisionCommits
  <2> QED
    BY <1>3, <2>1, <2>2, <2>3, <2>4 DEF DecisionTx
<1>4. ASSUME NEW t \in Threads,
             ReadRow(t) \/ ReadOverdue(t) \/ ExpireWins(t) \/ ExpireLoses(t) \/ Reread(t)
      PROVE  TypeOK'
  <2>0. GoodCall(call[t]) /\ call[t].op \in {"approve", "reject", "get"} /\ call[t].id \in Ids
    BY <1>0, <1>4 DEF GoodCall, ReadRow, ReadOverdue, ExpireWins, ExpireLoses, Reread
  <2>s. approvals[call[t].id].status \in Status
    BY <2>0, <1>0 DEF Row
  <2>1. CASE ReadRow(t)
    <3> DEFINE c == [call[t] EXCEPT !.pc = "done", !.seen = approvals[call[t].id].status,
                       !.out = IF approvals[call[t].id].status = "ABSENT"
                               THEN "not_found" ELSE "ok"]
    <3>1. GoodCall(c)
      BY <2>0, <2>s DEF GoodCall, Call, Pcs, Outcomes
    <3> QED
      BY <3>1, <2>1, <1>c, <1>0 DEF ReadRow
  <2>2. CASE ReadOverdue(t)
    <3>1. GoodCall([call[t] EXCEPT !.pc = "expire", !.now = clock])
      BY <2>0, <1>0 DEF GoodCall, Call, Pcs
    <3> QED
      BY <3>1, <2>2, <1>c, <1>0 DEF ReadOverdue
  <2>3. CASE ExpireWins(t)
    <3>1. GoodCall([call[t] EXCEPT !.pc = "audit", !.todo = {call[t].id},
                                   !.seen = "EXPIRED", !.out = "ok"])
      <4>1. "EXPIRED" \in Status /\ "audit" \in Pcs /\ "ok" \in Outcomes
        BY DEF Status, Terminal, Pcs, Outcomes
      <4> QED
        BY <2>0, <4>1 DEF GoodCall, Call
    <3>2. approvals' \in [Ids -> Row]
      BY <2>3, <1>0, SetStatusType DEF ExpireWins, Status, Terminal
    <3> QED
      BY <3>1, <3>2, <2>3, <1>c, <1>0 DEF ExpireWins
  <2>4. CASE ExpireLoses(t)
    <3>1. GoodCall([call[t] EXCEPT !.pc = "reread"])
      BY <2>0 DEF GoodCall, Call, Pcs
    <3> QED
      BY <3>1, <2>4, <1>c, <1>0 DEF ExpireLoses
  <2>5. CASE Reread(t)
    <3>1. GoodCall([call[t] EXCEPT !.pc = "done", !.out = "ok",
                                   !.seen = approvals[call[t].id].status])
      BY <2>0, <2>s DEF GoodCall, Call, Pcs, Outcomes
    <3> QED
      BY <3>1, <2>5, <1>c, <1>0 DEF Reread
  <2> QED
    BY <1>4, <2>1, <2>2, <2>3, <2>4, <2>5
<1>5. ASSUME NEW t \in Threads, AuditExpiry(t) PROVE TypeOK'
  <2>1. PICK id \in call[t].todo :
             /\ expiryEvents' = [expiryEvents EXCEPT ![id] = @ + 1]
             /\ Continue(t, [call[t] EXCEPT !.todo = @ \ {id},
                                            !.pc = AfterTx(call[t].todo \ {id})])
    BY <1>5 DEF AuditExpiry
  <2>2. GoodCall([call[t] EXCEPT !.todo = @ \ {id}, !.pc = AfterTx(call[t].todo \ {id})])
    BY <1>0 DEF GoodCall, Call, Pcs, AfterTx
  <2>3. expiryEvents' \in [Ids -> Nat]
    <3>1. call[t].todo \in SUBSET Ids
      BY <1>0 DEF GoodCall, Call
    <3> QED
      BY <2>1, <3>1, <1>0
  <2> QED
    BY <1>5, <2>1, <2>2, <2>3, <1>c, <1>0 DEF AuditExpiry
<1>6. ASSUME NEW t \in Threads, Return(t) \/ Abort(t) PROVE TypeOK'
  BY <1>6, <1>c, <1>0, TypeFacts DEF Return, Abort
<1>7. CASE CreateApproval
  BY <1>7, <1>0, TypeFacts DEF CreateApproval, TypeOK, GoodCall
<1>8. CASE Tick
  BY <1>8, <1>0 DEF Tick, TypeOK, GoodCall
<1>9. CASE UNCHANGED vars
  BY <1>9, <1>0 DEF vars, TypeOK, GoodCall
<1> QED
  BY <1>1, <1>2, <1>3, <1>4, <1>5, <1>6, <1>7, <1>8, <1>9 DEF Next, StoreStep

\* The rows the application starts with: none, or open rows of requests that
\* an earlier version left.
LEMMA StartRows ==
    Init => /\ approvals \in [Ids -> Row]
            /\ \A id \in Ids : approvals[id].status \in Live \cup {"ABSENT"}
            /\ \A id \in Ids : approvals[id].status # "ABSENT" =>
                                  Upgraded /\ approvals[id].request \in Requests
<1> SUFFICES ASSUME Init
             PROVE  /\ approvals \in [Ids -> Row]
                    /\ \A id \in Ids : approvals[id].status \in Live \cup {"ABSENT"}
                    /\ \A id \in Ids : approvals[id].status # "ABSENT" =>
                                          Upgraded /\ approvals[id].request \in Requests
  OBVIOUS
<1>1. MigratedRow \subseteq Row
  BY TimeAssumption, SMT DEF MigratedRow, Row, Status
<1>2. approvals \in [Ids -> {NoRow} \cup MigratedRow]
  BY DEF Init
<1>3. approvals \in [Ids -> Row]
  BY <1>1, <1>2, TypeFacts
<1>4. ASSUME NEW id \in Ids
      PROVE  /\ approvals[id].status \in Live \cup {"ABSENT"}
             /\ approvals[id].status # "ABSENT" =>
                   Upgraded /\ approvals[id].request \in Requests
  <2>1. approvals[id] \in {NoRow} \cup (IF Upgraded THEN MigratedRow ELSE {})
    BY DEF Init
  <2> QED
    BY <2>1 DEF NoRow, MigratedRow
<1> QED
  BY <1>3, <1>4

\* Every variable stays in its type.
THEOREM TypeCorrect == Spec => []TypeOK
<1>1. Init => TypeOK
  BY StartRows, TypeFacts DEF Init, TypeOK, GoodCall
<1> QED
  BY <1>1, TypeStep, PTL DEF Spec

-----------------------------------------------------------------------------
(* How a step changes the rows                                             *)

\* The transaction of reconcile_approval, without its arithmetic: expired and
\* superseded rows are live rows of the request, and all of them but keep.
ReconcileRows(t, r, expired, superseded, keep, fresh) ==
    /\ call[t].pc = "begin"
    /\ fresh \in BOOLEAN
    /\ expired \in SUBSET {id \in LiveOf(r) : Overdue(id, call[t].now)}
    /\ superseded \in SUBSET (LiveOf(r) \ expired)
    /\ approvals' = Reconciled(call[t], expired, superseded, keep, fresh)
    /\ LiveOf(r) \ (expired \cup superseded) \in SUBSET {keep}
    /\ fresh => approvals[keep].status = "ABSENT" /\ keep \in Ids
    /\ call'[t].todo = expired
    /\ call'[t].superseded = superseded
    /\ expiryEvents' = expiryEvents
    /\ clock' = clock

LEMMA ReconcileShape ==
    ASSUME TypeOK, NEW t \in Threads, ReconcileTx(t)
    PROVE  /\ call[t].request \in Requests
           /\ call[t].now \in Nat
           /\ call[t].fingerprint \in Fingerprints
           /\ \E expired, superseded, keep, fresh :
                 ReconcileRows(t, call[t].request, expired, superseded, keep, fresh)
<1> DEFINE r == call[t].request
           f == call[t].fingerprint
           ex == {id \in LiveOf(r) : Overdue(id, call[t].now)}
           live == LiveOf(r) \ ex
<1>1. InCall(t, "reconcile", "begin") /\ r \in Requests /\ f \in Fingerprints /\ call[t].now \in Nat
  BY DEF ReconcileTx, TypeOK, InCall, Call
<1>2. \/ \E keep \in Covering(live, f) : CommitReconcile(t, ex, live \ {keep}, keep, "reused")
      \/ \E keep \in Ids : /\ approvals[keep].status = "ABSENT"
                           /\ CommitReconcile(t, ex, live, keep, "created")
      \/ CommitReconcile(t, ex, live, None, "unneeded")
  BY DEF ReconcileTx
<1>3. ASSUME NEW sup \in SUBSET live, NEW keep, NEW out, CommitReconcile(t, ex, sup, keep, out),
             live \ sup \in SUBSET {keep},
             out = "created" => approvals[keep].status = "ABSENT" /\ keep \in Ids
      PROVE  ReconcileRows(t, r, ex, sup, keep, out = "created")
  <2>1. call'[t].todo = ex /\ call'[t].superseded = sup
    BY <1>3 DEF CommitReconcile, Continue, TypeOK, Call
  <2> QED
    BY <1>1, <1>3, <2>1 DEF ReconcileRows, CommitReconcile, InCall
<1>4. CASE \E keep \in Covering(live, f) : CommitReconcile(t, ex, live \ {keep}, keep, "reused")
  <2>1. PICK keep \in Covering(live, f) : CommitReconcile(t, ex, live \ {keep}, keep, "reused")
    BY <1>4
  <2>2. ReconcileRows(t, r, ex, live \ {keep}, keep, "reused" = "created")
    BY <1>3, <2>1
  <2> QED
    BY <1>1, <2>2
<1>5. CASE \E keep \in Ids : /\ approvals[keep].status = "ABSENT"
                            /\ CommitReconcile(t, ex, live, keep, "created")
  <2>1. PICK keep \in Ids : /\ approvals[keep].status = "ABSENT"
                            /\ CommitReconcile(t, ex, live, keep, "created")
    BY <1>5
  <2>2. ReconcileRows(t, r, ex, live, keep, "created" = "created")
    BY <1>3, <2>1
  <2> QED
    BY <1>1, <2>2
<1>6. CASE CommitReconcile(t, ex, live, None, "unneeded")
  <2>1. ReconcileRows(t, r, ex, live, None, "unneeded" = "created")
    BY <1>3, <1>6
  <2> QED
    BY <1>1, <2>1
<1> QED
  BY <1>2, <1>4, <1>5, <1>6

\* A decision or an expiry found the row pending; an expiry found it overdue.
SettleRow(id, s) ==
    /\ approvals[id].status = "PENDING"
    /\ s = "EXPIRED" => \E t \in Threads : Overdue(id, call[t].now)
    /\ approvals' = [approvals EXCEPT ![id].status = s]

LEMMA RowSteps ==
    ASSUME TypeOK, [Next]_vars
    PROVE  \/ approvals' = approvals
           \/ \E id \in Ids, s \in {"APPROVED", "REJECTED", "EXPIRED"} : SettleRow(id, s)
           \/ \E t \in Threads : ReconcileTx(t)
           \/ CreateApproval
<1>1. ASSUME NEW t \in Threads, DecisionTx(t)
      PROVE  \/ approvals' = approvals
             \/ \E id \in Ids, s \in {"APPROVED", "REJECTED", "EXPIRED"} : SettleRow(id, s)
  <2>1. call[t].id \in Ids
    BY <1>1 DEF TypeOK, DecisionTx, DecisionNotFound, DecisionInvalid, DecisionExpires,
       DecisionCommits, InDecision
  <2> QED
    BY <1>1, <2>1 DEF DecisionTx, DecisionNotFound, DecisionInvalid, DecisionExpires,
       DecisionCommits, Overdue, Target, SettleRow
<1>2. ASSUME NEW t \in Threads, ExpireWins(t)
      PROVE  \E id \in Ids : SettleRow(id, "EXPIRED")
  <2>1. call[t].id \in Ids
    BY <1>2 DEF TypeOK, ExpireWins
  <2> QED
    BY <1>2, <2>1 DEF ExpireWins, Overdue, SettleRow
<1> QED
  BY <1>1, <1>2 DEF Next, vars, Enter, StartReconcile, StartDecision, StartGet, StoreStep,
     ReadRow, ReadOverdue, ExpireLoses, Reread, AuditExpiry, Return, Abort, Tick

-----------------------------------------------------------------------------
(* The life of an approval                                                 *)

LEMMA LifecycleOfStep == TypeOK /\ [Next]_vars => LifecycleStep
<1> SUFFICES ASSUME TypeOK, [Next]_vars, NEW id \in Ids, approvals'[id] # approvals[id]
             PROVE  /\ approvals'[id].status \in Successors[approvals[id].status]
                    /\ approvals[id].status # "ABSENT" =>
                          approvals'[id] = [approvals[id] EXCEPT !.status = approvals'[id].status]
  BY DEF LifecycleStep
<1>1. CASE \E other \in Ids, s \in {"APPROVED", "REJECTED", "EXPIRED"} : SettleRow(other, s)
  BY <1>1 DEF SettleRow, TypeOK, Row, Successors, Terminal
<1>2. ASSUME NEW t \in Threads, ReconcileTx(t)
      PROVE  /\ approvals'[id].status \in Successors[approvals[id].status]
             /\ approvals[id].status # "ABSENT" =>
                   approvals'[id] = [approvals[id] EXCEPT !.status = approvals'[id].status]
  <2>1. PICK expired, superseded, keep, fresh :
             ReconcileRows(t, call[t].request, expired, superseded, keep, fresh)
    BY <1>2, ReconcileShape
  <2>2. CASE id \in expired
    <3>1. approvals[id].status = "PENDING"
      BY <2>1, <2>2 DEF ReconcileRows, Overdue
    <3>2. approvals'[id] = [approvals[id] EXCEPT !.status = "EXPIRED"]
      BY <2>1, <2>2 DEF ReconcileRows, Reconciled
    <3> QED
      BY <3>1, <3>2 DEF Successors, Terminal, TypeOK, Row
  <2>3. CASE id \notin expired /\ id \in superseded
    <3>1. approvals[id].status \in Live
      BY <2>1, <2>3 DEF ReconcileRows, LiveOf
    <3>2. approvals'[id] = [approvals[id] EXCEPT !.status = "SUPERSEDED"]
      BY <2>1, <2>3 DEF ReconcileRows, Reconciled
    <3> QED
      BY <3>1, <3>2 DEF Successors, Terminal, Live, TypeOK, Row
  <2>4. CASE id \notin expired /\ id \notin superseded
    <3>1. fresh /\ id = keep /\ approvals[id].status = "ABSENT"
      BY <2>1, <2>4 DEF ReconcileRows, Reconciled
    <3>2. approvals'[id].status = "PENDING"
      BY <2>1, <2>4, <3>1 DEF ReconcileRows, Reconciled, NewRow
    <3> QED
      BY <3>1, <3>2 DEF Successors
  <2> QED
    BY <2>2, <2>3, <2>4
<1>3. CASE CreateApproval
  BY <1>3 DEF CreateApproval, NewRow, TypeOK, Successors
<1> QED
  BY <1>1, <1>2, <1>3, RowSteps

\* Whatever the threads do, an approval follows its life cycle: no decided,
\* expired or superseded approval ever comes back.
THEOREM LifecycleHolds == Spec => Lifecycle
<1>1. TypeOK /\ [Next]_vars => [LifecycleStep]_vars
  BY LifecycleOfStep
<1> QED
  BY <1>1, TypeCorrect, PTL DEF Spec, Lifecycle

-----------------------------------------------------------------------------
(* One live approval per request                                           *)

\* As long as reconcile_approval alone has inserted and inserts rows, a
\* request never has two live approvals.  The induction needs no more than
\* the types: the transaction itself re-establishes the invariant.
THEOREM OneLiveApproval ==
    ASSUME ~DirectCreate, ~Upgraded PROVE Spec => []SingleLive
<1>1. Init => SingleLive
  BY StartRows DEF SingleLive, Live
<1>2. TypeOK /\ SingleLive /\ [Next]_vars => SingleLive'
  <2> SUFFICES ASSUME TypeOK, SingleLive, [Next]_vars,
                      NEW id \in Ids, NEW other \in Ids,
                      approvals'[id].status \in Live, approvals'[other].status \in Live,
                      approvals'[id].request = approvals'[other].request
               PROVE  id = other
    BY DEF SingleLive
  <2>1. CASE approvals' = approvals
    BY <2>1 DEF SingleLive
  <2>2. CASE \E some \in Ids, s \in {"APPROVED", "REJECTED", "EXPIRED"} : SettleRow(some, s)
    BY <2>2 DEF SettleRow, SingleLive, TypeOK, Row, Live
  <2>3. ASSUME NEW t \in Threads, ReconcileTx(t) PROVE id = other
    <3> DEFINE r == call[t].request
    <3>1. PICK expired, superseded, keep, fresh :
               ReconcileRows(t, r, expired, superseded, keep, fresh)
      BY <2>3, ReconcileShape
    \* After the transaction a live row of the request is keep, and a live
    \* row of another request is untouched.
    <3>2. ASSUME NEW x \in Ids, approvals'[x].status \in Live
          PROVE  \/ x = keep /\ approvals'[x].request = r
                 \/ /\ approvals'[x] = approvals[x] /\ approvals[x].request # r
      <4>1. x \notin expired /\ x \notin superseded
        BY <3>1, <3>2 DEF ReconcileRows, Reconciled, LiveOf, TypeOK, Row, Live
      <4>2. CASE fresh /\ x = keep
        BY <3>1, <4>1, <4>2 DEF ReconcileRows, Reconciled, NewRow
      <4>3. CASE ~(fresh /\ x = keep)
        <5>1. approvals'[x] = approvals[x]
          BY <3>1, <4>1, <4>3 DEF ReconcileRows, Reconciled
        <5>2. approvals[x].request = r => x \in LiveOf(r)
          BY <5>1, <3>2 DEF LiveOf
        <5>3. approvals[x].request = r => x = keep
          BY <5>2, <4>1, <3>1 DEF ReconcileRows
        <5> QED
          BY <5>1, <5>3
      <4> QED
        BY <4>2, <4>3
    <3> QED
      BY <3>2 DEF SingleLive
  <2>4. ~CreateApproval
    BY DEF CreateApproval
  <2> QED
    BY <2>1, <2>2, <2>3, <2>4, RowSteps
<1> QED
  BY <1>1, <1>2, TypeCorrect, PTL DEF Spec

-----------------------------------------------------------------------------
(* Expiry: audited once, and never early                                   *)

\* The strengthening of OneExpiryEvent: a call that still has to audit an
\* expiry is the only one, and the event is not in the table yet.
ExpiryInv ==
    /\ \A id \in Ids : expiryEvents[id] \in {0, 1}
    /\ \A id \in Ids : expiryEvents[id] = 1 => approvals[id].status = "EXPIRED"
    /\ \A t \in Threads : \A id \in call[t].todo :
          approvals[id].status = "EXPIRED" /\ expiryEvents[id] = 0
    /\ \A t, u \in Threads : t # u => call[t].todo \cap call[u].todo = {}

LEMMA ExpiredStays ==
    ASSUME TypeOK, [Next]_vars, NEW id \in Ids, approvals[id].status = "EXPIRED"
    PROVE  approvals'[id].status = "EXPIRED"
<1>1. Successors["EXPIRED"] = {}
  BY DEF Successors
<1>2. approvals'[id] # approvals[id] => approvals'[id].status \in Successors["EXPIRED"]
  BY LifecycleOfStep DEF LifecycleStep
<1> QED
  BY <1>1, <1>2

\* What a step does to the lists of expiries still to be audited: they
\* shrink, or one call takes over rows that were pending until now, or one
\* call audits one.
KeepsTodo ==
    /\ expiryEvents' = expiryEvents
    /\ \A u \in Threads : call'[u].todo \in SUBSET call[u].todo

TakesTodo(t) ==
    /\ expiryEvents' = expiryEvents
    /\ \A u \in Threads \ {t} : call'[u] = call[u]
    /\ \A id \in call'[t].todo : /\ id \in Ids
                                 /\ approvals[id].status = "PENDING"
                                 /\ approvals'[id].status = "EXPIRED"

AuditsTodo(t, id) ==
    /\ id \in call[t].todo
    /\ expiryEvents' = [expiryEvents EXCEPT ![id] = @ + 1]
    /\ call'[t].todo = call[t].todo \ {id}
    /\ \A u \in Threads \ {t} : call'[u] = call[u]
    /\ approvals' = approvals

LEMMA TodoSteps ==
    ASSUME TypeOK, [Next]_vars
    PROVE  \/ KeepsTodo
           \/ \E t \in Threads : TakesTodo(t)
           \/ \E t \in Threads : \E id : AuditsTodo(t, id)
<1>0. call \in [Threads -> Call] /\ approvals \in [Ids -> Row]
  BY DEF TypeOK
<1>e. ASSUME NEW t \in Threads, NEW c, Continue(t, c)
      PROVE  call'[t] = c /\ \A u \in Threads \ {t} : call'[u] = call[u]
  BY <1>0, <1>e DEF Continue
\* A step of one thread that keeps or empties its list.
<1>c. ASSUME NEW t \in Threads, NEW c, Continue(t, c), c.todo \in SUBSET call[t].todo,
             expiryEvents' = expiryEvents
      PROVE  KeepsTodo
  <2>1. ASSUME NEW u \in Threads PROVE call'[u].todo \in SUBSET call[u].todo
    BY <1>c, <1>e
  <2> QED
    BY <1>c, <2>1 DEF KeepsTodo
<1>i. Idle.todo = {}
  BY DEF Idle
<1>1. ASSUME NEW t \in Threads, Enter(t) PROVE KeepsTodo
  <2>1. ASSUME NEW r \in Requests, NEW f \in Fingerprints, NEW required \in BOOLEAN,
               StartReconcile(t, r, f, required)
        PROVE  KeepsTodo
    BY <2>1, <1>c DEF StartReconcile, Idle
  <2>2. ASSUME NEW op \in {"approve", "reject"}, NEW id \in Ids, NEW authorised \in BOOLEAN,
               StartDecision(t, op, id, authorised)
        PROVE  KeepsTodo
    BY <2>2, <1>c DEF StartDecision, Idle
  <2>3. ASSUME NEW id \in Ids, StartGet(t, id) PROVE KeepsTodo
    BY <2>3, <1>c DEF StartGet, Idle
  <2> QED
    BY <1>1, <2>1, <2>2, <2>3 DEF Enter
<1>2. ASSUME NEW t \in Threads, ReconcileTx(t) PROVE TakesTodo(t)
  <2>1. PICK expired, superseded, keep, fresh :
             ReconcileRows(t, call[t].request, expired, superseded, keep, fresh)
    BY <1>2, ReconcileShape
  <2>2. \A u \in Threads \ {t} : call'[u] = call[u]
    BY <1>2, <1>e DEF ReconcileTx, CommitReconcile
  <2>3. ASSUME NEW id \in expired
        PROVE  /\ id \in Ids
               /\ approvals[id].status = "PENDING"
               /\ approvals'[id].status = "EXPIRED"
    BY <2>1, <2>3, <1>0 DEF ReconcileRows, LiveOf, Overdue, Reconciled, Row
  <2> QED
    BY <2>1, <2>2, <2>3 DEF ReconcileRows, TakesTodo
<1>3. ASSUME NEW t \in Threads, DecisionExpires(t) \/ ExpireWins(t) PROVE TakesTodo(t)
  <2>1. call[t].id \in Ids /\ call[t] \in Call
    BY <1>3 DEF TypeOK, DecisionExpires, ExpireWins, InDecision
  <2>2. /\ approvals[call[t].id].status = "PENDING"
        /\ approvals'[call[t].id].status = "EXPIRED"
        /\ expiryEvents' = expiryEvents
    BY <1>3, <2>1, <1>0 DEF DecisionExpires, ExpireWins, Overdue, Row
  <2>3. call'[t].todo = {call[t].id} /\ \A u \in Threads \ {t} : call'[u] = call[u]
    <3>1. CASE DecisionExpires(t)
      <4>1. Continue(t, [call[t] EXCEPT !.pc = "audit", !.todo = {call[t].id},
                                        !.out = "invalid"])
        BY <3>1 DEF DecisionExpires
      <4>2. /\ call'[t] = [call[t] EXCEPT !.pc = "audit", !.todo = {call[t].id},
                                          !.out = "invalid"]
            /\ \A u \in Threads \ {t} : call'[u] = call[u]
        BY <4>1, <1>e
      <4> QED
        BY <4>2, <2>1 DEF Call
    <3>2. CASE ExpireWins(t)
      <4>1. Continue(t, [call[t] EXCEPT !.pc = "audit", !.todo = {call[t].id},
                                        !.seen = "EXPIRED", !.out = "ok"])
        BY <3>2 DEF ExpireWins
      <4>2. /\ call'[t] = [call[t] EXCEPT !.pc = "audit", !.todo = {call[t].id},
                                          !.seen = "EXPIRED", !.out = "ok"]
            /\ \A u \in Threads \ {t} : call'[u] = call[u]
        BY <4>1, <1>e
      <4> QED
        BY <4>2, <2>1 DEF Call
    <3> QED
      BY <1>3, <3>1, <3>2
  <2> QED
    BY <2>1, <2>2, <2>3 DEF TakesTodo
<1>4. ASSUME NEW t \in Threads,
             \/ DecisionNotFound(t) \/ DecisionInvalid(t) \/ DecisionCommits(t)
             \/ ReadRow(t) \/ ReadOverdue(t) \/ ExpireLoses(t) \/ Reread(t)
             \/ Return(t) \/ Abort(t)
      PROVE  KeepsTodo
  <2>1. call[t] \in Call
    BY <1>0
  <2>2. CASE DecisionNotFound(t) \/ DecisionInvalid(t) \/ DecisionCommits(t)
    BY <2>1, <2>2, <1>c DEF DecisionNotFound, DecisionInvalid, DecisionCommits, Call
  <2>3. CASE ReadRow(t) \/ ReadOverdue(t) \/ ExpireLoses(t) \/ Reread(t)
    BY <2>1, <2>3, <1>c DEF ReadRow, ReadOverdue, ExpireLoses, Reread, Call
  <2>4. CASE Return(t) \/ Abort(t)
    BY <2>4, <1>c, <1>i DEF Return, Abort
  <2> QED
    BY <1>4, <2>2, <2>3, <2>4
<1>5. ASSUME NEW t \in Threads, AuditExpiry(t) PROVE \E id : AuditsTodo(t, id)
  <2>1. call[t] \in Call
    BY <1>0
  <2>2. PICK id \in call[t].todo :
             /\ expiryEvents' = [expiryEvents EXCEPT ![id] = @ + 1]
             /\ Continue(t, [call[t] EXCEPT !.todo = @ \ {id},
                                            !.pc = AfterTx(call[t].todo \ {id})])
    BY <1>5 DEF AuditExpiry
  <2>3. call'[t].todo = call[t].todo \ {id} /\ \A u \in Threads \ {t} : call'[u] = call[u]
    BY <2>1, <2>2, <1>e DEF Call
  <2> QED
    BY <1>5, <2>2, <2>3 DEF AuditsTodo, AuditExpiry
<1>6. CASE CreateApproval \/ Tick \/ UNCHANGED vars
  BY <1>6 DEF CreateApproval, Tick, vars, KeepsTodo
<1> QED
  BY <1>1, <1>2, <1>3, <1>4, <1>5, <1>6 DEF Next, StoreStep, DecisionTx

LEMMA ExpiryInvStep == TypeOK /\ ExpiryInv /\ [Next]_vars => ExpiryInv'
<1> SUFFICES ASSUME TypeOK, ExpiryInv, [Next]_vars PROVE ExpiryInv'
  OBVIOUS
<1>0. /\ \A t \in Threads : call[t].todo \in SUBSET Ids
      /\ expiryEvents \in [Ids -> Nat]
  BY DEF TypeOK, Call
<1>s. \A id \in Ids : approvals[id].status = "EXPIRED" => approvals'[id].status = "EXPIRED"
  BY ExpiredStays
<1>1. CASE KeepsTodo
  BY <1>0, <1>s, <1>1 DEF KeepsTodo, ExpiryInv
<1>2. ASSUME NEW t \in Threads, TakesTodo(t) PROVE ExpiryInv'
  \* The rows taken over were pending: nobody audited them or is about to.
  <2>1. \A id \in call'[t].todo : expiryEvents'[id] = 0
    BY <1>0, <1>2 DEF TakesTodo, ExpiryInv
  <2>2. \A u \in Threads \ {t} : call'[t].todo \cap call'[u].todo = {}
    BY <1>0, <1>2 DEF TakesTodo, ExpiryInv
  <2>3. /\ \A id \in Ids : expiryEvents'[id] \in {0, 1}
        /\ \A id \in Ids : expiryEvents'[id] = 1 => approvals'[id].status = "EXPIRED"
    BY <1>0, <1>s, <1>2 DEF TakesTodo, ExpiryInv
  <2>4. \A u \in Threads : \A id \in call'[u].todo :
           approvals'[id].status = "EXPIRED" /\ expiryEvents'[id] = 0
    BY <1>0, <1>s, <1>2, <2>1 DEF TakesTodo, ExpiryInv
  <2>5. \A u, w \in Threads : u # w => call'[u].todo \cap call'[w].todo = {}
    <3> SUFFICES ASSUME NEW u \in Threads, NEW w \in Threads, u # w
                 PROVE  call'[u].todo \cap call'[w].todo = {}
      OBVIOUS
    <3>1. CASE u = t \/ w = t
      BY <3>1, <2>2
    <3>2. CASE u # t /\ w # t
      BY <3>2, <1>2 DEF TakesTodo, ExpiryInv
    <3> QED
      BY <3>1, <3>2
  <2> QED
    BY <2>3, <2>4, <2>5 DEF ExpiryInv
<1>3. ASSUME NEW t \in Threads, NEW id, AuditsTodo(t, id) PROVE ExpiryInv'
  <2>1. id \in Ids /\ approvals[id].status = "EXPIRED" /\ expiryEvents[id] = 0
    BY <1>0, <1>3 DEF AuditsTodo, ExpiryInv
  <2>2. /\ expiryEvents'[id] = 1
        /\ \A x \in Ids \ {id} : expiryEvents'[x] = expiryEvents[x]
    BY <1>0, <1>3, <2>1 DEF AuditsTodo
  <2>3. \A u \in Threads : call'[u].todo \in SUBSET call[u].todo /\ id \notin call'[u].todo
    BY <1>3 DEF AuditsTodo, ExpiryInv
  <2>4. /\ \A x \in Ids : expiryEvents'[x] \in {0, 1}
        /\ \A x \in Ids : expiryEvents'[x] = 1 => approvals'[x].status = "EXPIRED"
    BY <1>3, <2>1, <2>2 DEF AuditsTodo, ExpiryInv
  <2>5. \A u \in Threads : \A x \in call'[u].todo :
           approvals'[x].status = "EXPIRED" /\ expiryEvents'[x] = 0
    BY <1>0, <1>3, <2>2, <2>3 DEF AuditsTodo, ExpiryInv
  <2>6. \A u, w \in Threads : u # w => call'[u].todo \cap call'[w].todo = {}
    BY <2>3 DEF ExpiryInv
  <2> QED
    BY <2>4, <2>5, <2>6 DEF ExpiryInv
<1> QED
  BY <1>1, <1>2, <1>3, TodoSteps

\* An expired approval has at most one APPROVAL_EXPIRED event, whichever of
\* the three methods expires it and however many threads notice.
THEOREM ExpiryAuditedOnce == Spec => []OneExpiryEvent
<1>1. Init => ExpiryInv
  BY DEF Init, ExpiryInv, Idle
<1>2. ExpiryInv => OneExpiryEvent
  BY DEF ExpiryInv, OneExpiryEvent
<1> QED
  BY <1>1, <1>2, ExpiryInvStep, TypeCorrect, PTL DEF Spec

\* A call never works with a clock reading from the future.
NowPast == \A t \in Threads : call[t].now <= clock

LEMMA NowPastStep == TypeOK /\ NowPast /\ [Next]_vars => NowPast'
<1> SUFFICES ASSUME TypeOK, NowPast, [Next]_vars PROVE NowPast'
  OBVIOUS
<1>0. call \in [Threads -> Call] /\ clock \in Nat
  BY DEF TypeOK
\* A step of one thread that keeps its reading, resets it or reads the clock.
<1>c. ASSUME NEW t \in Threads, NEW c, Continue(t, c), clock' = clock,
             c.now = call[t].now \/ c.now = clock \/ c.now = 0
      PROVE  NowPast'
  <2>1. ASSUME NEW u \in Threads PROVE call'[u].now <= clock'
    BY <1>0, <1>c DEF Continue, NowPast
  <2> QED
    BY <2>1 DEF NowPast
<1>1. ASSUME NEW t \in Threads, Enter(t) PROVE NowPast'
  <2>1. ASSUME NEW r \in Requests, NEW f \in Fingerprints, NEW required \in BOOLEAN,
               StartReconcile(t, r, f, required)
        PROVE  NowPast'
    BY <2>1, <1>c DEF StartReconcile, Idle
  <2>2. ASSUME NEW op \in {"approve", "reject"}, NEW id \in Ids, NEW authorised \in BOOLEAN,
               StartDecision(t, op, id, authorised)
        PROVE  NowPast'
    BY <2>2, <1>c DEF StartDecision, Idle
  <2>3. ASSUME NEW id \in Ids, StartGet(t, id) PROVE NowPast'
    BY <2>3, <1>c DEF StartGet, Idle
  <2> QED
    BY <1>1, <2>1, <2>2, <2>3 DEF Enter
<1>2. ASSUME NEW t \in Threads, ReconcileTx(t) PROVE NowPast'
  <2>1. PICK expired, superseded, keep, out : CommitReconcile(t, expired, superseded, keep, out)
    BY <1>2 DEF ReconcileTx
  <2>2. call[t] \in Call
    BY <1>0
  <2> QED
    BY <2>1, <2>2, <1>c DEF CommitReconcile, Call
<1>3. ASSUME NEW t \in Threads, DecisionTx(t) PROVE NowPast'
  <2>1. call[t] \in Call
    BY <1>0
  <2> QED
    BY <2>1, <1>3, <1>c DEF DecisionTx, DecisionNotFound, DecisionInvalid, DecisionExpires,
       DecisionCommits, Call
<1>4. ASSUME NEW t \in Threads,
             ReadRow(t) \/ ReadOverdue(t) \/ ExpireWins(t) \/ ExpireLoses(t) \/ Reread(t)
      PROVE  NowPast'
  <2>1. call[t] \in Call
    BY <1>0
  <2> QED
    BY <2>1, <1>4, <1>c DEF ReadRow, ReadOverdue, ExpireWins, ExpireLoses, Reread, Call
<1>5. ASSUME NEW t \in Threads, AuditExpiry(t) PROVE NowPast'
  <2>1. call[t] \in Call
    BY <1>0
  <2> QED
    BY <2>1, <1>5, <1>c DEF AuditExpiry, Call
<1>6. ASSUME NEW t \in Threads, Return(t) \/ Abort(t) PROVE NowPast'
  BY <1>6, <1>c DEF Return, Abort, Idle
<1>7. CASE CreateApproval \/ UNCHANGED vars
  BY <1>7 DEF CreateApproval, vars, NowPast
<1>8. CASE Tick
  BY <1>8, <1>0 DEF Tick, NowPast, Call
<1> QED
  BY <1>1, <1>2, <1>3, <1>4, <1>5, <1>6, <1>7, <1>8 DEF Next, StoreStep

\* A row expires only after its deadline, although the clock that decided it
\* was sampled before the lock was taken.
THEOREM ExpiryNeverEarly == Spec => []NotExpiredEarly
<1>1. Init => NowPast /\ NotExpiredEarly
  <2>1. Init => NotExpiredEarly
    BY StartRows DEF NotExpiredEarly, Live
  <2>2. Init => NowPast
    BY SMT DEF Init, NowPast, Idle
  <2> QED
    BY <2>1, <2>2
<1>2. TypeOK /\ NowPast /\ NotExpiredEarly /\ [Next]_vars => NotExpiredEarly'
  <2> SUFFICES ASSUME TypeOK, NowPast, NotExpiredEarly, [Next]_vars,
                      NEW id \in Ids, approvals'[id].status = "EXPIRED"
               PROVE  clock' > approvals'[id].expires
    BY DEF NotExpiredEarly
  <2>0. /\ approvals \in [Ids -> Row] /\ approvals[id].expires \in Nat /\ clock \in Nat
        /\ \A t \in Threads : call[t].now \in Nat
    BY DEF TypeOK, Row, Call
  <2>1. clock' \in Nat /\ clock' >= clock
    <3>1. ASSUME NEW t \in Threads, ReconcileTx(t) PROVE clock' = clock
      BY <3>1, ReconcileShape DEF ReconcileRows
    <3>2. ASSUME NEW t \in Threads, StoreStep(t), ~ReconcileTx(t) PROVE clock' = clock
      BY <3>2 DEF StoreStep, DecisionTx, DecisionNotFound, DecisionInvalid, DecisionExpires,
         DecisionCommits, ReadRow, ReadOverdue, ExpireWins, ExpireLoses, Reread, AuditExpiry
    <3>3. ASSUME NEW t \in Threads, Enter(t) \/ Return(t) \/ Abort(t) PROVE clock' = clock
      BY <3>3 DEF Enter, StartReconcile, StartDecision, StartGet, Return, Abort
    <3>4. CASE CreateApproval \/ UNCHANGED vars
      BY <3>4, <2>0 DEF CreateApproval, vars
    <3>5. CASE Tick
      BY <3>5, <2>0 DEF Tick
    <3> QED
      BY <3>1, <3>2, <3>3, <3>4, <3>5, <2>0 DEF Next
  <2>2. CASE approvals[id].status = "EXPIRED"
    <3>1. approvals'[id] = approvals[id]
      <4>1. Successors["EXPIRED"] = {}
        BY DEF Successors
      <4> QED
        BY <4>1, <2>2, LifecycleOfStep DEF LifecycleStep
    <3> QED
      BY <2>0, <2>1, <2>2, <3>1 DEF NotExpiredEarly
  <2>3. CASE approvals[id].status # "EXPIRED"
    <3>1. (\E t \in Threads : Overdue(id, call[t].now)) /\ approvals'[id].expires = approvals[id].expires
      <4>1. CASE \E other \in Ids, s \in {"APPROVED", "REJECTED", "EXPIRED"} : SettleRow(other, s)
        BY <4>1, <2>0, <2>3 DEF SettleRow, Row
      <4>2. ASSUME NEW t \in Threads, ReconcileTx(t)
            PROVE  Overdue(id, call[t].now) /\ approvals'[id].expires = approvals[id].expires
        <5>1. PICK expired, superseded, keep, fresh :
                   ReconcileRows(t, call[t].request, expired, superseded, keep, fresh)
          BY <4>2, ReconcileShape
        <5>2. id \in expired
          BY <5>1, <2>0, <2>3 DEF ReconcileRows, Reconciled, NewRow, Row
        <5> QED
          BY <5>1, <5>2, <2>0 DEF ReconcileRows, Reconciled, Row
      <4>3. CASE CreateApproval
        BY <4>3, <2>0, <2>3 DEF CreateApproval, NewRow
      <4> QED
        BY <4>1, <4>2, <4>3, <2>3, RowSteps
    <3> QED
      BY <3>1, <2>0, <2>1 DEF Overdue, NowPast
  <2> QED
    BY <2>2, <2>3
<1> QED
  BY <1>1, <1>2, NowPastStep, TypeCorrect, PTL DEF Spec

-----------------------------------------------------------------------------
(* Whoever changed an approval is told so, and nobody else.                *)

Decisions == {"approve", "reject"}

\* What a row shows once a decision succeeded: a rejection is final, an
\* approval may be superseded.
Settled(op) == IF op = "approve" THEN {"APPROVED", "SUPERSEDED"} ELSE {"REJECTED"}

Won(c) == c.op \in Decisions /\ c.out = "ok"

\* A decision reads the row again only after it has won; while it is won the
\* row is settled, so that the read cannot find it overdue.
Decided(c, rows) ==
    /\ c.op \in Decisions /\ c.pc \in {"read", "expire", "reread"} =>
          c.pc = "read" /\ c.out = "ok"
    /\ Won(c) => /\ c.pc \in {"read", "done"}
                 /\ rows[c.id].status \in Settled(c.op)
                 /\ c.pc = "done" => c.seen \in Settled(c.op)

OneWinner ==
    \A t, u \in Threads : Won(call[t]) /\ Won(call[u]) /\ call[t].id = call[u].id => t = u

DecisionInv == OneWinner /\ \A t \in Threads : Decided(call[t], approvals)

\* A settled row stays settled.
LEMMA SettledStays ==
    ASSUME TypeOK, [Next]_vars, NEW id \in Ids, NEW op \in Decisions,
           approvals[id].status \in Settled(op)
    PROVE  approvals'[id].status \in Settled(op)
<1>1. approvals'[id].status # approvals[id].status =>
         approvals'[id].status \in Successors[approvals[id].status]
  BY LifecycleOfStep DEF LifecycleStep
<1> QED
  BY <1>1 DEF Settled, Successors

\* A call that was just entered knows nothing yet.
LEMMA Entered ==
    ASSUME NEW t \in Threads, Enter(t)
    PROVE  /\ approvals' = approvals
           /\ \E c : /\ Continue(t, c)
                    /\ c.superseded = {} /\ c.seen = "ABSENT" /\ c.out \in {"none", "denied"}
                    /\ \/ c.op \notin {"approve", "reject"}
                       \/ c.pc \in {"begin", "done"}
<1>1. ASSUME NEW r, NEW f, NEW required, StartReconcile(t, r, f, required)
      PROVE  /\ approvals' = approvals
             /\ \E c : /\ Continue(t, c) /\ c.op = "reconcile"
                      /\ c.superseded = {} /\ c.seen = "ABSENT" /\ c.out = "none"
  <2> DEFINE c == [Idle EXCEPT !.op = "reconcile", !.pc = "begin", !.request = r,
                     !.fingerprint = f, !.required = required, !.now = clock]
  <2>1. Continue(t, c) /\ approvals' = approvals
    BY <1>1 DEF StartReconcile
  <2>2. c.op = "reconcile" /\ c.superseded = {} /\ c.seen = "ABSENT" /\ c.out = "none"
    BY DEF Idle
  <2> QED
    BY <2>1, <2>2
<1>2. ASSUME NEW op, NEW id, NEW authorised, StartDecision(t, op, id, authorised)
      PROVE  /\ approvals' = approvals
             /\ \E c : /\ Continue(t, c) /\ c.pc \in {"begin", "done"}
                      /\ c.superseded = {} /\ c.seen = "ABSENT" /\ c.out \in {"none", "denied"}
  <2> DEFINE c == [Idle EXCEPT !.op = op, !.id = id,
                     !.pc = IF authorised THEN "begin" ELSE "done",
                     !.out = IF authorised THEN "none" ELSE "denied",
                     !.now = IF authorised THEN clock ELSE 0]
  <2>1. Continue(t, c) /\ approvals' = approvals
    BY <1>2 DEF StartDecision
  <2>2. /\ c.pc \in {"begin", "done"} /\ c.superseded = {} /\ c.seen = "ABSENT"
        /\ c.out \in {"none", "denied"}
    BY DEF Idle
  <2> QED
    BY <2>1, <2>2
<1>3. ASSUME NEW id, StartGet(t, id)
      PROVE  /\ approvals' = approvals
             /\ \E c : /\ Continue(t, c) /\ c.op = "get"
                      /\ c.superseded = {} /\ c.seen = "ABSENT" /\ c.out = "none"
  <2> DEFINE c == [Idle EXCEPT !.op = "get", !.pc = "read", !.id = id]
  <2>1. Continue(t, c) /\ approvals' = approvals
    BY <1>3 DEF StartGet
  <2>2. c.op = "get" /\ c.superseded = {} /\ c.seen = "ABSENT" /\ c.out = "none"
    BY DEF Idle
  <2> QED
    BY <2>1, <2>2
<1> QED
  BY <1>1, <1>2, <1>3 DEF Enter

\* Every step of a thread replaces its call.
LEMMA OwnStep ==
    ASSUME TypeOK, NEW t \in Threads, Enter(t) \/ StoreStep(t) \/ Return(t) \/ Abort(t)
    PROVE  \E c : Continue(t, c)
<1>1. ASSUME ReconcileTx(t) PROVE \E c : Continue(t, c)
  BY <1>1 DEF ReconcileTx, CommitReconcile
<1> QED
  BY <1>1 DEF Enter, StartReconcile, StartDecision, StartGet, StoreStep, DecisionTx,
     DecisionNotFound, DecisionInvalid, DecisionExpires, DecisionCommits, ReadRow, ReadOverdue,
     ExpireWins, ExpireLoses, Reread, AuditExpiry, Return, Abort

\* Only the call that commits becomes one that has won.
LEMMA WinnerStep ==
    ASSUME TypeOK, NEW t \in Threads, Decided(call[t], approvals),
           Enter(t) \/ StoreStep(t) \/ Return(t) \/ Abort(t)
    PROVE  /\ Decided(call'[t], approvals')
           /\ Won(call'[t]) => /\ call'[t].id = call[t].id /\ call'[t].id \in Ids
                               /\ Won(call[t]) \/ DecisionCommits(t)
<1> DEFINE Goal(c) == /\ Decided(c, approvals')
                      /\ Won(c) => /\ c.id = call[t].id /\ c.id \in Ids
                                   /\ Won(call[t]) \/ DecisionCommits(t)
<1>0. /\ call \in [Threads -> Call] /\ call[t] \in Call /\ approvals \in [Ids -> Row]
      /\ call[t].op \in Decisions => call[t].id \in Ids
  BY DEF TypeOK, Decisions
<1>c. ASSUME NEW c, Continue(t, c) PROVE call'[t] = c
  BY <1>0, <1>c DEF Continue
\* A call that is no decision, or one that was refused, promises nothing.
<1>n. ASSUME NEW c, \/ c.op \notin Decisions
                    \/ c.out # "ok" /\ c.pc \notin {"read", "expire", "reread"}
      PROVE  Goal(c)
  BY <1>n DEF Decided, Won
<1>1. CASE Enter(t)
  <2>1. PICK c : /\ Continue(t, c)
                 /\ \/ c.op \notin {"approve", "reject"}
                    \/ c.out \in {"none", "denied"} /\ c.pc \in {"begin", "done"}
    BY <1>1, Entered
  <2> QED
    BY <2>1, <1>c, <1>n DEF Decisions
<1>2. CASE ReconcileTx(t)
  <2>1. PICK expired, superseded, keep, out : CommitReconcile(t, expired, superseded, keep, out)
    BY <1>2 DEF ReconcileTx
  <2>2. call'[t].op = "reconcile"
    BY <1>0, <1>2, <2>1, <1>c DEF ReconcileTx, InCall, CommitReconcile, Call
  <2> QED
    BY <2>2, <1>n DEF Decisions
<1>3. CASE DecisionNotFound(t) \/ DecisionInvalid(t) \/ DecisionExpires(t)
  <2>1. call'[t].out \in {"not_found", "invalid"} /\ call'[t].pc \in {"done", "audit"}
    BY <1>0, <1>3, <1>c DEF DecisionNotFound, DecisionInvalid, DecisionExpires, Call
  <2> QED
    BY <2>1, <1>n
<1>4. CASE DecisionCommits(t)
  <2>1. /\ call'[t].op = call[t].op /\ call'[t].id = call[t].id /\ call'[t].pc = "read"
        /\ call'[t].out = "ok" /\ call[t].op \in Decisions
    BY <1>0, <1>4, <1>c DEF DecisionCommits, InDecision, Decisions, Call
  <2>2. approvals'[call[t].id].status = Target(call[t].op)
    BY <1>0, <1>4, <2>1 DEF DecisionCommits, Row
  <2> QED
    BY <1>0, <1>4, <2>1, <2>2 DEF Decided, Won, Settled, Target, Decisions
<1>5. CASE ReadRow(t)
  <2>1. /\ call'[t].op = call[t].op /\ call'[t].id = call[t].id /\ call'[t].pc = "done"
        /\ call'[t].seen = approvals[call[t].id].status /\ call[t].pc = "read"
        /\ approvals' = approvals
    BY <1>0, <1>5, <1>c DEF ReadRow, Call
  <2> QED
    BY <1>0, <2>1 DEF Decided, Won
<1>6. CASE ReadOverdue(t) \/ ExpireWins(t) \/ ExpireLoses(t) \/ Reread(t)
  <2>1. call'[t].op = call[t].op
    BY <1>0, <1>6, <1>c DEF ReadOverdue, ExpireWins, ExpireLoses, Reread, Call
  <2>2. call[t].op \notin Decisions
    BY <1>6 DEF ReadOverdue, ExpireWins, ExpireLoses, Reread, Overdue, Decided, Won, Settled
  <2> QED
    BY <2>1, <2>2, <1>n
<1>7. CASE AuditExpiry(t)
  <2>1. /\ call'[t].op = call[t].op /\ call'[t].out = call[t].out /\ call[t].pc = "audit"
        /\ call'[t].pc \in {"done", "audit"}
    BY <1>0, <1>7, <1>c DEF AuditExpiry, Call, AfterTx
  <2>2. ~Won(call[t])
    BY <2>1 DEF Decided
  <2> QED
    BY <2>1, <2>2, <1>n DEF Won
<1>8. CASE Return(t) \/ Abort(t)
  BY <1>8, <1>c, <1>n DEF Return, Abort, Idle, Decisions
<1> QED
  BY <1>1, <1>2, <1>3, <1>4, <1>5, <1>6, <1>7, <1>8 DEF StoreStep, DecisionTx

LEMMA DecisionInvStep == TypeOK /\ DecisionInv /\ [Next]_vars => DecisionInv'
<1> SUFFICES ASSUME TypeOK, DecisionInv, [Next]_vars PROVE DecisionInv'
  OBVIOUS
<1>0. /\ call \in [Threads -> Call]
      /\ \A t \in Threads : call[t].op \in Decisions => call[t].id \in Ids
  BY DEF TypeOK, Decisions
\* A call that does not move stays decided, whatever happens to the rows.
<1>u. ASSUME NEW u \in Threads, call'[u] = call[u] PROVE Decided(call'[u], approvals')
  BY <1>0, <1>u, SettledStays DEF DecisionInv, Decided, Won
<1>1. CASE call' = call
  BY <1>1, <1>u DEF DecisionInv, OneWinner
<1>2. ASSUME NEW t \in Threads, Enter(t) \/ StoreStep(t) \/ Return(t) \/ Abort(t)
      PROVE  DecisionInv'
  <2>1. \A u \in Threads \ {t} : call'[u] = call[u]
    BY <1>0, <1>2, OwnStep DEF Continue
  <2>2. /\ Decided(call'[t], approvals')
        /\ Won(call'[t]) => /\ call'[t].id = call[t].id /\ call'[t].id \in Ids
                            /\ Won(call[t]) \/ DecisionCommits(t)
    BY <1>2, WinnerStep DEF DecisionInv
  <2>3. ASSUME NEW u \in Threads \ {t}, Won(call'[t]), Won(call'[u]), call'[t].id = call'[u].id
        PROVE  FALSE
    <3>1. Won(call[u]) /\ call[u].id = call[t].id
      BY <2>1, <2>2, <2>3
    <3>2. CASE Won(call[t])
      BY <3>1, <3>2 DEF DecisionInv, OneWinner
    <3>3. CASE DecisionCommits(t)
      BY <3>1, <3>3 DEF DecisionCommits, DecisionInv, Decided, Settled
    <3> QED
      BY <2>2, <2>3, <3>2, <3>3
  <2>4. OneWinner'
    <3> SUFFICES ASSUME NEW a \in Threads, NEW b \in Threads, Won(call'[a]), Won(call'[b]),
                        call'[a].id = call'[b].id, a # b
                 PROVE  FALSE
      BY DEF OneWinner
    <3>1. CASE a = t
      BY <3>1, <2>3
    <3>2. CASE b = t
      BY <3>2, <2>3
    <3>3. CASE a # t /\ b # t
      BY <3>3, <2>1 DEF DecisionInv, OneWinner
    <3> QED
      BY <3>1, <3>2, <3>3
  <2>5. \A u \in Threads : Decided(call'[u], approvals')
    BY <1>u, <2>1, <2>2
  <2> QED
    BY <2>4, <2>5 DEF DecisionInv
<1>3. CreateApproval \/ Tick \/ UNCHANGED vars => call' = call
  BY DEF CreateApproval, Tick, vars
<1> QED
  BY <1>1, <1>2, <1>3 DEF Next

\* What a reconcile reports as superseded was live when it began: no other
\* call can have reported it.
LEMMA SupersededStep ==
    TypeOK /\ SupersededReportedOnce /\ [Next]_vars => SupersededReportedOnce'
<1> SUFFICES ASSUME TypeOK, SupersededReportedOnce, [Next]_vars PROVE SupersededReportedOnce'
  OBVIOUS
<1>0. /\ call \in [Threads -> Call] /\ approvals \in [Ids -> Row]
      /\ \A t \in Threads : call[t].superseded \in SUBSET Ids
  BY DEF TypeOK, Call
<1>s. \A id \in Ids : approvals[id].status = "SUPERSEDED" => approvals'[id].status = "SUPERSEDED"
  <2>1. Successors["SUPERSEDED"] = {}
    BY DEF Successors
  <2> QED
    BY <2>1, LifecycleOfStep DEF LifecycleStep
<1>c. ASSUME NEW t \in Threads, NEW c, Continue(t, c)
      PROVE  call'[t] = c /\ \A u \in Threads \ {t} : call'[u] = call[u]
  BY <1>0, <1>c DEF Continue
\* The lists shrink or stay.
<1>k. ASSUME \A u \in Threads : call'[u].superseded \in SUBSET call[u].superseded
      PROVE  SupersededReportedOnce'
  BY <1>0, <1>k, <1>s DEF SupersededReportedOnce
<1>1. ASSUME NEW t \in Threads, NEW c, Continue(t, c), c.superseded \in SUBSET call[t].superseded
      PROVE  SupersededReportedOnce'
  BY <1>1, <1>c, <1>k
<1>2. ASSUME NEW t \in Threads, Enter(t) \/ Return(t) \/ Abort(t) PROVE SupersededReportedOnce'
  <2>1. \E c : Continue(t, c) /\ c.superseded = {}
    BY <1>2, Entered DEF Return, Abort, Idle
  <2> QED
    BY <2>1, <1>1
<1>3. ASSUME NEW t \in Threads, ReconcileTx(t) PROVE SupersededReportedOnce'
  <2>1. PICK expired, superseded, keep, fresh :
             ReconcileRows(t, call[t].request, expired, superseded, keep, fresh)
    BY <1>3, ReconcileShape
  <2>2. \A u \in Threads \ {t} : call'[u] = call[u]
    BY <1>3, <1>c DEF ReconcileTx, CommitReconcile
  <2>3. ASSUME NEW id \in superseded
        PROVE  id \in Ids /\ approvals[id].status \in Live /\ approvals'[id].status = "SUPERSEDED"
    BY <2>1, <2>3, <1>0 DEF ReconcileRows, LiveOf, Reconciled, Row
  <2>4. \A u \in Threads \ {t} : superseded \cap call[u].superseded = {}
    BY <2>3 DEF SupersededReportedOnce, Live
  <2>5. call'[t].superseded = superseded
    BY <2>1 DEF ReconcileRows
  <2>6. \A u \in Threads : \A id \in call'[u].superseded : approvals'[id].status = "SUPERSEDED"
    BY <1>0, <1>s, <2>2, <2>3, <2>5 DEF SupersededReportedOnce
  <2>7. \A u, w \in Threads : u # w => call'[u].superseded \cap call'[w].superseded = {}
    <3> SUFFICES ASSUME NEW u \in Threads, NEW w \in Threads, u # w
                 PROVE  call'[u].superseded \cap call'[w].superseded = {}
      OBVIOUS
    <3>1. CASE u = t \/ w = t
      BY <3>1, <2>2, <2>4, <2>5
    <3>2. CASE u # t /\ w # t
      BY <3>2, <2>2 DEF SupersededReportedOnce
    <3> QED
      BY <3>1, <3>2
  <2> QED
    BY <2>6, <2>7 DEF SupersededReportedOnce
<1>4. ASSUME NEW t \in Threads, StoreStep(t), ~ReconcileTx(t) PROVE SupersededReportedOnce'
  <2>0. call[t] \in Call
    BY <1>0
  <2>1. CASE DecisionTx(t)
    BY <2>0, <2>1, <1>1 DEF DecisionTx, DecisionNotFound, DecisionInvalid, DecisionExpires,
       DecisionCommits, Call
  <2>2. CASE ReadRow(t) \/ ReadOverdue(t) \/ ExpireWins(t) \/ ExpireLoses(t) \/ Reread(t)
    BY <2>0, <2>2, <1>1 DEF ReadRow, ReadOverdue, ExpireWins, ExpireLoses, Reread, Call
  <2>3. CASE AuditExpiry(t)
    BY <2>0, <2>3, <1>1 DEF AuditExpiry, Call
  <2> QED
    BY <1>4, <2>1, <2>2, <2>3 DEF StoreStep
<1>5. CASE CreateApproval \/ Tick \/ UNCHANGED vars
  <2>1. call' = call
    BY <1>5 DEF CreateApproval, Tick, vars
  <2> QED
    BY <2>1, <1>k
<1> QED
  BY <1>2, <1>3, <1>4, <1>5 DEF Next

LEMMA ToldStart == Init => DecisionInv /\ SupersededReportedOnce
  BY DEF Init, DecisionInv, OneWinner, Decided, Won, Decisions, SupersededReportedOnce, Idle

\* Of several approvers of one approval one is told that it decided, and sees
\* its decision; of several analyses one is told that it superseded an
\* approval: for any number of threads and whatever dies half-way.
THEOREM DecidersToldOnce == Spec => []ToldOnce
<1>1. DecisionInv /\ SupersededReportedOnce => ToldOnce
  BY DEF DecisionInv, OneWinner, Decided, Won, Settled, Decisions, ToldOnce, OneDecision
<1>2. TypeOK /\ DecisionInv /\ SupersededReportedOnce /\ [Next]_vars =>
         (DecisionInv /\ SupersededReportedOnce)'
  BY DecisionInvStep, SupersededStep
<1> QED
  BY <1>1, <1>2, ToldStart, TypeCorrect, PTL DEF Spec
=============================================================================
