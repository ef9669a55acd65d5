------------------------ MODULE ApprovalLedger_proofs ------------------------
(***************************************************************************)
(* The approvals table implements the ledger: every step of ApprovalStore  *)
(* is a step of ApprovalLedger, or leaves the ledger as it is.             *)
(***************************************************************************)
EXTENDS ApprovalStore_proofs

\* A row that exists belongs to a request.
RowsOwned ==
    \A id \in Ids : approvals[id].status # "ABSENT" => approvals[id].request \in Requests

LEMMA RowsOwnedStep == TypeOK /\ RowsOwned /\ [Next]_vars => RowsOwned'
<1> SUFFICES ASSUME TypeOK, RowsOwned, [Next]_vars,
                    NEW id \in Ids, approvals'[id].status # "ABSENT"
             PROVE  approvals'[id].request \in Requests
  BY DEF RowsOwned
<1>0. approvals \in [Ids -> Row]
  BY DEF TypeOK
<1>1. CASE approvals' = approvals
  BY <1>1 DEF RowsOwned
<1>2. CASE \E some \in Ids, s \in {"APPROVED", "REJECTED", "EXPIRED"} : SettleRow(some, s)
  BY <1>0, <1>2 DEF SettleRow, RowsOwned, Row
<1>3. ASSUME NEW t \in Threads, ReconcileTx(t) PROVE approvals'[id].request \in Requests
  <2>1. PICK expired, superseded, keep, fresh :
             ReconcileRows(t, call[t].request, expired, superseded, keep, fresh)
    BY <1>3, ReconcileShape
  <2>2. call[t].request \in Requests
    BY <1>3, ReconcileShape
  <2>3. CASE fresh /\ id = keep
    <3>1. id \notin expired /\ id \notin superseded
      BY <2>1, <2>3 DEF ReconcileRows, LiveOf, Live
    <3> QED
      BY <2>1, <2>2, <2>3, <3>1 DEF ReconcileRows, Reconciled, NewRow
  <2>4. CASE ~(fresh /\ id = keep)
    <3>1. id \in expired \cup superseded => approvals[id].status # "ABSENT"
      BY <2>1 DEF ReconcileRows, LiveOf, Live
    <3> QED
      BY <1>0, <2>1, <2>4, <3>1 DEF ReconcileRows, Reconciled, RowsOwned, Row
  <2> QED
    BY <2>3, <2>4
<1>4. CASE CreateApproval
  BY <1>0, <1>4 DEF CreateApproval, NewRow, RowsOwned
<1> QED
  BY <1>1, <1>2, <1>3, <1>4, RowSteps

-----------------------------------------------------------------------------
(* The refinement mapping                                                  *)

\* The current approval of a request is its only live row.
LEMMA CurrentIsLive ==
    ASSUME SingleLive, NEW r \in Requests
    PROVE  /\ currentOf[r] = None <=> LiveOf(r) = {}
           /\ \A id \in LiveOf(r) : currentOf[r] = id /\ LiveOf(r) = {id}
<1>1. ASSUME NEW id \in LiveOf(r) PROVE LiveOf(r) = {id}
  BY <1>1 DEF LiveOf, SingleLive
<1>2. ASSUME NEW id \in LiveOf(r) PROVE currentOf[r] = id
  <2>1. (CHOOSE x \in LiveOf(r) : TRUE) \in LiveOf(r)
    BY <1>2
  <2> QED
    BY <1>1, <1>2, <2>1 DEF currentOf, OneOf
<1>3. LiveOf(r) = {} => currentOf[r] = None
  BY DEF currentOf, OneOf
<1>4. LiveOf(r) # {} => currentOf[r] # None
  BY <1>2, NoneAssumption DEF LiveOf
<1> QED
  BY <1>1, <1>2, <1>3, <1>4

LEMMA CurrentIsLiveNext ==
    ASSUME SingleLive', NEW r \in Requests
    PROVE  /\ currentOf'[r] = None <=> LiveOf(r)' = {}
           /\ \A id \in LiveOf(r)' : currentOf'[r] = id /\ LiveOf(r)' = {id}
<1>1. ASSUME NEW id \in LiveOf(r)' PROVE LiveOf(r)' = {id}
  BY <1>1 DEF LiveOf, SingleLive
<1>2. ASSUME NEW id \in LiveOf(r)' PROVE currentOf'[r] = id
  <2>1. (CHOOSE x \in LiveOf(r)' : TRUE) \in LiveOf(r)'
    BY <1>2
  <2> QED
    BY <1>1, <1>2, <2>1 DEF currentOf, OneOf
<1>3. LiveOf(r)' = {} => currentOf'[r] = None
  BY DEF currentOf, OneOf
<1>4. LiveOf(r)' # {} => currentOf'[r] # None
  BY <1>2, NoneAssumption DEF LiveOf
<1> QED
  BY <1>1, <1>2, <1>3, <1>4

\* Only the request whose rows change gets another current approval.
LEMMA OthersKeepCurrent ==
    ASSUME NEW r \in Requests,
           \A id \in Ids : approvals'[id] # approvals[id] =>
               /\ approvals'[id].request = r
               /\ approvals[id].status \in Live => approvals[id].request = r,
           NEW cur
    PROVE  currentOf'[r] = cur => currentOf' = [currentOf EXCEPT ![r] = cur]
<1>1. ASSUME NEW q \in Requests \ {r} PROVE LiveOf(q)' = LiveOf(q)
  BY DEF LiveOf
<1>2. ASSUME NEW q \in Requests \ {r} PROVE currentOf'[q] = currentOf[q]
  BY <1>1 DEF currentOf
<1> QED
  BY <1>2 DEF currentOf

\* Writing one row changes one fate.
LEMMA FateOfRow ==
    ASSUME TypeOK, NEW id \in Ids
    PROVE  /\ fateOf[id] = "unused" <=> approvals[id].status = "ABSENT"
           /\ approvals[id].status \in Live => fateOf[id] = "open"
           /\ approvals[id].status \in Terminal => fateOf[id] = approvals[id].status
  BY DEF fateOf, TypeOK, Row, Status, Live, Terminal

\* A decision or an expiry of the current approval.
LEMMA SettleRefines ==
    ASSUME TypeOK, TypeOK', SingleLive, SingleLive', RowsOwned, NEW id \in Ids,
           NEW s \in {"APPROVED", "REJECTED", "EXPIRED"}, SettleRow(id, s)
    PROVE  \E r \in Requests : Ledger!Grant(r) \/ (s # "APPROVED" /\ Ledger!Close(r, s))
<1>r. PICK r \in Requests : r = approvals[id].request
  BY DEF SettleRow, RowsOwned
<1>0. /\ approvals \in [Ids -> Row] /\ approvals[id].status = "PENDING"
      /\ r \in Requests /\ approvals[id].request = r
  BY <1>r DEF TypeOK, SettleRow
<1>1. /\ approvals'[id] = [approvals[id] EXCEPT !.status = s]
      /\ approvals'[id].status = s /\ approvals'[id].request = r
      /\ \A x \in Ids \ {id} : approvals'[x] = approvals[x]
  BY <1>0 DEF SettleRow, Row
<1>2. id \in LiveOf(r) /\ currentOf[r] = id /\ LiveOf(r) = {id}
  <2>1. id \in LiveOf(r)
    BY <1>0 DEF LiveOf, Live
  <2> QED
    BY <1>0, <2>1, CurrentIsLive
<1>3. \A x \in Ids : approvals'[x] # approvals[x] =>
        /\ approvals'[x].request = r
        /\ approvals[x].status \in Live => approvals[x].request = r
  BY <1>0, <1>1
<1>4. id \notin grantedOf /\ fateOf[id] = "open" /\ currentOf[r] # None
  BY <1>0, <1>2, FateOfRow, NoneAssumption DEF grantedOf, Live
<1>5. CASE s = "APPROVED"
  <2>1. LiveOf(r)' = {id}
    BY <1>0, <1>1, <1>2, <1>5 DEF LiveOf, Live
  <2>2. currentOf'[r] = id
    BY <1>0, <2>1, CurrentIsLiveNext
  <2>3. currentOf' = currentOf
    <3>1. currentOf' = [currentOf EXCEPT ![r] = id]
      BY <1>0, <1>3, <2>2, OthersKeepCurrent
    <3> QED
      BY <1>2, <3>1 DEF currentOf
  <2>4. grantedOf' = grantedOf \cup {id}
    BY <1>1, <1>5 DEF grantedOf
  <2>5. fateOf' = fateOf
    BY <1>0, <1>1, <1>5 DEF fateOf, Live
  <2> QED
    BY <1>0, <1>2, <1>4, <2>3, <2>4, <2>5 DEF Ledger!Grant
<1>6. CASE s \in {"REJECTED", "EXPIRED"}
  <2>1. LiveOf(r)' = {}
    <3>1. ASSUME NEW x \in Ids PROVE ~(approvals'[x].status \in Live /\ approvals'[x].request = r)
      <4>1. x \in LiveOf(r) <=> approvals[x].status \in Live /\ approvals[x].request = r
        BY DEF LiveOf
      <4>2. CASE x = id
        BY <1>1, <1>6, <4>2 DEF Live
      <4>3. CASE x # id
        BY <1>1, <1>2, <4>1, <4>3
      <4> QED
        BY <4>2, <4>3
    <3> QED
      BY <3>1 DEF LiveOf
  <2>2. currentOf'[r] = None
    BY <1>0, <2>1, CurrentIsLiveNext
  <2>3. currentOf' = [currentOf EXCEPT ![r] = None]
    BY <1>0, <1>3, <2>2, OthersKeepCurrent
  <2>4. grantedOf' = grantedOf \ {id}
    BY <1>1, <1>6 DEF grantedOf
  <2>5. fateOf' = [fateOf EXCEPT ![id] = s]
    BY <1>0, <1>1, <1>6 DEF fateOf, Live
  <2> QED
    BY <1>0, <1>2, <1>4, <1>6, <2>3, <2>4, <2>5 DEF Ledger!Close
<1> QED
  BY <1>0, <1>5, <1>6

\* The transaction of reconcile_approval ends the current approval of the
\* request, or gives it a new one, or both at once.
LEMMA ReconcileRefines ==
    ASSUME TypeOK, TypeOK', SingleLive, SingleLive', RowsOwned,
           NEW t \in Threads, ReconcileTx(t)
    PROVE  [Ledger!LedgerNext]_<<currentOf, grantedOf, fateOf>>
<1>r. PICK r \in Requests : r = call[t].request
  BY ReconcileShape
<1>1. PICK expired, superseded, keep, fresh : ReconcileRows(t, r, expired, superseded, keep, fresh)
  BY <1>r, ReconcileShape
<1>0. /\ r \in Requests /\ call[t].now \in Nat /\ fresh \in BOOLEAN
      /\ approvals \in [Ids -> Row]
      /\ expired \in SUBSET LiveOf(r) /\ superseded \in SUBSET (LiveOf(r) \ expired)
      /\ LiveOf(r) \ (expired \cup superseded) \in SUBSET {keep}
      /\ fresh => keep \in Ids /\ approvals[keep].status = "ABSENT"
  BY <1>1, ReconcileShape DEF ReconcileRows, TypeOK
<1> DEFINE how == IF expired = {} THEN "SUPERSEDED" ELSE "EXPIRED"
\* Row by row.
<1>2. /\ \A x \in expired : /\ approvals[x].status = "PENDING"
                            /\ approvals'[x] = [approvals[x] EXCEPT !.status = "EXPIRED"]
      /\ \A x \in superseded : approvals'[x] = [approvals[x] EXCEPT !.status = "SUPERSEDED"]
      /\ fresh => /\ approvals'[keep].status = "PENDING" /\ approvals'[keep].request = r
      /\ \A x \in Ids : x \notin expired \cup superseded /\ ~(fresh /\ x = keep) =>
            approvals'[x] = approvals[x]
  <2>1. fresh => keep \notin expired \cup superseded
    BY <1>0 DEF LiveOf, Live
  <2>2. \A x \in expired \cup superseded : x \in Ids
    BY <1>0 DEF LiveOf
  <2>3. fresh => approvals'[keep] = NewRow(r, call[t].fingerprint, call[t].now)
    BY <1>0, <1>1, <1>r, <2>1 DEF ReconcileRows, Reconciled
  <2>4. \A x \in expired : approvals[x].status = "PENDING"
    BY <1>1 DEF ReconcileRows, Overdue
  <2> QED
    BY <1>0, <1>1, <2>1, <2>2, <2>3, <2>4 DEF ReconcileRows, Reconciled, NewRow
<1>3. \A x \in Ids : approvals'[x] # approvals[x] =>
        /\ approvals'[x].request = r
        /\ approvals[x].status \in Live => approvals[x].request = r
  <2> SUFFICES ASSUME NEW x \in Ids, approvals'[x] # approvals[x]
               PROVE  /\ approvals'[x].request = r
                      /\ approvals[x].status \in Live => approvals[x].request = r
    OBVIOUS
  <2>1. CASE x \in expired \cup superseded
    <3>1. approvals[x].request = r /\ approvals[x] \in Row
      BY <1>0, <2>1 DEF LiveOf
    <3>2. approvals'[x].request = approvals[x].request
      BY <1>2, <2>1, <3>1 DEF Row
    <3> QED
      BY <3>1, <3>2
  <2>2. CASE x \notin expired \cup superseded
    <3>1. fresh /\ x = keep
      BY <1>2, <2>2
    <3> QED
      BY <1>0, <1>2, <3>1 DEF Live
  <2> QED
    BY <2>1, <2>2
<1>4. CASE expired \cup superseded = {} /\ ~fresh
  <2>1. approvals' = approvals
    BY <1>0, <1>2, <1>4 DEF TypeOK
  <2> QED
    BY <2>1 DEF currentOf, LiveOf, grantedOf, fateOf
\* The request had an approval; it is closed.
<1>5. ASSUME NEW id \in expired \cup superseded
      PROVE  /\ id \in Ids /\ LiveOf(r) = {id} /\ currentOf[r] = id /\ id # None
             /\ approvals'[id].status = how /\ approvals[id].status \in Live
             /\ how # "SUPERSEDED" => id \notin grantedOf
             /\ \A x \in Ids : x # id /\ ~(fresh /\ x = keep) => approvals'[x] = approvals[x]
  <2>1. id \in LiveOf(r) /\ id \in Ids /\ approvals[id].status \in Live
    BY <1>0, <1>5 DEF LiveOf
  <2>2. LiveOf(r) = {id} /\ currentOf[r] = id
    BY <1>0, <2>1, CurrentIsLive
  <2>3. id \in expired <=> expired # {}
    BY <1>0, <2>2
  <2>4. approvals'[id].status = how
    <3>1. approvals[id] \in Row
      BY <1>0, <2>1
    <3>2. CASE id \in expired
      BY <1>2, <2>3, <3>1, <3>2 DEF Row
    <3>3. CASE id \notin expired
      BY <1>2, <1>5, <2>3, <3>1, <3>3 DEF Row
    <3> QED
      BY <3>2, <3>3
  <2>5. how # "SUPERSEDED" => id \notin grantedOf
    BY <1>2, <2>3 DEF grantedOf
  <2>6. \A x \in Ids : x # id => x \notin expired \cup superseded
    BY <1>0, <2>2
  <2> QED
    BY <1>2, <2>1, <2>2, <2>4, <2>5, <2>6, NoneAssumption
<1>6. CASE expired \cup superseded # {} /\ ~fresh
  <2>1. PICK id \in expired \cup superseded : TRUE
    BY <1>6
  <2>2. LiveOf(r)' = {}
    BY <1>0, <1>5, <1>6, <2>1 DEF LiveOf, Live
  <2>3. currentOf' = [currentOf EXCEPT ![r] = None]
    <3>1. currentOf'[r] = None
      BY <1>0, <2>2, CurrentIsLiveNext
    <3> QED
      BY <1>0, <1>3, <3>1, OthersKeepCurrent
  <2>4. grantedOf' = grantedOf \ {id}
    BY <1>5, <1>6, <2>1 DEF grantedOf
  <2>5. fateOf' = [fateOf EXCEPT ![id] = how]
    BY <1>5, <1>6, <2>1 DEF fateOf, Live
  <2>6. Ledger!Close(r, how)
    BY <1>0, <1>5, <2>1, <2>3, <2>4, <2>5 DEF Ledger!Close
  <2> QED
    BY <1>0, <2>6 DEF Ledger!LedgerNext
\* A new row is inserted: it becomes the current approval.
<1>7. ASSUME fresh
      PROVE  /\ keep \in Ids /\ fateOf[keep] = "unused"
             /\ currentOf' = [currentOf EXCEPT ![r] = keep]
  <2>1. keep \in LiveOf(r)'
    BY <1>0, <1>2, <1>7 DEF LiveOf, Live
  <2>2. currentOf'[r] = keep
    BY <1>0, <2>1, CurrentIsLiveNext
  <2>3. fateOf[keep] = "unused"
    BY <1>0, <1>7, FateOfRow
  <2> QED
    BY <1>0, <1>3, <1>7, <2>2, <2>3, OthersKeepCurrent
<1>8. CASE expired \cup superseded = {} /\ fresh
  <2>1. currentOf[r] = None
    <3>1. LiveOf(r) = {}
      BY <1>0, <1>8 DEF LiveOf, Live
    <3> QED
      BY <1>0, <3>1, CurrentIsLive
  <2>2. grantedOf' = grantedOf
    BY <1>0, <1>2, <1>8 DEF grantedOf
  <2>3. fateOf' = [fateOf EXCEPT ![keep] = "open"]
    BY <1>0, <1>2, <1>8 DEF fateOf, Live
  <2>4. Ledger!Open(r, keep)
    BY <1>0, <1>7, <1>8, <2>1, <2>2, <2>3 DEF Ledger!Open
  <2> QED
    BY <1>0, <1>7, <1>8, <2>4 DEF Ledger!LedgerNext
<1>9. CASE expired \cup superseded # {} /\ fresh
  <2>1. PICK id \in expired \cup superseded : TRUE
    BY <1>9
  <2>2. id # keep
    BY <1>0, <1>5, <1>9, <2>1 DEF Live
  <2>3. grantedOf' = grantedOf \ {id}
    BY <1>0, <1>2, <1>5, <1>9, <2>1, <2>2 DEF grantedOf
  <2>4. fateOf' = [fateOf EXCEPT ![id] = how, ![keep] = "open"]
    <3>1. ASSUME NEW x \in Ids
          PROVE  fateOf'[x] = IF x = keep THEN "open" ELSE IF x = id THEN how ELSE fateOf[x]
      <4>1. CASE x = keep
        BY <1>2, <1>9, <4>1 DEF fateOf, Live
      <4>2. CASE x = id
        BY <1>5, <2>1, <2>2, <4>2 DEF fateOf, Live
      <4>3. CASE x # keep /\ x # id
        BY <1>5, <2>1, <4>3 DEF fateOf
      <4> QED
        BY <2>2, <4>1, <4>2, <4>3
    <3>2. id \in Ids /\ keep \in Ids
      BY <1>5, <1>7, <1>9, <2>1
    <3>3. fateOf = [x \in Ids |-> fateOf[x]] /\ fateOf' = [x \in Ids |-> fateOf'[x]]
      BY DEF fateOf
    <3> HIDE DEF how
    <3> QED
      BY <2>2, <3>1, <3>2, <3>3
  <2>5. Ledger!Replace(r, keep, how)
    BY <1>0, <1>5, <1>7, <1>9, <2>1, <2>3, <2>4 DEF Ledger!Replace
  <2> QED
    BY <1>0, <1>7, <1>9, <2>5 DEF Ledger!LedgerNext
<1> QED
  BY <1>0, <1>4, <1>6, <1>8, <1>9

\* The threads, the transactions and the clock add nothing a client of the
\* ledger could notice, provided reconcile_approval alone has inserted and
\* inserts rows.
THEOREM StoreImplementsLedger ==
    ASSUME ~DirectCreate, ~Upgraded PROVE Spec => ImplementsLedger
<1>0. Init => \A id \in Ids : approvals[id].status = "ABSENT"
  BY StartRows
<1>1. Init => Ledger!LedgerInit /\ RowsOwned
  <2> SUFFICES ASSUME \A id \in Ids : approvals[id].status = "ABSENT"
               PROVE  Ledger!LedgerInit /\ RowsOwned
    BY <1>0
  <2>1. \A id \in Ids : approvals[id].status = "ABSENT"
    OBVIOUS
  <2>2. \A r \in Requests : LiveOf(r) = {}
    BY <2>1 DEF LiveOf, Live
  <2>3. currentOf = [r \in Requests |-> None]
    BY <2>2 DEF currentOf, OneOf
  <2>4. grantedOf = {}
    BY <2>1 DEF grantedOf
  <2>5. fateOf = [id \in Ids |-> "unused"]
    BY <2>1 DEF fateOf, Live
  <2> QED
    BY <2>1, <2>3, <2>4, <2>5 DEF Ledger!LedgerInit, RowsOwned
<1>2. TypeOK /\ TypeOK' /\ SingleLive /\ SingleLive' /\ RowsOwned /\ [Next]_vars =>
        [Ledger!LedgerNext]_<<currentOf, grantedOf, fateOf>>
  <2> SUFFICES ASSUME TypeOK, TypeOK', SingleLive, SingleLive', RowsOwned, [Next]_vars
               PROVE  [Ledger!LedgerNext]_<<currentOf, grantedOf, fateOf>>
    OBVIOUS
  <2>1. CASE approvals' = approvals
    BY <2>1 DEF currentOf, LiveOf, grantedOf, fateOf
  <2>2. ASSUME NEW id \in Ids, NEW s \in {"APPROVED", "REJECTED", "EXPIRED"}, SettleRow(id, s)
        PROVE  Ledger!LedgerNext
    <3>1. PICK r \in Requests : Ledger!Grant(r) \/ (s # "APPROVED" /\ Ledger!Close(r, s))
      BY <2>2, SettleRefines
    <3> QED
      BY <3>1 DEF Ledger!LedgerNext
  <2>3. CASE \E t \in Threads : ReconcileTx(t)
    BY <2>3, ReconcileRefines
  <2>4. ~CreateApproval
    BY DEF CreateApproval
  <2> QED
    BY <2>1, <2>2, <2>3, <2>4, RowSteps
<1>3. TypeOK /\ RowsOwned /\ [Next]_vars => RowsOwned'
  BY RowsOwnedStep
<1> QED
  BY <1>1, <1>2, <1>3, TypeCorrect, OneLiveApproval, PTL
  DEF Spec, ImplementsLedger, Ledger!LedgerSpec, Ledger!ledgerVars
=============================================================================
