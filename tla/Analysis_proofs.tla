--------------------------- MODULE Analysis_proofs ---------------------------
(***************************************************************************)
(* Theorems of Decision and Analysis, for any thresholds, requests, data,  *)
(* calls and restarts.                                                     *)
(***************************************************************************)
EXTENDS Analysis, SequenceTheorems, FiniteSetTheorems, TLAPS

\* What the evaluation asks both definitions: any amount, number of quotes and
\* date, any status and expiry of the supplier.
Question == [amount : Nat \ {0}, quotes : Nat, date : Int]
Candidate(Statuses) == [status : Statuses, expiry : Int]

\* The four fields the evaluation compares; an oracle that raises fails a case.
Agree(q, s, analysis) ==
    LET decision == Evaluate(q, analysis, s)
        oracle == PolicyOracle(q, s)
    IN /\ ~OracleRaises
       /\ decision.status = oracle.status
       /\ "FINANCE_APPROVAL" \in decision.rules <=> oracle.blocks.finance
       /\ "ALTERNATIVE_QUOTES" \in decision.rules <=> oracle.blocks.quotes
       /\ "SUPPLIER_CERTIFICATE" \in decision.rules <=> oracle.blocks.certificate

\* What the two files have to agree in.  The engine has no switch for the
\* certificate and no other comparison, whatever its own file says of them.
FilesAgree ==
    /\ ~OracleRaises
    /\ Oracle.finance = FinanceThreshold
    /\ Oracle.quotes = MinimumQuotes
    /\ MinimumQuotes > 0 => Oracle.quote = QuoteThreshold
    /\ Oracle.active = MustBeActive
    /\ Oracle.validOnDate

LEMMA EngineDecides ==
    ASSUME NEW q, NEW s, NEW analysis, q.date \in Int, s.expiry \in Int
    PROVE  LET decision == Evaluate(q, analysis, s)
           IN /\ "FINANCE_APPROVAL" \in decision.rules <=> q.amount > FinanceThreshold
              /\ "ALTERNATIVE_QUOTES" \in decision.rules <=>
                    q.amount > QuoteThreshold /\ q.quotes < MinimumQuotes
              /\ "SUPPLIER_CERTIFICATE" \in decision.rules <=> ~(s.expiry >= q.date)
              /\ decision.status =
                    IF Ineligible(s) THEN "REJECTED"
                    ELSE IF \/ q.amount > FinanceThreshold
                            \/ q.amount > QuoteThreshold /\ q.quotes < MinimumQuotes
                            \/ ~(s.expiry >= q.date)
                         THEN "CONDITIONAL_REVIEW" ELSE "APPROVED"
<1> DEFINE rules == RulesApplied(q, s)
           finance == q.amount > FinanceThreshold
           quotes == q.amount > QuoteThreshold /\ q.quotes < MinimumQuotes
           certificate == ~(s.expiry >= q.date)
<1>1. certificate <=> CertificateExpired(s, q)
  BY DEF CertificateExpired
<1>2. /\ "SUPPLIER_STATUS" \in rules <=> Ineligible(s)
      /\ "FINANCE_APPROVAL" \in rules <=> finance
      /\ "ALTERNATIVE_QUOTES" \in rules <=> quotes
      /\ "SUPPLIER_CERTIFICATE" \in rules <=> certificate
      /\ rules \subseteq {"SUPPLIER_STATUS", "FINANCE_APPROVAL", "ALTERNATIVE_QUOTES", "SUPPLIER_CERTIFICATE"}
  BY <1>1 DEF RulesApplied, FinanceRequired, QuoteMissing
<1>3. Evaluate(q, analysis, s).rules = rules
  BY DEF Evaluate
<1>4. Evaluate(q, analysis, s).status =
         IF Ineligible(s) THEN "REJECTED"
         ELSE IF rules # {} THEN "CONDITIONAL_REVIEW" ELSE "APPROVED"
  BY DEF Evaluate
<1> SUFFICES /\ "FINANCE_APPROVAL" \in Evaluate(q, analysis, s).rules <=> finance
             /\ "ALTERNATIVE_QUOTES" \in Evaluate(q, analysis, s).rules <=> quotes
             /\ "SUPPLIER_CERTIFICATE" \in Evaluate(q, analysis, s).rules <=> certificate
             /\ Evaluate(q, analysis, s).status =
                   IF Ineligible(s) THEN "REJECTED"
                   ELSE IF finance \/ quotes \/ certificate
                        THEN "CONDITIONAL_REVIEW" ELSE "APPROVED"
  BY Zenon
<1> HIDE DEF rules, finance, quotes, certificate
<1>5. ~Ineligible(s) => (rules # {} <=> finance \/ quotes \/ certificate)
  BY <1>2
<1> QED
  BY <1>2, <1>3, <1>4, <1>5

LEMMA OracleDecides ==
    ASSUME NEW q, NEW s
    PROVE  LET oracle == PolicyOracle(q, s)
           IN /\ oracle.blocks.finance <=> q.amount > Oracle.finance
              /\ oracle.blocks.quotes <=> q.amount > Oracle.quote /\ q.quotes < Oracle.quotes
              /\ oracle.blocks.certificate <=> Oracle.validOnDate /\ ~(s.expiry >= q.date)
              /\ oracle.status =
                    IF Oracle.active /\ s.status # "active" THEN "REJECTED"
                    ELSE IF \/ q.amount > Oracle.finance
                            \/ q.amount > Oracle.quote /\ q.quotes < Oracle.quotes
                            \/ Oracle.validOnDate /\ ~(s.expiry >= q.date)
                         THEN "CONDITIONAL_REVIEW" ELSE "APPROVED"
  BY Zenon DEF PolicyOracle

\* The rules engine and the oracle of the evaluation, two formulas over two
\* files, give the same answer to every question, and not only to the frozen
\* cases, exactly when the files agree.
THEOREM EngineMatchesOracle ==
    ASSUME NEW analysis, NEW Statuses, "active" \in Statuses, "inactive" \in Statuses
    PROVE  (\A q \in Question, s \in Candidate(Statuses) : Agree(q, s, analysis)) <=> FilesAgree
<1> USE DecisionAssumption, OracleAssumption
<1>1. ASSUME FilesAgree, NEW q \in Question, NEW s \in Candidate(Statuses)
      PROVE  Agree(q, s, analysis)
  <2>1. q.date \in Int /\ s.expiry \in Int /\ q.quotes \in Nat
    BY DEF Question, Candidate
  <2>2. q.amount > QuoteThreshold /\ q.quotes < MinimumQuotes
           <=> q.amount > Oracle.quote /\ q.quotes < Oracle.quotes
    BY <1>1, <2>1 DEF FilesAgree
  <2>3. Ineligible(s) <=> Oracle.active /\ s.status # "active"
    BY <1>1 DEF FilesAgree, Ineligible
  <2>4. Oracle.finance = FinanceThreshold /\ Oracle.validOnDate /\ ~OracleRaises
    BY <1>1 DEF FilesAgree
  <2> QED
    BY <2>1, <2>2, <2>3, <2>4, EngineDecides, OracleDecides DEF Agree
<1>2. ASSUME \A q \in Question, s \in Candidate(Statuses) : Agree(q, s, analysis)
      PROVE  FilesAgree
  <2>1. ASSUME NEW q, NEW s, q \in Question, s \in Candidate(Statuses) PROVE Agree(q, s, analysis)
    BY <1>2, <2>1
  <2>2. ASSUME NEW amount \in Nat \ {0}, NEW quotes \in Nat
        PROVE  /\ amount > FinanceThreshold <=> amount > Oracle.finance
               /\ amount > QuoteThreshold /\ quotes < MinimumQuotes
                     <=> amount > Oracle.quote /\ quotes < Oracle.quotes
    <3> DEFINE q == [amount |-> amount, quotes |-> quotes, date |-> 1]
               s == [status |-> "active", expiry |-> 1]
    <3>1. q \in Question /\ s \in Candidate(Statuses)
      <4>1. q \in Question
        BY DEF Question
      <4>2. s \in Candidate(Statuses)
        BY DEF Candidate
      <4> QED
        BY <4>1, <4>2
    <3>2. /\ q.amount = amount /\ q.quotes = quotes /\ q.date = 1
          /\ s.status = "active" /\ s.expiry = 1
      OBVIOUS
    <3> HIDE DEF q, s
    <3>3. Agree(q, s, analysis)
      BY <2>1, <3>1
    <3> QED
      BY <3>2, <3>3, EngineDecides, OracleDecides DEF Agree
  <2>3. Oracle.finance = FinanceThreshold
    <3>1. /\ Oracle.finance + 1 \in Nat \ {0} /\ FinanceThreshold + 1 \in Nat \ {0}
          /\ Oracle.finance \in Nat /\ FinanceThreshold \in Nat
      OBVIOUS
    <3>2. Oracle.finance + 1 > FinanceThreshold /\ FinanceThreshold + 1 > Oracle.finance
      BY <2>2, <3>1
    <3> QED
      BY <3>1, <3>2
  <2> DEFINE most == QuoteThreshold + Oracle.quote + 1
  <2>4. /\ Oracle.quote \in Nat /\ QuoteThreshold \in Nat
        /\ Oracle.quotes \in Nat /\ MinimumQuotes \in Nat
        /\ most \in Nat \ {0} /\ most > QuoteThreshold /\ most > Oracle.quote
    OBVIOUS
  <2>5. Oracle.quotes = MinimumQuotes
    <3> HIDE DEF most
    <3>1. MinimumQuotes < Oracle.quotes <=> MinimumQuotes < MinimumQuotes
      BY <2>2, <2>4
    <3>2. Oracle.quotes < MinimumQuotes <=> Oracle.quotes < Oracle.quotes
      BY <2>2, <2>4
    <3> QED
      BY <2>4, <3>1, <3>2
  <2>6. ASSUME MinimumQuotes > 0 PROVE Oracle.quote = QuoteThreshold
    <3>1. /\ Oracle.quote + 1 \in Nat \ {0} /\ QuoteThreshold + 1 \in Nat \ {0}
          /\ 0 \in Nat /\ 0 < MinimumQuotes /\ 0 < Oracle.quotes
      BY <2>4, <2>5, <2>6
    <3>2. Oracle.quote + 1 > QuoteThreshold /\ QuoteThreshold + 1 > Oracle.quote
      BY <2>2, <2>4, <3>1
    <3> QED
      BY <2>4, <3>2
  <2>7. Oracle.active = MustBeActive
    <3> DEFINE q == [amount |-> 1, quotes |-> 0, date |-> 1]
               s == [status |-> "inactive", expiry |-> 1]
    <3>1. q \in Question /\ s \in Candidate(Statuses)
      <4>1. q \in Question
        BY DEF Question
      <4>2. s \in Candidate(Statuses)
        BY DEF Candidate
      <4> QED
        BY <4>1, <4>2
    <3>2. /\ q.amount = 1 /\ q.quotes = 0 /\ q.date = 1
          /\ s.status = "inactive" /\ s.expiry = 1
      OBVIOUS
    <3> HIDE DEF q, s
    <3>3. Agree(q, s, analysis)
      BY <2>1, <3>1
    <3>4. Evaluate(q, analysis, s).status = "REJECTED" <=> MustBeActive
      BY <3>2, EngineDecides DEF Ineligible
    <3>5. PolicyOracle(q, s).status = "REJECTED" <=> Oracle.active
      BY <3>2, OracleDecides
    <3> QED
      BY <3>3, <3>4, <3>5 DEF Agree
  <2>8. Oracle.validOnDate /\ ~OracleRaises
    <3> DEFINE q == [amount |-> 1, quotes |-> 0, date |-> 1]
               s == [status |-> "active", expiry |-> 0]
    <3>1. q \in Question /\ s \in Candidate(Statuses)
      <4>1. q \in Question
        BY DEF Question
      <4>2. s \in Candidate(Statuses)
        BY DEF Candidate
      <4> QED
        BY <4>1, <4>2
    <3>2. /\ q.amount = 1 /\ q.quotes = 0 /\ q.date = 1
          /\ s.status = "active" /\ s.expiry = 0
      OBVIOUS
    <3> HIDE DEF q, s
    <3>3. Agree(q, s, analysis)
      BY <2>1, <3>1
    <3>4. "SUPPLIER_CERTIFICATE" \in Evaluate(q, analysis, s).rules
      BY <3>2, EngineDecides
    <3>5. PolicyOracle(q, s).blocks.certificate => Oracle.validOnDate
      BY <3>2, OracleDecides
    <3> QED
      BY <3>3, <3>4, <3>5 DEF Agree
  <2> QED
    BY <2>3, <2>5, <2>6, <2>7, <2>8 DEF FilesAgree
<1> QED
  BY <1>1, <1>2

(***************************************************************************)
(* More is asked, or fewer quotes are given: no rule is lost.              *)
(***************************************************************************)
LEMMA StricterAppliesMore ==
    ASSUME NEW q1, NEW q2, NEW s, NEW a1, NEW a2,
           q1.amount \in Int, q2.amount \in Int, q1.quotes \in Int, q2.quotes \in Int,
           q1.date = q2.date, q1.amount <= q2.amount, q1.quotes >= q2.quotes
    PROVE  LET one == Evaluate(q1, a1, s)
               other == Evaluate(q2, a2, s)
           IN /\ one.rules \subseteq other.rules
              /\ one.status = "REJECTED" => other.status = "REJECTED"
              /\ one.status = "CONDITIONAL_REVIEW" => other.status # "APPROVED"
<1>1. FinanceRequired(q1) => FinanceRequired(q2)
  BY DecisionAssumption DEF FinanceRequired
<1>2. QuoteMissing(q1) => QuoteMissing(q2)
  BY DecisionAssumption DEF QuoteMissing
<1>3. CertificateExpired(s, q1) => CertificateExpired(s, q2)
  BY DEF CertificateExpired
<1>4. RulesApplied(q1, s) \subseteq RulesApplied(q2, s)
  BY <1>1, <1>2, <1>3 DEF RulesApplied
<1>5. ASSUME NEW q, NEW a
      PROVE  /\ Evaluate(q, a, s).rules = RulesApplied(q, s)
             /\ Evaluate(q, a, s).status =
                   IF Ineligible(s) THEN "REJECTED"
                   ELSE IF RulesApplied(q, s) # {} THEN "CONDITIONAL_REVIEW" ELSE "APPROVED"
  BY DEF Evaluate
<1> QED
  BY <1>4, <1>5

\* What an outcome without a failure is made of.
LEMMA OutcomeFacts ==
    ASSUME NEW w, NEW q, NEW role, Outcome(w, q, role).failure = None
    PROVE  /\ Outcome(w, q, role).case.request = q
           /\ Outcome(w, q, role).case.decision = Evaluate(q, AnalysisOf(w, q), w.suppliers[q.supplier])
<1> DEFINE decision == Evaluate(q, AnalysisOf(w, q), w.suppliers[q.supplier])
           policies == [type \in PolicyTypes |-> CurrentPolicy(w, type, q.date, role)]
           citations == Citations(policies, decision.rules)
           undefined == \E ref \in References(decision.rules) :
                           ref.section \notin policies[ref.type].sections
           missing == None \in {policies[type] : type \in PolicyTypes} \/ undefined
           case == [request |-> q, supplier |-> w.suppliers[q.supplier], analysis |-> AnalysisOf(w, q),
                    decision |-> decision, citations |-> citations]
<1>1. Outcome(w, q, role) =
         IF q.supplier \notin DOMAIN w.suppliers THEN Failed("SUPPLIER_NOT_FOUND")
         ELSE IF HistoryInvalid(w, q) THEN Failed("PURCHASE_HISTORY_INVALID")
         ELSE IF Counted(w, q) = {} THEN Failed("PURCHASE_HISTORY_NOT_FOUND")
         ELSE IF missing THEN Failed("APPLICABLE_POLICY_NOT_FOUND")
         ELSE [failure |-> None, case |-> case]
  BY DEF Outcome
<1>2. case.request = q /\ case.decision = decision
  OBVIOUS
<1> HIDE DEF missing, case, decision
<1>3. Outcome(w, q, role) = [failure |-> None, case |-> case]
  BY <1>1, DecisionAssumption DEF Failed
<1> QED
  BY <1>2, <1>3 DEF decision

(***************************************************************************)
(* The invariant.  A call that computed a case computed it from the data   *)
(* of its own process, and an approval it was handed has the fingerprint   *)
(* of that case.                                                           *)
(***************************************************************************)
Sections == UNION {SectionCandidates(w, q.date, role) : w \in Worlds, q \in Inputs, role \in Roles}
Outcomes == {Outcome(w, q, role) : w \in Worlds, q \in Inputs, role \in Roles}
Codes == {"APPLICABLE_POLICY_NOT_FOUND", "LLM_DISABLED", "LLM_UNAVAILABLE", "INTAKE_EXTRACTION_FAILED"}
Places == Ended \cup {"idle", "received", "failing", "assessed", "claimed", "reporting"}

CallRec ==
    [op : {None, "analyze", "intake", "ask"}, pc : Places, role : Roles \cup {None},
     asked : Inputs \cup {q.date : q \in Inputs} \cup {None}, world : Worlds \cup {None},
     attachments : SUBSET UNION {Entries(w) : w \in Worlds},
     outcome : Outcomes \cup [failure : Codes, case : {None}] \cup {None},
     approval : Nat \cup {None}, reused : BOOLEAN, said : 0..4, superseded : SUBSET Nat,
     shown : SUBSET Sections]

ComputedFrom(k, w, q, role) == k.outcome = Outcome(w, q, role) /\ k.asked = q /\ k.world = w
Founded(k) == \E w \in Worlds, q \in Inputs, role \in Roles : ComputedFrom(k, w, q, role)

\* One call, beside the approvals and the data of the running process.
Honest(k) ==
    /\ k.op = "analyze" /\ k.outcome # None => Founded(k)
    /\ k.pc = "idle" => k.op = None
    /\ k.pc = "received" =>
          k.op = "analyze" /\ k.world = world /\ k.asked \in Inputs /\ k.role \in Roles
    /\ k.pc \in {"idle", "received", "failing", "assessed"} => k.approval = None
    /\ k.pc = "failing" => k.op = "analyze" /\ Founded(k) /\ k.outcome.failure # None
    /\ k.pc \in {"assessed", "claimed", "reporting"} =>
          k.op = "analyze" /\ Founded(k) /\ k.outcome.failure = None
    /\ k.pc = "claimed" => k.approval # None /\ ~k.reused
    /\ k.approval \in DOMAIN approvals \cup {None}
    /\ k.superseded \subseteq DOMAIN approvals
    /\ k.approval # None =>
          /\ approvals[k.approval].fingerprint = k.outcome.case
          /\ k.outcome.case.decision.status = "CONDITIONAL_REVIEW"

ApprovalRec ==
    [request : {q.id : q \in Inputs}, fingerprint : {o.case : o \in Outcomes},
     live : BOOLEAN, case : {None} \cup {o.case : o \in Outcomes}]

ApprovalsInv ==
    /\ approvals \in Seq(ApprovalRec)
    /\ \A a \in DOMAIN approvals : approvals[a].case \in {None, approvals[a].fingerprint}
    /\ \A a \in DOMAIN approvals : \E c \in Calls : call[c].approval = a /\ ~call[c].reused

AnalysisInv ==
    /\ world \in Worlds /\ restarts \in 0..MaxRestarts
    /\ call \in [Calls -> CallRec] /\ DOMAIN trail = Calls
    /\ \A c \in Calls : Honest(call[c])
    /\ ApprovalsInv

LEMMA InvariantSuffices == AnalysisInv => AnalysisTypeOK /\ ReuseSameEvidence /\ StricterNeverMilder
<1> SUFFICES ASSUME AnalysisInv
             PROVE  AnalysisTypeOK /\ ReuseSameEvidence /\ StricterNeverMilder
  OBVIOUS
<1>1. AnalysisTypeOK
  <2>1. \A c \in Calls : call[c] \in CallRec /\ Honest(call[c])
    BY DEF AnalysisInv
  <2>2. ASSUME NEW c \in Calls
        PROVE  /\ call[c].op \in {None, "analyze", "intake", "ask"}
               /\ call[c].pc \in Places
               /\ call[c].approval \in {None} \cup DOMAIN approvals
               /\ call[c].superseded \subseteq DOMAIN approvals
               /\ call[c].said \in 0..4
               /\ call[c].pc \in {"assessed", "claimed", "reporting"} => call[c].outcome.failure = None
    BY <2>1 DEF CallRec, Honest
  <2> QED
    BY <2>2 DEF AnalysisInv, AnalysisTypeOK, ApprovalsInv, Places
<1>2. ReuseSameEvidence
  <2> SUFFICES ASSUME NEW c \in Calls, NEW d \in Calls,
                      call[c].approval # None, call[d].approval # None
               PROVE  /\ call[c].outcome.case.decision.status = "CONDITIONAL_REVIEW"
                      /\ approvals[call[c].approval].case \in {None, call[c].outcome.case}
                      /\ call[c].approval = call[d].approval =>
                            call[c].outcome.case = call[d].outcome.case
    BY DEF ReuseSameEvidence
  <2> QED
    BY DEF AnalysisInv, Honest, ApprovalsInv
<1>3. StricterNeverMilder
  <2> SUFFICES ASSUME NEW c \in Decided, NEW d \in Decided,
                      call[c].world = call[d].world,
                      call[c].outcome.case.request.supplier = call[d].outcome.case.request.supplier,
                      call[c].outcome.case.request.date = call[d].outcome.case.request.date,
                      call[c].outcome.case.request.amount <= call[d].outcome.case.request.amount,
                      call[c].outcome.case.request.quotes >= call[d].outcome.case.request.quotes
               PROVE  LET one == call[c].outcome.case.decision
                          other == call[d].outcome.case.decision
                      IN /\ one.rules \subseteq other.rules
                         /\ one.status = "REJECTED" => other.status = "REJECTED"
                         /\ one.status = "CONDITIONAL_REVIEW" => other.status # "APPROVED"
    BY DEF StricterNeverMilder
  <2>1. ASSUME NEW e \in Decided
        PROVE  \E w \in Worlds, q \in Inputs, role \in Roles :
                  ComputedFrom(call[e], w, q, role) /\ call[e].outcome.failure = None
    BY DEF Decided, Computed, AnalysisInv, Honest, Founded
  <2>2. PICK w1 \in Worlds, q1 \in Inputs, role1 \in Roles :
           ComputedFrom(call[c], w1, q1, role1) /\ call[c].outcome.failure = None
    BY <2>1
  <2>3. PICK w2 \in Worlds, q2 \in Inputs, role2 \in Roles :
           ComputedFrom(call[d], w2, q2, role2) /\ call[d].outcome.failure = None
    BY <2>1
  <2>4. /\ call[c].outcome.case.request = q1
        /\ call[c].outcome.case.decision = Evaluate(q1, AnalysisOf(w1, q1), w1.suppliers[q1.supplier])
    BY <2>2, OutcomeFacts DEF ComputedFrom
  <2>5. /\ call[d].outcome.case.request = q2
        /\ call[d].outcome.case.decision = Evaluate(q2, AnalysisOf(w2, q2), w2.suppliers[q2.supplier])
    BY <2>3, OutcomeFacts DEF ComputedFrom
  <2>6. w1 = w2
    BY <2>2, <2>3 DEF ComputedFrom
  <2>7. q1.amount \in Int /\ q2.amount \in Int /\ q1.quotes \in Int /\ q2.quotes \in Int
    BY AnalysisAssumption
  <2> QED
    BY <2>4, <2>5, <2>6, <2>7, StricterAppliesMore
<1> QED
  BY <1>1, <1>2, <1>3

LEMMA InitAnalysis == AnalysisInit => AnalysisInv
<1> SUFFICES ASSUME AnalysisInit PROVE AnalysisInv
  OBVIOUS
<1>1. \A c \in Calls : call[c] = Idle
  BY DEF AnalysisInit
<1>2. Idle \in CallRec
  BY DEF Idle, CallRec, Places
<1>3. call \in [Calls -> CallRec]
  BY <1>2 DEF AnalysisInit
<1>4. \A c \in Calls : Honest(call[c])
  BY <1>1 DEF Honest, Idle
<1>5. ApprovalsInv
  BY DEF AnalysisInit, ApprovalsInv
<1> QED
  BY <1>3, <1>4, <1>5, AnalysisAssumption DEF AnalysisInit, AnalysisInv

LEMMA Indices == approvals \in Seq(ApprovalRec) =>
                    DOMAIN approvals = 1..Len(approvals) /\ Len(approvals) \in Nat /\ None \notin DOMAIN approvals
  BY DecisionAssumption

\* A step of call c: it stays honest, keeps the approval it has, and the
\* approvals keep their fingerprints; a new one is its own.
LEMMA CallStep ==
    ASSUME AnalysisInv, NEW c \in Calls,
           call' \in [Calls -> CallRec], \A d \in Calls \ {c} : call'[d] = call[d],
           world' = world, restarts' = restarts, DOMAIN trail' = Calls,
           Honest(call[c])',
           approvals' \in Seq(ApprovalRec), DOMAIN approvals \subseteq DOMAIN approvals',
           \A a \in DOMAIN approvals : approvals'[a].fingerprint = approvals[a].fingerprint,
           \A a \in DOMAIN approvals' : approvals'[a].case \in {None, approvals'[a].fingerprint},
           \A a \in DOMAIN approvals' : a \in DOMAIN approvals \/ (call'[c].approval = a /\ ~call'[c].reused),
           call[c].approval # None => /\ call'[c].approval = call[c].approval
                                      /\ call'[c].reused = call[c].reused
    PROVE  AnalysisInv'
<1>1. \A d \in Calls : Honest(call[d])'
  <2> SUFFICES ASSUME NEW d \in Calls, d # c PROVE Honest(call[d])'
    OBVIOUS
  <2>1. Honest(call[d]) /\ call'[d] = call[d]
    BY DEF AnalysisInv
  <2> QED
    BY <2>1 DEF Honest
<1>2. ASSUME NEW a \in DOMAIN approvals'
      PROVE  \E d \in Calls : call'[d].approval = a /\ ~call'[d].reused
  <2>1. CASE a \in DOMAIN approvals
    <3>1. PICK d \in Calls : call[d].approval = a /\ ~call[d].reused
      BY <2>1 DEF AnalysisInv, ApprovalsInv
    <3>2. a # None
      BY <2>1, Indices DEF AnalysisInv, ApprovalsInv
    <3> QED
      BY <3>1, <3>2
  <2>2. CASE a \notin DOMAIN approvals
    BY <2>2
  <2> QED
    BY <2>1, <2>2
<1>3. ApprovalsInv'
  BY <1>2 DEF ApprovalsInv
<1> QED
  BY <1>1, <1>3 DEF AnalysisInv

\* The same for a step that leaves the approvals alone.
LEMMA QuietStep ==
    ASSUME AnalysisInv, NEW c \in Calls,
           call' \in [Calls -> CallRec], \A d \in Calls \ {c} : call'[d] = call[d],
           UNCHANGED <<world, restarts, approvals>>, DOMAIN trail' = Calls, Honest(call[c])',
           call[c].approval # None => /\ call'[c].approval = call[c].approval
                                      /\ call'[c].reused = call[c].reused
    PROVE  AnalysisInv'
<1>1. approvals' = approvals /\ world' = world /\ restarts' = restarts
  OBVIOUS
<1>2. approvals \in Seq(ApprovalRec) /\ \A a \in DOMAIN approvals : approvals[a].case \in {None, approvals[a].fingerprint}
  BY DEF AnalysisInv, ApprovalsInv
<1>3. /\ approvals' \in Seq(ApprovalRec) /\ DOMAIN approvals \subseteq DOMAIN approvals'
      /\ \A a \in DOMAIN approvals : approvals'[a].fingerprint = approvals[a].fingerprint
      /\ \A a \in DOMAIN approvals' : approvals'[a].case \in {None, approvals'[a].fingerprint}
      /\ \A a \in DOMAIN approvals' : a \in DOMAIN approvals \/ (call'[c].approval = a /\ ~call'[c].reused)
  BY <1>1, <1>2
<1> QED
  BY <1>1, <1>3, CallStep

\* A call that is not under way has no approval; what it is after a step.
LEMMA IdleCall ==
    ASSUME AnalysisInv, NEW c \in Calls, call[c].pc = "idle"
    PROVE  call[c].approval = None
  BY DEF AnalysisInv, Honest

LEMMA Audited ==
    ASSUME AnalysisInv, NEW c \in Calls, NEW event, Audit(c, event)
    PROVE  DOMAIN trail' = Calls
  BY DEF AnalysisInv, Audit

\* A call that was never made.
LEMMA IdleRec ==
    /\ Idle \in CallRec /\ Idle.pc = "idle" /\ Idle.op = None /\ Idle.outcome = None
    /\ Idle.approval = None /\ Idle.reused = FALSE /\ Idle.said = 0 /\ Idle.superseded = {}
    /\ Idle.attachments = {} /\ Idle.shown = {}
BY DEF Idle, CallRec, Places

LEMMA DenyKeeps ==
    ASSUME AnalysisInv, NEW c \in Calls, NEW op \in {"analyze", "intake", "ask"}, NEW role \in Roles,
           Deny(c, op, role)
    PROVE  AnalysisInv'
<1> DEFINE next == [Idle EXCEPT !.op = op, !.role = role, !.pc = "denied"]
<1>1. next \in CallRec /\ next.pc = "denied" /\ next.outcome = None
      /\ next.approval = None /\ next.superseded = {}
  BY IdleRec DEF CallRec, Places, Ended
<1> HIDE DEF next
<1>2. call' = [call EXCEPT ![c] = next] /\ call[c].pc = "idle" /\ UNCHANGED <<world, restarts, approvals>>
  BY DEF Deny, next
<1>3. call' \in [Calls -> CallRec] /\ call'[c] = next /\ \A d \in Calls \ {c} : call'[d] = call[d]
  BY <1>1, <1>2 DEF AnalysisInv
<1>4. Honest(call[c])'
  BY <1>1, <1>3 DEF Honest
<1>5. DOMAIN trail' = Calls
  BY Audited DEF Deny
<1> QED
  BY <1>2, <1>3, <1>4, <1>5, IdleCall, QuietStep

LEMMA ReceiveKeeps ==
    ASSUME AnalysisInv, NEW c \in Calls, NEW role \in Roles, NEW q \in Inputs, Receive(c, role, q)
    PROVE  AnalysisInv'
<1> DEFINE S == Injections(world, q.supplier)
           next == [Idle EXCEPT !.op = "analyze", !.role = role, !.asked = q,
                                !.pc = "received", !.world = world, !.attachments = S]
<1>1. world \in Worlds
  BY DEF AnalysisInv
<1>2. S \subseteq UNION {Entries(w) : w \in Worlds}
  BY <1>1 DEF Injections
<1> HIDE DEF S
<1>3. next \in CallRec /\ next.pc = "received" /\ next.outcome = None /\ next.op = "analyze"
      /\ next.approval = None /\ next.superseded = {} /\ next.world = world
      /\ next.asked = q /\ next.role = role
  BY <1>1, <1>2, IdleRec DEF CallRec, Places, Ended
<1> HIDE DEF next
<1>4. call' = [call EXCEPT ![c] = next] /\ call[c].pc = "idle" /\ UNCHANGED <<world, restarts, approvals>>
  BY DEF Receive, next, S
<1>5. call' \in [Calls -> CallRec] /\ call'[c] = next /\ \A d \in Calls \ {c} : call'[d] = call[d]
  BY <1>3, <1>4 DEF AnalysisInv
<1>6. Honest(call[c])'
  BY <1>3, <1>4, <1>5 DEF Honest
<1>7. DOMAIN trail' = Calls
  BY Audited DEF Receive
<1> QED
  BY <1>4, <1>5, <1>6, <1>7, IdleCall, QuietStep

LEMMA AssessKeeps ==
    ASSUME AnalysisInv, NEW c \in Calls, Assess(c)
    PROVE  AnalysisInv'
<1> DEFINE outcome == Outcome(world, call[c].asked, call[c].role)
           place == IF outcome.failure # None THEN "failing" ELSE "assessed"
           next == [call[c] EXCEPT !.outcome = outcome, !.pc = place]
<1>1. /\ call[c] \in CallRec /\ call[c].pc = "received" /\ call[c].op = "analyze" /\ call[c].approval = None
      /\ call[c].asked \in Inputs /\ call[c].role \in Roles /\ call[c].world = world /\ world \in Worlds
      /\ call[c].superseded \subseteq DOMAIN approvals
  BY DEF Assess, AnalysisInv, Honest
<1>2. call' = [call EXCEPT ![c] = next] /\ UNCHANGED <<world, restarts, approvals, trail>>
  BY DEF Assess
<1>3. outcome \in Outcomes
  BY <1>1 DEF Outcomes
<1>4. /\ place \in {"failing", "assessed"}
      /\ place = "assessed" => outcome.failure = None
      /\ place = "failing" => outcome.failure # None
  OBVIOUS
<1>5. place \in Places
  BY <1>4 DEF Places, Ended
<1>6. DOMAIN trail' = Calls
  BY <1>2 DEF AnalysisInv
<1> HIDE DEF outcome, place
<1>7. /\ next \in CallRec /\ next.op = "analyze" /\ next.outcome = outcome /\ next.approval = None
      /\ next.pc = place /\ next.superseded = call[c].superseded
      /\ next.asked = call[c].asked /\ next.world = world /\ next.reused = call[c].reused
  BY <1>1, <1>3, <1>5 DEF CallRec
<1> HIDE DEF next
<1>8. call' \in [Calls -> CallRec] /\ call'[c] = next /\ \A d \in Calls \ {c} : call'[d] = call[d]
  BY <1>2, <1>7 DEF AnalysisInv
<1>9. ComputedFrom(next, world, call[c].asked, call[c].role)
  BY <1>7 DEF ComputedFrom, outcome
<1>10. Founded(call'[c])
  BY <1>1, <1>8, <1>9 DEF Founded
<1>11. Honest(call[c])'
  <2>1. Founded(call[c])'
    BY <1>10 DEF Founded, ComputedFrom
  <2> QED
    BY <1>1, <1>2, <1>4, <1>7, <1>8, <2>1 DEF Honest
<1> QED
  BY <1>1, <1>2, <1>6, <1>8, <1>11, QuietStep

LEMMA ClaimKeeps ==
    ASSUME AnalysisInv, NEW c \in Calls, Claim(c)
    PROVE  AnalysisInv'
<1> DEFINE case == call[c].outcome.case
           live == LiveOf(case.request.id)
           covering == {i \in live : approvals[i].fingerprint = Fingerprint(case)}
           needed == case.decision.status = "CONDITIONAL_REVIEW"
           kept == IF needed THEN covering ELSE {}
           rec == [request |-> case.request.id, fingerprint |-> Fingerprint(case),
                   live |-> TRUE, case |-> None]
           opened == IF needed /\ kept = {} THEN <<rec>> ELSE <<>>
           ended == [i \in DOMAIN approvals |->
                       [approvals[i] EXCEPT !.live = @ /\ i \notin live \ kept]]
           handed == IF ~needed THEN None
                     ELSE IF kept # {} THEN CHOOSE i \in kept : TRUE ELSE Len(approvals) + 1
           reused == kept # {}
           superseded == live \ kept
           place == IF opened # <<>> THEN "claimed" ELSE "reporting"
           next == [call[c] EXCEPT !.pc = place, !.approval = handed, !.reused = reused,
                                   !.superseded = superseded]
<1>1. /\ call[c] \in CallRec /\ call[c].pc = "assessed" /\ call[c].op = "analyze"
      /\ call[c].approval = None /\ call[c].outcome.failure = None /\ Founded(call[c])
  BY DEF Claim, AnalysisInv, Honest
<1>2. PICK w \in Worlds, q \in Inputs, role \in Roles : ComputedFrom(call[c], w, q, role)
  BY <1>1 DEF Founded
<1>3. case.request = q /\ case \in {o.case : o \in Outcomes}
  BY <1>1, <1>2, OutcomeFacts DEF ComputedFrom, Outcomes
<1>4. approvals' = ended \o opened /\ call' = [call EXCEPT ![c] = next]
      /\ UNCHANGED <<world, restarts, trail>>
  BY DEF Claim
<1>5. approvals \in Seq(ApprovalRec) /\ Len(approvals) \in Nat /\ DOMAIN approvals = 1..Len(approvals)
      /\ \A a \in DOMAIN approvals : /\ approvals[a] \in ApprovalRec
                                     /\ approvals[a].case \in {None, approvals[a].fingerprint}
  BY Indices DEF AnalysisInv, ApprovalsInv
<1>6. live \subseteq DOMAIN approvals /\ kept \subseteq live
      /\ \A i \in kept : needed /\ approvals[i].fingerprint = case
  BY DEF LiveOf, Fingerprint
<1>7. rec \in ApprovalRec /\ rec.fingerprint = case /\ rec.case = None
  BY <1>3 DEF ApprovalRec, Fingerprint
<1> HIDE DEF live, rec, needed, kept
<1>8. /\ ended \in Seq(ApprovalRec) /\ Len(ended) = Len(approvals)
      /\ \A i \in 1..Len(approvals) : /\ ended[i].fingerprint = approvals[i].fingerprint
                                      /\ ended[i].case = approvals[i].case
  <2>1. ASSUME NEW i \in 1..Len(approvals)
        PROVE  /\ ended[i] \in ApprovalRec
               /\ ended[i].fingerprint = approvals[i].fingerprint /\ ended[i].case = approvals[i].case
    <3>1. approvals[i] \in ApprovalRec
      BY <1>5
    <3>2. ended[i] = [approvals[i] EXCEPT !.live = approvals[i].live /\ i \notin live \ kept]
      BY <1>5
    <3> QED
      BY <3>1, <3>2 DEF ApprovalRec
  <2>2. ended \in [1..Len(approvals) -> ApprovalRec]
    BY <1>5, <2>1
  <2>3. ended \in Seq(ApprovalRec)
    BY <1>5, <2>2, SeqDef
  <2>4. Len(ended) = Len(approvals)
    BY <1>5, <2>2, <2>3, LenProperties
  <2> QED
    BY <2>1, <2>3, <2>4
<1>9. /\ opened \in Seq(ApprovalRec)
      /\ \/ opened = <<>> /\ Len(opened) = 0
         \/ needed /\ kept = {} /\ Len(opened) = 1 /\ opened[1] = rec
      /\ needed /\ kept = {} => Len(opened) = 1 /\ opened[1] = rec
  BY <1>7
<1>9a. /\ place \in {"claimed", "reporting"}
       /\ place = "claimed" => Len(opened) = 1
  BY <1>9
<1> HIDE DEF ended, opened, place
<1>10. /\ approvals' \in Seq(ApprovalRec)
       /\ DOMAIN approvals' = 1..(Len(approvals) + Len(opened))
       /\ \A i \in 1..Len(approvals) : approvals'[i] = ended[i]
       /\ Len(opened) = 1 => approvals'[Len(approvals) + 1] = rec
  <2>1. approvals' \in Seq(ApprovalRec) /\ Len(approvals') = Len(approvals) + Len(opened)
    BY <1>4, <1>8, <1>9, ConcatProperties
  <2>2. \A i \in 1..(Len(approvals) + Len(opened)) :
           approvals'[i] = IF i <= Len(approvals) THEN ended[i] ELSE opened[i - Len(approvals)]
    BY <1>4, <1>8, <1>9, ConcatProperties
  <2>3. DOMAIN approvals' = 1..(Len(approvals) + Len(opened))
    BY <2>1, LenProperties
  <2>4. Len(opened) \in {0, 1} /\ (Len(opened) = 1 => opened[1] = rec)
    BY <1>9
  <2>5. \A i \in 1..Len(approvals) : approvals'[i] = ended[i]
    BY <1>5, <2>2, <2>4
  <2>6. ASSUME Len(opened) = 1 PROVE approvals'[Len(approvals) + 1] = rec
    <3> DEFINE last == Len(approvals) + 1
    <3>1. last \in 1..(Len(approvals) + Len(opened)) /\ ~(last <= Len(approvals)) /\ last - Len(approvals) = 1
      BY <1>5, <2>6
    <3> HIDE DEF last
    <3>2. approvals'[last] = opened[1]
      BY <2>2, <3>1
    <3> QED
      BY <2>4, <2>6, <3>2 DEF last
  <2> QED
    BY <2>1, <2>3, <2>5, <2>6
<1>11. /\ handed # None => /\ handed \in DOMAIN approvals' /\ needed
                           /\ approvals'[handed].fingerprint = case
       /\ handed \in Nat \cup {None}
       /\ Len(opened) = 1 => handed = Len(approvals) + 1 /\ ~reused
  <2>1. CASE ~needed
    BY <1>9, <2>1
  <2>2. CASE needed /\ kept # {}
    <3>1. handed \in kept
      BY <2>2
    <3>2. handed \in 1..Len(approvals) /\ approvals[handed].fingerprint = case
      BY <1>5, <1>6, <3>1
    <3>3. handed \in DOMAIN approvals' /\ approvals'[handed].fingerprint = case
      <4>1. Len(opened) \in Nat
        BY <1>9
      <4> HIDE DEF handed, case
      <4> QED
        BY <1>5, <1>8, <1>10, <3>2, <4>1
    <3>4. handed \in Nat
      <4> HIDE DEF handed
      <4> QED
        BY <1>5, <3>2
    <3>5. Len(opened) # 1
      BY <1>9, <2>2
    <3> HIDE DEF handed, case, reused
    <3> QED
      BY <2>2, <3>3, <3>4, <3>5
  <2>3. CASE needed /\ kept = {}
    <3>1. handed = Len(approvals) + 1 /\ ~reused
      BY <2>3
    <3>2. Len(opened) = 1
      BY <1>9, <2>3
    <3> HIDE DEF handed, case, reused
    <3>3. handed \in DOMAIN approvals' /\ handed \in Nat
      BY <1>5, <1>10, <3>1, <3>2
    <3>4. approvals'[handed].fingerprint = case
      BY <1>7, <1>10, <3>1, <3>2
    <3> QED
      BY <2>3, <3>1, <3>3, <3>4
  <2> QED
    BY <2>1, <2>2, <2>3
<1>12. superseded \subseteq DOMAIN approvals /\ superseded \in SUBSET Nat /\ reused \in BOOLEAN
  BY <1>5, <1>6
<1> HIDE DEF handed, superseded, reused
<1>13. /\ next \in CallRec /\ next.op = "analyze" /\ next.outcome = call[c].outcome
       /\ next.pc = place /\ next.approval = handed /\ next.superseded = superseded
       /\ next.reused = reused /\ next.asked = call[c].asked /\ next.world = call[c].world
  <2>1. place \in Places
    BY <1>9a DEF Places
  <2> QED
    BY <1>1, <1>11, <1>12, <2>1 DEF CallRec
<1> HIDE DEF next
<1>14. call' \in [Calls -> CallRec] /\ call'[c] = next /\ \A d \in Calls \ {c} : call'[d] = call[d]
  BY <1>4, <1>13 DEF AnalysisInv
<1>15. Founded(call[c])'
  BY <1>2, <1>13, <1>14 DEF Founded, ComputedFrom
<1>16. DOMAIN approvals \subseteq DOMAIN approvals'
  BY <1>5, <1>9, <1>10
<1>17. Honest(call[c])'
  <2>1. place = "claimed" => handed # None /\ ~reused
    <3>1. Len(approvals) + 1 # None
      BY <1>5, DecisionAssumption
    <3> QED
      BY <1>11, <1>9a, <3>1
  <2> QED
    BY <1>1, <1>11, <1>12, <1>13, <1>14, <1>15, <1>16, <1>9a, <2>1 DEF Honest, needed
<1>18. \A a \in DOMAIN approvals : approvals'[a].fingerprint = approvals[a].fingerprint
  BY <1>5, <1>8, <1>10
<1>19. ASSUME NEW a \in DOMAIN approvals'
       PROVE  /\ approvals'[a].case \in {None, approvals'[a].fingerprint}
              /\ a \in DOMAIN approvals \/ (call'[c].approval = a /\ ~call'[c].reused)
  <2>1. CASE a \in DOMAIN approvals
    BY <1>5, <1>8, <1>10, <2>1
  <2>2. CASE a \notin DOMAIN approvals
    <3>1. a = Len(approvals) + 1 /\ Len(opened) = 1
      <4>1. a \in 1..(Len(approvals) + Len(opened)) /\ a \notin 1..Len(approvals)
        BY <1>5, <1>10, <2>2
      <4>2. Len(opened) = 0 \/ Len(opened) = 1
        BY <1>9
      <4>3. Len(approvals) \in Nat
        BY <1>5
      <4>4. ASSUME NEW m \in Nat, NEW n \in {0, 1}, a \in 1..(m + n), a \notin 1..m
            PROVE  a = m + 1 /\ n = 1
        BY <4>4
      <4> QED
        BY <4>1, <4>2, <4>3, <4>4
    <3> QED
      BY <1>7, <1>10, <1>11, <1>13, <1>14, <3>1
  <2> QED
    BY <2>1, <2>2
<1>20. DOMAIN trail' = Calls
  BY <1>4 DEF AnalysisInv
<1> QED
  BY <1>1, <1>4, <1>10, <1>14, <1>16, <1>17, <1>18, <1>19, <1>20, CallStep

(***************************************************************************)
(* The steps of a call that goes on, and what they leave as it was: what   *)
(* was asked, what was computed and what the call was handed.              *)
(***************************************************************************)
MovesTo(c, pc, attachments, said, superseded) ==
    /\ call' \in [Calls -> CallRec] /\ \A d \in Calls \ {c} : call'[d] = call[d]
    /\ call'[c].op = call[c].op /\ call'[c].role = call[c].role
    /\ call'[c].asked = call[c].asked /\ call'[c].world = call[c].world
    /\ call'[c].outcome = call[c].outcome /\ call'[c].shown = call[c].shown
    /\ call'[c].approval = call[c].approval /\ call'[c].reused = call[c].reused
    /\ call'[c].pc = pc /\ call'[c].attachments = attachments
    /\ call'[c].said = said /\ call'[c].superseded = superseded

LEMMA Moving ==
    ASSUME AnalysisInv, NEW c \in Calls
    PROVE  /\ \A pc \in Places : call' = [call EXCEPT ![c].pc = pc] =>
                 MovesTo(c, pc, call[c].attachments, call[c].said, call[c].superseded)
           /\ \A d : call' = [call EXCEPT ![c].attachments = @ \ {d}] =>
                 MovesTo(c, call[c].pc, call[c].attachments \ {d}, call[c].said, call[c].superseded)
           /\ \A n \in 0..4 : call' = [call EXCEPT ![c].said = n] =>
                 MovesTo(c, call[c].pc, call[c].attachments, n, call[c].superseded)
           /\ \A a : call' = [call EXCEPT ![c].superseded = @ \ {a}] =>
                 MovesTo(c, call[c].pc, call[c].attachments, call[c].said, call[c].superseded \ {a})
<1> DEFINE k == call[c]
           Same(next, pc, attachments, said, superseded) ==
              /\ next.op = k.op /\ next.role = k.role /\ next.asked = k.asked
              /\ next.world = k.world /\ next.outcome = k.outcome /\ next.shown = k.shown
              /\ next.approval = k.approval /\ next.reused = k.reused
              /\ next.pc = pc /\ next.attachments = attachments
              /\ next.said = said /\ next.superseded = superseded
<1>1. k \in CallRec /\ call \in [Calls -> CallRec]
  BY DEF AnalysisInv
<1>2. ASSUME NEW next \in CallRec, NEW pc, NEW attachments, NEW said, NEW superseded,
             Same(next, pc, attachments, said, superseded), call' = [call EXCEPT ![c] = next]
      PROVE  MovesTo(c, pc, attachments, said, superseded)
  <2>1. call' \in [Calls -> CallRec] /\ call'[c] = next /\ \A d \in Calls \ {c} : call'[d] = call[d]
    BY <1>1, <1>2
  <2> QED
    BY <1>2, <2>1 DEF MovesTo
<1>3. ASSUME NEW pc \in Places, call' = [call EXCEPT ![c].pc = pc]
      PROVE  MovesTo(c, pc, k.attachments, k.said, k.superseded)
  <2> DEFINE next == [k EXCEPT !.pc = pc]
  <2>1. next \in CallRec /\ Same(next, pc, k.attachments, k.said, k.superseded)
    BY <1>1 DEF CallRec
  <2>2. call' = [call EXCEPT ![c] = next]
    BY <1>3
  <2> HIDE DEF next
  <2> QED
    BY <1>2, <2>1, <2>2
<1>4. ASSUME NEW d, call' = [call EXCEPT ![c].attachments = @ \ {d}]
      PROVE  MovesTo(c, k.pc, k.attachments \ {d}, k.said, k.superseded)
  <2> DEFINE less == k.attachments \ {d}
             next == [k EXCEPT !.attachments = less]
  <2>1. k.attachments \in SUBSET UNION {Entries(w) : w \in Worlds}
    BY <1>1 DEF CallRec
  <2>2. less \in SUBSET UNION {Entries(w) : w \in Worlds}
    BY <2>1
  <2>3. call' = [call EXCEPT ![c] = next]
    BY <1>4
  <2> HIDE DEF less
  <2>4. next \in CallRec /\ Same(next, k.pc, less, k.said, k.superseded)
    BY <1>1, <2>2 DEF CallRec
  <2> HIDE DEF next
  <2> QED
    BY <1>2, <2>3, <2>4 DEF less
<1>5. ASSUME NEW n \in 0..4, call' = [call EXCEPT ![c].said = n]
      PROVE  MovesTo(c, k.pc, k.attachments, n, k.superseded)
  <2> DEFINE next == [k EXCEPT !.said = n]
  <2>1. next \in CallRec /\ Same(next, k.pc, k.attachments, n, k.superseded)
    BY <1>1 DEF CallRec
  <2>2. call' = [call EXCEPT ![c] = next]
    BY <1>5
  <2> HIDE DEF next
  <2> QED
    BY <1>2, <2>1, <2>2
<1>6. ASSUME NEW a, call' = [call EXCEPT ![c].superseded = @ \ {a}]
      PROVE  MovesTo(c, k.pc, k.attachments, k.said, k.superseded \ {a})
  <2> DEFINE less == k.superseded \ {a}
             next == [k EXCEPT !.superseded = less]
  <2>1. k.superseded \in SUBSET Nat
    BY <1>1 DEF CallRec
  <2>2. less \in SUBSET Nat
    BY <2>1
  <2>3. call' = [call EXCEPT ![c] = next]
    BY <1>6
  <2> HIDE DEF less
  <2>4. next \in CallRec /\ Same(next, k.pc, k.attachments, k.said, less)
    BY <1>1, <2>2 DEF CallRec
  <2> HIDE DEF next
  <2> QED
    BY <1>2, <2>3, <2>4 DEF less
<1> QED
  BY <1>3, <1>4, <1>5, <1>6

\* What is announced: three events, and a fourth one of an approval.
LEMMA Announcing ==
    ASSUME NEW k
    PROVE  LET said == Announcements(k)
               case == k.outcome.case
           IN /\ said[1] = Event("POLICY_RETRIEVED", case.citations)
              /\ said[2] = Event("PURCHASE_ANALYZED", case.analysis)
              /\ said[3] = Event("POLICY_EVALUATED", case.decision.status)
              /\ k.approval = None => Len(said) = 3 /\ DOMAIN said = 1..3
              /\ k.approval # None =>
                    /\ Len(said) = 4 /\ DOMAIN said = 1..4
                    /\ said[4] = Event(IF k.reused THEN "APPROVAL_REUSED" ELSE "APPROVAL_REQUESTED",
                                       k.approval)
<1> DEFINE case == k.outcome.case
           one == Event("POLICY_RETRIEVED", case.citations)
           two == Event("PURCHASE_ANALYZED", case.analysis)
           three == Event("POLICY_EVALUATED", case.decision.status)
           four == Event(IF k.reused THEN "APPROVAL_REUSED" ELSE "APPROVAL_REQUESTED", k.approval)
           S == {one, two, three, four}
<1>1. Announcements(k) = <<one, two, three>> \o (IF k.approval = None THEN <<>> ELSE <<four>>)
  BY DEF Announcements
<1>2. one \in S /\ two \in S /\ three \in S /\ four \in S
  OBVIOUS
<1> HIDE DEF one, two, three, four, S
<1>3. <<one, two, three>> \in Seq(S) /\ <<four>> \in Seq(S) /\ <<>> \in Seq(S)
  BY <1>2
<1>4. CASE k.approval = None
  <2>1. Announcements(k) = <<one, two, three>>
    BY <1>1, <1>3, <1>4, ConcatEmptySeq
  <2> QED
    BY <1>4, <2>1 DEF one, two, three
<1>5. CASE k.approval # None
  <2>1. Announcements(k) = <<one, two, three>> \o <<four>>
    BY <1>1, <1>5
  <2>2. /\ Len(<<one, two, three>>) = 3 /\ Len(<<four>>) = 1
        /\ <<one, two, three>>[1] = one /\ <<one, two, three>>[2] = two
        /\ <<one, two, three>>[3] = three /\ <<four>>[1] = four
    OBVIOUS
  <2>3. /\ Announcements(k) \in Seq(S) /\ Len(Announcements(k)) = 4
        /\ \A i \in 1..4 : Announcements(k)[i] = IF i <= 3 THEN <<one, two, three>>[i] ELSE <<four>>[i - 3]
    BY <1>3, <2>1, <2>2, ConcatProperties
  <2>4. DOMAIN Announcements(k) = 1..4
    BY <2>3, LenProperties
  <2>5. /\ Announcements(k)[1] = one /\ Announcements(k)[2] = two
        /\ Announcements(k)[3] = three /\ Announcements(k)[4] = four
    <3>1. /\ Announcements(k)[1] = <<one, two, three>>[1] /\ Announcements(k)[2] = <<one, two, three>>[2]
          /\ Announcements(k)[3] = <<one, two, three>>[3] /\ Announcements(k)[4] = <<four>>[4 - 3]
      BY <2>3
    <3> QED
      BY <2>2, <3>1
  <2> QED
    BY <1>5, <2>3, <2>4, <2>5 DEF one, two, three, four
<1> QED
  BY <1>4, <1>5

LEMMA QuarantineMoves ==
    ASSUME AnalysisInv, NEW c \in Calls, Quarantine(c)
    PROVE  \E d \in call[c].attachments :
              /\ MovesTo(c, "received", call[c].attachments \ {d}, call[c].said, call[c].superseded)
              /\ Audit(c, Event("SECURITY_CONTENT_QUARANTINED", d))
<1>1. PICK d \in call[c].attachments :
         /\ call' = [call EXCEPT ![c].attachments = @ \ {d}]
         /\ Audit(c, Event("SECURITY_CONTENT_QUARANTINED", d))
  BY DEF Quarantine
<1>2. MovesTo(c, call[c].pc, call[c].attachments \ {d}, call[c].said, call[c].superseded)
  BY <1>1, Moving
<1>3. MovesTo(c, "received", call[c].attachments \ {d}, call[c].said, call[c].superseded)
  BY <1>2 DEF Quarantine
<1> QED
  BY <1>1, <1>3

LEMMA FailMoves ==
    ASSUME AnalysisInv, NEW c \in Calls, Fail(c)
    PROVE  MovesTo(c, "failed", call[c].attachments, call[c].said, call[c].superseded)
BY Moving DEF Fail, Places, Ended

LEMMA SaveCaseMoves ==
    ASSUME AnalysisInv, NEW c \in Calls, SaveCase(c)
    PROVE  MovesTo(c, "reporting", call[c].attachments, call[c].said, call[c].superseded)
BY Moving DEF SaveCase, Places

LEMMA ReportMoves ==
    ASSUME AnalysisInv, NEW c \in Calls, Report(c)
    PROVE  /\ call[c].said + 1 \in DOMAIN Announcements(call[c]) /\ call[c].said + 1 \in 1..4
           /\ call[c].said + 1 = 4 => call[c].approval # None
           /\ MovesTo(c, "reporting", call[c].attachments, call[c].said + 1, call[c].superseded)
<1> DEFINE n == call[c].said + 1
<1>1. n \in DOMAIN Announcements(call[c]) /\ call' = [call EXCEPT ![c].said = n] /\ call[c].pc = "reporting"
  BY DEF Report
<1>2. n \in 1..4 /\ (n = 4 => call[c].approval # None)
  <2>1. \/ DOMAIN Announcements(call[c]) = 1..3
        \/ call[c].approval # None /\ DOMAIN Announcements(call[c]) = 1..4
    BY Announcing
  <2> HIDE DEF n
  <2> QED
    BY <1>1, <2>1
<1> HIDE DEF n
<1>3. MovesTo(c, call[c].pc, call[c].attachments, n, call[c].superseded)
  <2>1. n \in 0..4
    BY <1>2
  <2> QED
    BY <1>1, <2>1, Moving
<1> QED
  BY <1>1, <1>2, <1>3 DEF n

LEMMA ReportSupersededMoves ==
    ASSUME AnalysisInv, NEW c \in Calls, ReportSuperseded(c)
    PROVE  \E a \in call[c].superseded :
              /\ MovesTo(c, "reporting", call[c].attachments, call[c].said, call[c].superseded \ {a})
              /\ Audit(c, Event("APPROVAL_SUPERSEDED", a))
<1>1. PICK a \in call[c].superseded :
         /\ call' = [call EXCEPT ![c].superseded = @ \ {a}]
         /\ Audit(c, Event("APPROVAL_SUPERSEDED", a))
  BY DEF ReportSuperseded
<1>2. MovesTo(c, call[c].pc, call[c].attachments, call[c].said, call[c].superseded \ {a})
  BY <1>1, Moving
<1>3. MovesTo(c, "reporting", call[c].attachments, call[c].said, call[c].superseded \ {a})
  BY <1>2 DEF ReportSuperseded
<1> QED
  BY <1>1, <1>3

LEMMA NarrateMoves ==
    ASSUME AnalysisInv, NEW c \in Calls, Narrate(c)
    PROVE  MovesTo(c, "answered", call[c].attachments, call[c].said, call[c].superseded)
BY Moving DEF Narrate, Places, Ended

LEMMA RaiseMoves ==
    ASSUME AnalysisInv, NEW c \in Calls, Raise(c)
    PROVE  MovesTo(c, "dead", call[c].attachments, call[c].said, call[c].superseded)
BY Moving DEF Raise, Places, Ended

\* A call that goes on keeps the invariant.
LEMMA MovingKeeps ==
    ASSUME AnalysisInv, NEW c \in Calls, NEW pc, NEW attachments, NEW said, NEW superseded,
           MovesTo(c, pc, attachments, said, superseded),
           superseded \subseteq call[c].superseded, pc \in {call[c].pc} \cup Ended,
           UNCHANGED <<world, restarts, approvals>>, DOMAIN trail' = Calls
    PROVE  AnalysisInv'
<1>1. Honest(call[c]) /\ world' = world /\ approvals' = approvals
  BY DEF AnalysisInv
<1>2. Founded(call[c])' <=> Founded(call[c])
  BY DEF MovesTo, Founded, ComputedFrom
<1>3. Honest(call[c])'
  BY <1>1, <1>2 DEF MovesTo, Honest, Ended
<1> QED
  BY <1>3, QuietStep DEF MovesTo

LEMMA GoingOnKeeps ==
    ASSUME AnalysisInv, NEW c \in Calls,
           \/ Quarantine(c)
           \/ Fail(c)
           \/ Report(c)
           \/ ReportSuperseded(c)
           \/ Narrate(c)
           \/ Raise(c)
    PROVE  AnalysisInv'
<1>1. CASE Quarantine(c)
  <2>1. PICK d \in call[c].attachments :
           /\ MovesTo(c, "received", call[c].attachments \ {d}, call[c].said, call[c].superseded)
           /\ Audit(c, Event("SECURITY_CONTENT_QUARANTINED", d))
    BY <1>1, QuarantineMoves
  <2>2. UNCHANGED <<world, restarts, approvals>> /\ call[c].pc = "received"
    BY <1>1 DEF Quarantine
  <2>3. DOMAIN trail' = Calls
    BY <2>1, Audited
  <2> QED
    BY <2>1, <2>2, <2>3, MovingKeeps
<1>2. CASE Fail(c)
  <2>1. UNCHANGED <<world, restarts, approvals>> /\ "failed" \in Ended /\ DOMAIN trail' = Calls
    BY <1>2, Audited DEF Fail, Ended
  <2> QED
    BY <1>2, <2>1, FailMoves, MovingKeeps
<1>3. CASE Report(c)
  <2>1. UNCHANGED <<world, restarts, approvals>> /\ call[c].pc = "reporting" /\ DOMAIN trail' = Calls
    BY <1>3, Audited DEF Report
  <2> QED
    BY <1>3, <2>1, ReportMoves, MovingKeeps
<1>4. CASE ReportSuperseded(c)
  <2>1. PICK a \in call[c].superseded :
           /\ MovesTo(c, "reporting", call[c].attachments, call[c].said, call[c].superseded \ {a})
           /\ Audit(c, Event("APPROVAL_SUPERSEDED", a))
    BY <1>4, ReportSupersededMoves
  <2>2. UNCHANGED <<world, restarts, approvals>> /\ call[c].pc = "reporting"
    BY <1>4 DEF ReportSuperseded
  <2>3. DOMAIN trail' = Calls
    BY <2>1, Audited
  <2> QED
    BY <2>1, <2>2, <2>3, MovingKeeps
<1>5. CASE Narrate(c)
  <2>1. UNCHANGED <<world, restarts, approvals>> /\ "answered" \in Ended
    BY <1>5 DEF Narrate, Ended
  <2>2. DOMAIN trail' = Calls
    BY <1>5, Audited DEF Narrate, AnalysisInv
  <2> QED
    BY <1>5, <2>1, <2>2, NarrateMoves, MovingKeeps
<1>6. CASE Raise(c)
  <2>1. UNCHANGED <<world, restarts, approvals, trail>> /\ "dead" \in Ended
    BY <1>6 DEF Raise, Ended
  <2>2. DOMAIN trail' = Calls
    BY <2>1 DEF AnalysisInv
  <2> QED
    BY <1>6, <2>1, <2>2, RaiseMoves, MovingKeeps
<1> QED
  BY <1>1, <1>2, <1>3, <1>4, <1>5, <1>6

LEMMA SaveCaseKeeps ==
    ASSUME AnalysisInv, NEW c \in Calls, SaveCase(c)
    PROVE  AnalysisInv'
<1> DEFINE case == call[c].outcome.case
           own == call[c].approval
<1>1. /\ call[c].pc = "claimed" /\ call[c].op = "analyze" /\ call[c].outcome.failure = None
      /\ Founded(call[c]) /\ own \in DOMAIN approvals /\ call[c].superseded \subseteq DOMAIN approvals
      /\ approvals[own].fingerprint = case /\ case.decision.status = "CONDITIONAL_REVIEW"
  BY DEF SaveCase, AnalysisInv, Honest
<1>2. /\ approvals' = [approvals EXCEPT ![own].case = case] /\ UNCHANGED <<world, restarts, trail>>
      /\ MovesTo(c, "reporting", call[c].attachments, call[c].said, call[c].superseded)
  BY SaveCaseMoves DEF SaveCase
<1>3. approvals \in Seq(ApprovalRec) /\ Len(approvals) \in Nat /\ DOMAIN approvals = 1..Len(approvals)
      /\ \A a \in DOMAIN approvals : /\ approvals[a] \in ApprovalRec
                                     /\ approvals[a].case \in {None, approvals[a].fingerprint}
  BY Indices DEF AnalysisInv, ApprovalsInv
<1>4. case \in {o.case : o \in Outcomes}
  BY <1>1 DEF Founded, ComputedFrom, Outcomes
<1> HIDE DEF case, own
<1>5. ASSUME NEW a \in DOMAIN approvals
      PROVE  /\ approvals'[a] \in ApprovalRec
             /\ approvals'[a].fingerprint = approvals[a].fingerprint
             /\ approvals'[a].case \in {None, approvals'[a].fingerprint}
  <2>1. CASE a # own
    BY <1>2, <1>3, <2>1
  <2>2. CASE a = own
    <3>1. approvals'[a] = [approvals[a] EXCEPT !.case = case] /\ approvals[a] \in ApprovalRec
      BY <1>2, <1>3, <2>2
    <3>2. /\ approvals'[a] \in ApprovalRec /\ approvals'[a].case = case
          /\ approvals'[a].fingerprint = approvals[a].fingerprint
      BY <1>4, <3>1 DEF ApprovalRec
    <3> QED
      BY <1>1, <2>2, <3>2
  <2> QED
    BY <2>1, <2>2
<1>6. approvals' \in Seq(ApprovalRec) /\ DOMAIN approvals' = DOMAIN approvals
  <2>1. DOMAIN approvals' = DOMAIN approvals /\ approvals' = [a \in DOMAIN approvals |-> approvals'[a]]
    BY <1>2
  <2>2. approvals' \in [1..Len(approvals) -> ApprovalRec]
    BY <1>3, <1>5, <2>1
  <2> QED
    BY <1>3, <2>1, <2>2, SeqDef
<1>7. Founded(call[c])'
  BY <1>1, <1>2 DEF Founded, ComputedFrom, MovesTo
<1>8. Honest(call[c])'
  BY <1>1, <1>2, <1>5, <1>6, <1>7 DEF Honest, MovesTo, own, case
<1>9. DOMAIN trail' = Calls
  BY <1>2 DEF AnalysisInv
<1> QED
  BY <1>2, <1>5, <1>6, <1>8, <1>9, CallStep DEF MovesTo

\* A call that ends in the step it arrives, and asked for no analysis.
LEMMA EndedAtOnce ==
    ASSUME AnalysisInv, NEW c \in Calls, NEW next \in CallRec, call[c].pc = "idle",
           next.op # "analyze", next.pc \in {"failed", "answered"}, next.approval = None,
           next.superseded = {}, call' = [call EXCEPT ![c] = next],
           UNCHANGED <<world, restarts, approvals>>, DOMAIN trail' = Calls
    PROVE  AnalysisInv'
<1>1. call' \in [Calls -> CallRec] /\ call'[c] = next /\ \A d \in Calls \ {c} : call'[d] = call[d]
  BY DEF AnalysisInv
<1>2. Honest(call[c])'
  BY <1>1 DEF Honest
<1> QED
  BY <1>1, <1>2, IdleCall, QuietStep

LEMMA IntakeKeeps ==
    ASSUME AnalysisInv, NEW c \in Calls, NEW role \in Roles, Intake(c, role)
    PROVE  AnalysisInv'
<1>1. CASE IntakeDrafted(c, role)
  <2> DEFINE next == [Idle EXCEPT !.op = "intake", !.role = role, !.pc = "answered"]
  <2>1. next \in CallRec /\ next.op = "intake" /\ next.pc = "answered" /\ next.approval = None /\ next.superseded = {}
    BY IdleRec DEF CallRec, Places, Ended
  <2> HIDE DEF next
  <2>2. call' = [call EXCEPT ![c] = next] /\ call[c].pc = "idle" /\ UNCHANGED <<world, restarts, approvals>>
    BY <1>1 DEF IntakeDrafted, next
  <2>3. DOMAIN trail' = Calls
    BY <1>1, Audited DEF IntakeDrafted
  <2> QED
    BY <2>1, <2>2, <2>3, EndedAtOnce
<1>2. ASSUME NEW code, IntakeFails(c, role, code) PROVE AnalysisInv'
  <2> DEFINE next == [Idle EXCEPT !.op = "intake", !.role = role, !.pc = "failed",
                                  !.outcome = [failure |-> code, case |-> None]]
  <2>1. code \in Codes
    BY <1>2 DEF IntakeFails, IntakeFailures, Codes
  <2>2. next \in CallRec /\ next.op = "intake" /\ next.pc = "failed" /\ next.approval = None /\ next.superseded = {}
    BY <2>1, IdleRec DEF CallRec, Places, Ended
  <2> HIDE DEF next
  <2>3. call' = [call EXCEPT ![c] = next] /\ call[c].pc = "idle" /\ UNCHANGED <<world, restarts, approvals>>
    BY <1>2 DEF IntakeFails, next
  <2>4. DOMAIN trail' = Calls
    BY <1>2, Audited DEF IntakeFails
  <2> QED
    BY <2>2, <2>3, <2>4, EndedAtOnce
<1> QED
  BY <1>1, <1>2 DEF Intake

LEMMA AskKeeps ==
    ASSUME AnalysisInv, NEW c \in Calls, NEW role \in Roles, NEW date \in {q.date : q \in Inputs},
           Ask(c, role, date)
    PROVE  AnalysisInv'
<1>0. world \in Worlds
  BY DEF AnalysisInv
<1>1. CASE AskFails(c, role, date)
  <2> DEFINE next == [Idle EXCEPT !.op = "ask", !.role = role, !.asked = date,
                         !.world = world, !.pc = "failed",
                         !.outcome = [failure |-> "APPLICABLE_POLICY_NOT_FOUND", case |-> None]]
  <2>1. next \in CallRec /\ next.op = "ask" /\ next.pc = "failed" /\ next.approval = None /\ next.superseded = {}
    BY <1>0, IdleRec DEF CallRec, Places, Ended, Codes
  <2> HIDE DEF next
  <2>2. call' = [call EXCEPT ![c] = next] /\ call[c].pc = "idle" /\ UNCHANGED <<world, restarts, approvals>>
    BY <1>1 DEF AskFails, next
  <2>3. DOMAIN trail' = Calls
    BY <1>1, Audited DEF AskFails
  <2> QED
    BY <2>1, <2>2, <2>3, EndedAtOnce
<1>2. ASSUME NEW mode, AskAnswered(c, role, date, mode) PROVE AnalysisInv'
  <2> DEFINE answered(top) == [Idle EXCEPT !.op = "ask", !.role = role, !.asked = date,
                                 !.world = world, !.pc = "answered", !.shown = top]
  <2>0. PICK n \in 0..TopK : \E ranked \in [1..n -> SectionCandidates(world, date, role)] :
           LET top == {ranked[i] : i \in 1..n}
           IN /\ call' = [call EXCEPT ![c] = answered(top)]
              /\ \E event : Audit(c, event)
    BY <1>2 DEF AskAnswered
  <2>1. PICK ranked \in [1..n -> SectionCandidates(world, date, role)] :
           LET top == {ranked[i] : i \in 1..n}
           IN /\ call' = [call EXCEPT ![c] = answered(top)]
              /\ \E event : Audit(c, event)
    BY <2>0
  <2> DEFINE top == {ranked[i] : i \in 1..n}
  <2>2. top \in SUBSET Sections
    BY <1>0 DEF Sections
  <2> DEFINE next == answered(top)
  <2>3. next \in CallRec /\ next.op = "ask" /\ next.pc = "answered" /\ next.approval = None /\ next.superseded = {}
    BY <1>0, <2>2, IdleRec DEF CallRec, Places, Ended
  <2> HIDE DEF next
  <2>4. call' = [call EXCEPT ![c] = next] /\ call[c].pc = "idle" /\ UNCHANGED <<world, restarts, approvals>>
    BY <1>2, <2>1 DEF AskAnswered, next
  <2>5. DOMAIN trail' = Calls
    BY <2>1, Audited
  <2> QED
    BY <2>3, <2>4, <2>5, EndedAtOnce
<1> QED
  BY <1>1, <1>2 DEF Ask

LEMMA LapseKeeps ==
    ASSUME AnalysisInv, NEW i \in DOMAIN approvals, Lapse(i)
    PROVE  AnalysisInv'
<1>1. approvals' = [approvals EXCEPT ![i].live = FALSE] /\ UNCHANGED <<world, restarts, call, trail>>
  BY DEF Lapse
<1>2. approvals \in Seq(ApprovalRec) /\ Len(approvals) \in Nat /\ DOMAIN approvals = 1..Len(approvals)
      /\ \A a \in DOMAIN approvals : /\ approvals[a] \in ApprovalRec
                                     /\ approvals[a].case \in {None, approvals[a].fingerprint}
  BY Indices DEF AnalysisInv, ApprovalsInv
<1>3. ASSUME NEW a \in DOMAIN approvals
      PROVE  /\ approvals'[a] \in ApprovalRec
             /\ approvals'[a].fingerprint = approvals[a].fingerprint
             /\ approvals'[a].case = approvals[a].case
  BY <1>1, <1>2 DEF ApprovalRec
<1>4. approvals' \in Seq(ApprovalRec) /\ DOMAIN approvals' = DOMAIN approvals
  <2>1. DOMAIN approvals' = DOMAIN approvals /\ approvals' = [a \in DOMAIN approvals |-> approvals'[a]]
    BY <1>1, <1>2
  <2>2. approvals' \in [1..Len(approvals) -> ApprovalRec]
    BY <1>2, <1>3, <2>1
  <2> QED
    BY <1>2, <2>1, <2>2, SeqDef
<1>5. ApprovalsInv'
  BY <1>1, <1>2, <1>3, <1>4 DEF AnalysisInv, ApprovalsInv
<1>6. ASSUME NEW c \in Calls PROVE Honest(call[c])'
  <2>1. Honest(call[c])
    BY DEF AnalysisInv
  <2>2. Founded(call[c])' <=> Founded(call[c])
    BY <1>1 DEF Founded, ComputedFrom
  <2>3. call'[c] = call[c] /\ world' = world
    BY <1>1
  <2> QED
    BY <1>3, <1>4, <2>1, <2>2, <2>3 DEF Honest
<1> QED
  BY <1>1, <1>5, <1>6 DEF AnalysisInv

\* The calls that were under way are lost with the data they were computed
\* from; what they left in the database stays theirs.
LEMMA RestartKeeps ==
    ASSUME AnalysisInv, NEW w \in Worlds, Restart(w)
    PROVE  AnalysisInv'
<1> DEFINE over(c) == call[c].pc \in Ended \cup {"idle"}
           dead(c) == [call[c] EXCEPT !.pc = "dead"]
<1>1. /\ world' = w /\ restarts' = restarts + 1 /\ restarts < MaxRestarts /\ UNCHANGED <<approvals, trail>>
      /\ call' = [c \in Calls |-> IF over(c) THEN call[c] ELSE dead(c)]
  BY DEF Restart
<1>2. ASSUME NEW c \in Calls
      PROVE  /\ call'[c] \in CallRec /\ Honest(call[c])'
             /\ call'[c].approval = call[c].approval /\ call'[c].reused = call[c].reused
  <2>1. call[c] \in CallRec /\ Honest(call[c])
    BY DEF AnalysisInv
  <2>2. CASE over(c)
    <3>1. call'[c] = call[c] /\ call[c].pc \notin {"received", "failing", "assessed", "claimed", "reporting"}
      BY <1>1, <2>2 DEF Ended
    <3>2. Founded(call[c])' <=> Founded(call[c])
      BY <3>1 DEF Founded, ComputedFrom
    <3> QED
      BY <1>1, <2>1, <3>1, <3>2 DEF Honest
  <2>3. CASE ~over(c)
    <3>1. "dead" \in Places
      BY DEF Places, Ended
    <3>2. /\ dead(c) \in CallRec /\ dead(c).op = call[c].op /\ dead(c).outcome = call[c].outcome
          /\ dead(c).pc = "dead" /\ dead(c).approval = call[c].approval /\ dead(c).reused = call[c].reused
          /\ dead(c).superseded = call[c].superseded /\ dead(c).asked = call[c].asked
          /\ dead(c).world = call[c].world
      BY <2>1, <3>1 DEF CallRec
    <3>3. call'[c] = dead(c)
      BY <1>1, <2>3
    <3> HIDE DEF dead
    <3>4. Founded(call[c])' <=> Founded(call[c])
      BY <3>2, <3>3 DEF Founded, ComputedFrom
    <3> QED
      BY <1>1, <2>1, <3>2, <3>3, <3>4 DEF Honest
  <2> QED
    BY <2>2, <2>3
<1>3. restarts' \in 0..MaxRestarts
  BY <1>1, AnalysisAssumption DEF AnalysisInv
<1>4. ApprovalsInv'
  BY <1>1, <1>2 DEF AnalysisInv, ApprovalsInv
<1>5. call' \in [Calls -> CallRec] /\ \A c \in Calls : Honest(call[c])'
  <2>1. call' = [c \in Calls |-> call'[c]]
    BY <1>1
  <2> QED
    BY <1>2, <2>1
<1> QED
  BY <1>1, <1>3, <1>4, <1>5 DEF AnalysisInv

LEMMA StepAnalysis == AnalysisInv /\ [AnalysisNext]_analysisVars => AnalysisInv'
<1> SUFFICES ASSUME AnalysisInv, [AnalysisNext]_analysisVars PROVE AnalysisInv'
  OBVIOUS
<1>1. ASSUME NEW c \in Calls, NEW role \in Roles, NEW op \in {"analyze", "intake", "ask"}, Deny(c, op, role)
      PROVE  AnalysisInv'
  BY <1>1, DenyKeeps
<1>2. ASSUME NEW c \in Calls, NEW role \in Roles, NEW q \in Inputs, Receive(c, role, q)
      PROVE  AnalysisInv'
  BY <1>2, ReceiveKeeps
<1>3. ASSUME NEW c \in Calls, NEW role \in Roles, NEW date \in {q.date : q \in Inputs}, Ask(c, role, date)
      PROVE  AnalysisInv'
  BY <1>3, AskKeeps
<1>4. ASSUME NEW c \in Calls, NEW role \in Roles, Intake(c, role)
      PROVE  AnalysisInv'
  BY <1>4, IntakeKeeps
<1>5. ASSUME NEW c \in Calls, Assess(c) \/ Claim(c) \/ SaveCase(c)
      PROVE  AnalysisInv'
  BY <1>5, AssessKeeps, ClaimKeeps, SaveCaseKeeps
<1>6. ASSUME NEW i \in DOMAIN approvals, Lapse(i) PROVE AnalysisInv'
  BY <1>6, LapseKeeps
<1>7. ASSUME NEW w \in Worlds, Restart(w) PROVE AnalysisInv'
  BY <1>7, RestartKeeps
<1>8. CASE UNCHANGED analysisVars
  <2>1. /\ world' = world /\ restarts' = restarts /\ call' = call
        /\ approvals' = approvals /\ trail' = trail
    BY <1>8 DEF analysisVars
  <2> QED
    BY <2>1 DEF AnalysisInv, Honest, Founded, ComputedFrom, ApprovalsInv
<1>9. ASSUME NEW c \in Calls,
             \/ Quarantine(c)
             \/ Fail(c)
             \/ Report(c)
             \/ ReportSuperseded(c)
             \/ Narrate(c)
             \/ Raise(c)
      PROVE  AnalysisInv'
  BY <1>9, GoingOnKeeps
<1> QED
  BY <1>1, <1>2, <1>3, <1>4, <1>5, <1>6, <1>7, <1>8, <1>9 DEF AnalysisNext

LEMMA AnalysisInvariant == AnalysisSpec => []AnalysisInv
  BY InitAnalysis, StepAnalysis, PTL DEF AnalysisSpec

\* The types hold, every approval was opened by some call, and a call past the
\* assessment has not failed.
THEOREM AnalysisTypes == AnalysisSpec => []AnalysisTypeOK
  BY AnalysisInvariant, InvariantSuffices, PTL

\* Analyses that share an approval rest on the same evidence, also across a
\* restart with other data, and the snapshot is theirs (reconcile_approval,
\* case_fingerprint, save_approval_case).
THEOREM ReuseNeedsSameEvidence == AnalysisSpec => []ReuseSameEvidence
  BY AnalysisInvariant, InvariantSuffices, PTL

\* No request is judged more mildly than one that asks for less with as many
\* quotes (PolicyEngine.evaluate).
THEOREM StricterJudged == AnalysisSpec => []StricterNeverMilder
  BY AnalysisInvariant, InvariantSuffices, PTL

-----------------------------------------------------------------------------
(* What a user is shown of a policy                                        *)

\* A manifest is a finite list, so it has finitely many entries.
LEMMA FewEntries ==
    ASSUME NEW w \in Worlds
    PROVE  IsFiniteSet(Entries(w))
<1>1. w.manifest \in Seq(Entries(w))
  BY AnalysisAssumption
<1>2. Len(w.manifest) \in Nat /\ DOMAIN w.manifest = 1..Len(w.manifest)
      /\ w.manifest \in [1..Len(w.manifest) -> Entries(w)]
  BY <1>1, LenProperties
<1> DEFINE n == Len(w.manifest)
<1>3. \A d \in Entries(w) : \E i \in 1..n : w.manifest[i] = d
  BY <1>2 DEF Entries
<1> HIDE DEF n
<1>4. w.manifest \in Surjection(1..n, Entries(w))
  BY <1>2, <1>3 DEF Surjection, n
<1>5. n \in Nat
  BY <1>2 DEF n
<1> QED
  BY <1>4, <1>5, FS_NatSurjection DEF ExistsSurjection

\* The order of the candidates: every entry is as good as itself, and one that
\* is not worse than a second is not worse than some third between them.
LEMMA OrderOfPolicies ==
    ASSUME NEW w \in Worlds, NEW d \in Entries(w), NEW e \in Entries(w), NEW x \in Entries(w)
    PROVE  Before(w, d, d) /\ (Before(w, d, x) => Before(w, d, e) \/ Before(w, e, x))
<1>1. \A a \in {d, e, x} : a.from \in Int /\ a.version \in Int
  BY AnalysisAssumption
<1>2. DOMAIN w.manifest \subseteq Int
  <2>1. w.manifest \in Seq(Entries(w))
    BY AnalysisAssumption
  <2> QED
    BY <2>1, LenProperties
<1>3. PICK i \in DOMAIN w.manifest : w.manifest[i] = d
  BY DEF Entries
<1>4. PICK j \in DOMAIN w.manifest : w.manifest[j] = e
  BY DEF Entries
<1>5. Before(w, d, d)
  BY <1>1, <1>2, <1>3 DEF Before
<1>6. ASSUME Before(w, d, x) PROVE Before(w, d, e) \/ Before(w, e, x)
  <2>1. CASE d.from > x.from
    BY <1>1, <2>1, <1>4, <1>3, <1>6, <1>2 DEF Before
  <2>2. CASE d.from = x.from /\ d.version > x.version
    BY <1>1, <2>2, <1>4, <1>3, <1>6, <1>2 DEF Before
  <2>3. CASE /\ d.from = x.from /\ d.version = x.version
             /\ \E k, l \in DOMAIN w.manifest : k <= l /\ w.manifest[k] = d /\ w.manifest[l] = x
    <3>1. PICK k \in DOMAIN w.manifest, l \in DOMAIN w.manifest :
             k <= l /\ w.manifest[k] = d /\ w.manifest[l] = x
      BY <2>3
    <3>2. k <= j \/ j <= l
      BY <1>2, <3>1
    <3> QED
      BY <1>1, <1>4, <2>3, <3>1, <3>2 DEF Before
  <2> QED
    BY <1>6, <2>1, <2>2, <2>3 DEF Before
<1> QED
  BY <1>5, <1>6

\* The policy that is taken is a candidate, and no candidate comes before it:
\* one with the smallest set of better candidates has none.
LEMMA NewestIsTaken ==
    ASSUME NEW w \in Worlds, NEW type, NEW date, NEW role,
           PolicyCandidates(w, type, date, role) # {}
    PROVE  /\ CurrentPolicy(w, type, date, role) \in PolicyCandidates(w, type, date, role)
           /\ \A e \in PolicyCandidates(w, type, date, role) :
                 Before(w, CurrentPolicy(w, type, date, role), e)
<1> DEFINE found == PolicyCandidates(w, type, date, role)
           better(d) == {e \in found : ~Before(w, d, e)}
           all == {better(d) : d \in found}
           order == StrictSubsetOrdering(found)
<1>1. found \subseteq Entries(w) /\ IsFiniteSet(found)
  <2>1. found \subseteq Entries(w)
    BY DEF PolicyCandidates, Searchable
  <2> QED
    BY <2>1, FewEntries, FS_Subset
<1>2. IsWellFoundedOn(order, FiniteSubsetsOf(found))
  BY FS_StrictSubsetOrderingWellFounded
<1>3. all \subseteq FiniteSubsetsOf(found) /\ all # {}
  <2>1. all \subseteq SUBSET found /\ all # {}
    OBVIOUS
  <2>2. FiniteSubsetsOf(found) = SUBSET found
    BY <1>1, FS_FiniteSubsetsOfFinite
  <2> QED
    BY <2>1, <2>2
<1>4. \E x \in all : \A y \in all : <<y, x>> \notin order
  <2> HIDE DEF order, all
  <2> QED
    BY <1>2, <1>3, WFMin
<1>5. PICK d \in found : \A e \in found : <<better(e), better(d)>> \notin order
  BY <1>4
<1>6. ASSUME NEW e \in found PROVE Before(w, d, e)
  <2> SUFFICES ASSUME ~Before(w, d, e) PROVE FALSE
    OBVIOUS
  <2>1. better(e) \subseteq better(d)
    <3> SUFFICES ASSUME NEW x \in found, ~Before(w, e, x) PROVE ~Before(w, d, x)
      OBVIOUS
    <3> QED
      BY <1>1, OrderOfPolicies
  <2>2. e \in better(d) /\ e \notin better(e)
    BY <1>1, OrderOfPolicies
  <2>3. <<better(e), better(d)>> \in order
    BY <2>1, <2>2 DEF StrictSubsetOrdering
  <2> QED
    BY <1>5, <2>3
<1> HIDE DEF found
<1>7. CurrentPolicy(w, type, date, role) = CHOOSE x \in found : \A e \in found : Before(w, x, e)
  BY DEF CurrentPolicy, found
<1>8. \E x \in found : \A e \in found : Before(w, x, e)
  BY <1>6
<1> QED
  BY <1>7, <1>8 DEF found

\* What the case of an outcome without a failure cites.
LEMMA CitedSections ==
    ASSUME NEW w \in Worlds, NEW q, NEW role, Outcome(w, q, role).failure = None
    PROVE  LET case == Outcome(w, q, role).case
           IN /\ case.citations \subseteq SectionCandidates(w, q.date, role)
              /\ \A x \in case.citations : \E d \in Entries(w) :
                    /\ d.id = x.document
                    /\ ~\E e \in Searchable(w, role) :
                          e.type = d.type /\ InForce(e, q.date) /\ e.from > d.from
              /\ {x.section : x \in case.citations} =
                    IF case.decision.rules = {} THEN {"4.1"}
                    ELSE {RuleCitation[r].section : r \in case.decision.rules}
<1> DEFINE decision == Evaluate(q, AnalysisOf(w, q), w.suppliers[q.supplier])
           policies == [type \in PolicyTypes |-> CurrentPolicy(w, type, q.date, role)]
           citations == Citations(policies, decision.rules)
           undefined == \E ref \in References(decision.rules) :
                           ref.section \notin policies[ref.type].sections
           missing == None \in {policies[type] : type \in PolicyTypes} \/ undefined
           case == [request |-> q, supplier |-> w.suppliers[q.supplier], analysis |-> AnalysisOf(w, q),
                    decision |-> decision, citations |-> citations]
<1>1. Outcome(w, q, role) =
         IF q.supplier \notin DOMAIN w.suppliers THEN Failed("SUPPLIER_NOT_FOUND")
         ELSE IF HistoryInvalid(w, q) THEN Failed("PURCHASE_HISTORY_INVALID")
         ELSE IF Counted(w, q) = {} THEN Failed("PURCHASE_HISTORY_NOT_FOUND")
         ELSE IF missing THEN Failed("APPLICABLE_POLICY_NOT_FOUND")
         ELSE [failure |-> None, case |-> case]
  BY DEF Outcome
<1>2. case.citations = citations /\ case.decision = decision
  OBVIOUS
<1>3. decision.rules = RulesApplied(q, w.suppliers[q.supplier])
  BY DEF Evaluate
<1> HIDE DEF missing, case, decision
<1>4. Outcome(w, q, role) = [failure |-> None, case |-> case] /\ ~missing
  BY <1>1, DecisionAssumption DEF Failed
<1>5. decision.rules \subseteq {"SUPPLIER_STATUS", "FINANCE_APPROVAL", "ALTERNATIVE_QUOTES", "SUPPLIER_CERTIFICATE"}
  BY <1>3 DEF RulesApplied
<1>6. \A ref \in References(decision.rules) : ref.type \in PolicyTypes
  BY <1>5 DEF References, RuleCitation, PolicyTypes
<1> DEFINE policy(ref) == CurrentPolicy(w, ref.type, q.date, role)
<1>7. ASSUME NEW ref \in References(decision.rules)
      PROVE  /\ policies[ref.type] = policy(ref) /\ policy(ref) # None
             /\ ref.section \in policy(ref).sections
  BY <1>4, <1>6 DEF missing
<1>8. ASSUME NEW ref \in References(decision.rules)
      PROVE  /\ policy(ref) \in PolicyCandidates(w, ref.type, q.date, role)
             /\ \A e \in PolicyCandidates(w, ref.type, q.date, role) : Before(w, policy(ref), e)
  <2>1. PolicyCandidates(w, ref.type, q.date, role) # {}
    BY <1>7 DEF CurrentPolicy
  <2> QED
    BY <2>1, NewestIsTaken
<1> DEFINE cited(ref) == [document |-> policy(ref).id, version |-> policy(ref).version,
                          section |-> ref.section]
<1>9. citations = {cited(ref) : ref \in References(decision.rules)}
  BY <1>7 DEF Citations
<1> HIDE DEF policies, citations, policy
<1>10. ASSUME NEW ref \in References(decision.rules)
       PROVE  /\ cited(ref) \in SectionCandidates(w, q.date, role)
              /\ policy(ref) \in Entries(w)
              /\ ~\E e \in Searchable(w, role) :
                    e.type = policy(ref).type /\ InForce(e, q.date) /\ e.from > policy(ref).from
  <2>1. /\ policy(ref) \in Searchable(w, role) /\ policy(ref).type = ref.type
        /\ InForce(policy(ref), q.date) /\ policy(ref) \in Entries(w)
    BY <1>8 DEF PolicyCandidates, Searchable
  <2>2. cited(ref) \in SectionCandidates(w, q.date, role)
    BY <1>7, <2>1 DEF SectionCandidates
  <2>3. ASSUME NEW e \in Searchable(w, role), e.type = policy(ref).type, InForce(e, q.date)
        PROVE  ~(e.from > policy(ref).from)
    <3>1. e \in PolicyCandidates(w, ref.type, q.date, role) /\ e \in Entries(w)
      BY <2>1, <2>3 DEF PolicyCandidates, Searchable
    <3>2. Before(w, policy(ref), e)
      BY <1>8, <3>1
    <3>3. e.from \in Int /\ policy(ref).from \in Int
      BY <2>1, <3>1, AnalysisAssumption
    <3> QED
      BY <3>2, <3>3 DEF Before
  <2> QED
    BY <2>1, <2>2, <2>3
<1>11. {x.section : x \in citations} = {ref.section : ref \in References(decision.rules)}
  <2> DEFINE refs == References(decision.rules)
  <2>1. \A ref \in refs : cited(ref) \in citations /\ cited(ref).section = ref.section
    BY <1>9
  <2>2. \A x \in citations : \E ref \in refs : x = cited(ref)
    BY <1>9
  <2> HIDE DEF refs, cited
  <2>3. {x.section : x \in citations} \subseteq {ref.section : ref \in refs}
    BY <2>1, <2>2
  <2>4. {ref.section : ref \in refs} \subseteq {x.section : x \in citations}
    <3> SUFFICES ASSUME NEW ref \in refs PROVE \E x \in citations : ref.section = x.section
      OBVIOUS
    <3> QED
      BY <2>1
  <2> QED
    BY <2>3, <2>4 DEF refs
<1>12. {ref.section : ref \in References(decision.rules)} =
          IF decision.rules = {} THEN {"4.1"} ELSE {RuleCitation[r].section : r \in decision.rules}
  <2>1. CASE decision.rules = {}
    <3>1. References(decision.rules) = {[type |-> "PROCUREMENT_POLICY", section |-> "4.1"]}
      BY <2>1 DEF References
    <3>2. {ref.section : ref \in References(decision.rules)} = {"4.1"}
      BY <3>1
    <3> QED
      BY <2>1, <3>2
  <2>2. CASE decision.rules # {}
    <3>1. References(decision.rules) = {RuleCitation[r] : r \in decision.rules}
      BY <2>2 DEF References
    <3>2. {ref.section : ref \in References(decision.rules)}
             = {RuleCitation[r].section : r \in decision.rules}
      BY <3>1
    <3> QED
      BY <2>2, <3>2
  <2> QED
    BY <2>1, <2>2
<1>13. ASSUME NEW x \in citations
       PROVE  /\ x \in SectionCandidates(w, q.date, role)
              /\ \E d \in Entries(w) :
                    /\ d.id = x.document
                    /\ ~\E e \in Searchable(w, role) :
                          e.type = d.type /\ InForce(e, q.date) /\ e.from > d.from
  <2>1. PICK ref \in References(decision.rules) : x = cited(ref)
    BY <1>9
  <2>2. x.document = policy(ref).id
    BY <2>1
  <2> QED
    BY <1>10, <2>1, <2>2
<1>14. Outcome(w, q, role).case.citations = citations /\ Outcome(w, q, role).case.decision = decision
  BY <1>2, <1>4
<1> QED
  BY <1>11, <1>12, <1>13, <1>14

\* What a call shows is from the sections its own process would find, and its
\* outcome is what its own process computes for the one who asked.
Shows(k) ==
    /\ k.shown \subseteq SectionCandidates(k.world, k.asked, k.role)
    /\ k.op = "analyze" /\ k.outcome # None =>
          /\ k.world \in Worlds /\ k.asked \in Inputs /\ k.role \in Roles
          /\ k.outcome = Outcome(k.world, k.asked, k.role)

ShowsInv == \A c \in Calls : Shows(call[c])

LEMMA ShowsKept ==
    ASSUME NEW k, NEW next, Shows(k), next.op = k.op, next.outcome = k.outcome, next.world = k.world,
           next.asked = k.asked, next.role = k.role, next.shown = k.shown
    PROVE  Shows(next)
BY DEF Shows

LEMMA ShowsStep == AnalysisInv /\ ShowsInv /\ [AnalysisNext]_analysisVars => ShowsInv'
<1> SUFFICES ASSUME AnalysisInv, ShowsInv, [AnalysisNext]_analysisVars,
                    NEW c \in Calls, call'[c] # call[c]
             PROVE  Shows(call'[c])
  BY DEF ShowsInv
<1>1. call[c] \in CallRec /\ Honest(call[c]) /\ Shows(call[c]) /\ DOMAIN call = Calls
  BY DEF AnalysisInv, ShowsInv
<1>2. ASSUME NEW d \in Calls, NEW next, call' = [call EXCEPT ![d] = next]
      PROVE  d = c /\ call'[c] = next
  BY <1>1, <1>2
<1>3. ASSUME NEW d \in Calls, NEW role \in Roles, NEW op \in {"analyze", "intake", "ask"}, Deny(d, op, role)
      PROVE  Shows(call'[c])
  <2> DEFINE next == [Idle EXCEPT !.op = op, !.role = role, !.pc = "denied"]
  <2>1. call'[c] = next
    BY <1>2, <1>3 DEF Deny
  <2>2. next.shown = {} /\ next.outcome = None
    BY DEF Idle
  <2> QED
    BY <2>1, <2>2 DEF Shows
<1>4. ASSUME NEW d \in Calls, NEW role \in Roles, NEW q \in Inputs, Receive(d, role, q)
      PROVE  Shows(call'[c])
  <2> DEFINE next == [Idle EXCEPT !.op = "analyze", !.role = role, !.asked = q,
                                  !.pc = "received", !.world = world,
                                  !.attachments = Injections(world, q.supplier)]
  <2>1. call'[c] = next
    BY <1>2, <1>4 DEF Receive
  <2>2. next.shown = {} /\ next.outcome = None
    BY DEF Idle
  <2> QED
    BY <2>1, <2>2 DEF Shows
<1>5. ASSUME NEW d \in Calls, NEW role \in Roles, Intake(d, role)
      PROVE  Shows(call'[c])
  <2>1. CASE IntakeDrafted(d, role)
    <3> DEFINE next == [Idle EXCEPT !.op = "intake", !.role = role, !.pc = "answered"]
    <3>1. call' = [call EXCEPT ![d] = next]
      BY <2>1 DEF IntakeDrafted
    <3>2. next.shown = {} /\ next.op = "intake"
      BY DEF Idle
    <3> HIDE DEF next
    <3>3. call'[c] = next
      BY <1>2, <3>1
    <3> QED
      BY <3>2, <3>3 DEF Shows
  <2>2. ASSUME NEW code, IntakeFails(d, role, code) PROVE Shows(call'[c])
    <3> DEFINE next == [Idle EXCEPT !.op = "intake", !.role = role, !.pc = "failed",
                                    !.outcome = [failure |-> code, case |-> None]]
    <3>1. call' = [call EXCEPT ![d] = next]
      BY <2>2 DEF IntakeFails
    <3>2. next.shown = {} /\ next.op = "intake"
      BY DEF Idle
    <3> HIDE DEF next
    <3>3. call'[c] = next
      BY <1>2, <3>1
    <3> QED
      BY <3>2, <3>3 DEF Shows
  <2> QED
    BY <1>5, <2>1, <2>2 DEF Intake
<1>6. ASSUME NEW d \in Calls, NEW role \in Roles, NEW date \in {q.date : q \in Inputs}, Ask(d, role, date)
      PROVE  Shows(call'[c])
  <2>1. CASE AskFails(d, role, date)
    <3> DEFINE next == [Idle EXCEPT !.op = "ask", !.role = role, !.asked = date,
                           !.world = world, !.pc = "failed",
                           !.outcome = [failure |-> "APPLICABLE_POLICY_NOT_FOUND", case |-> None]]
    <3>1. call' = [call EXCEPT ![d] = next]
      BY <2>1 DEF AskFails
    <3>2. next.shown = {} /\ next.op = "ask"
      BY DEF Idle
    <3> HIDE DEF next
    <3>3. call'[c] = next
      BY <1>2, <3>1
    <3> QED
      BY <3>2, <3>3 DEF Shows
  <2>2. ASSUME NEW mode, AskAnswered(d, role, date, mode) PROVE Shows(call'[c])
    <3> DEFINE answered(top) == [Idle EXCEPT !.op = "ask", !.role = role, !.asked = date,
                                   !.world = world, !.pc = "answered", !.shown = top]
    <3>0. PICK n \in 0..TopK : \E ranked \in [1..n -> SectionCandidates(world, date, role)] :
             call' = [call EXCEPT ![d] = answered({ranked[i] : i \in 1..n})]
      BY <2>2 DEF AskAnswered
    <3>1. PICK ranked \in [1..n -> SectionCandidates(world, date, role)] :
             call' = [call EXCEPT ![d] = answered({ranked[i] : i \in 1..n})]
      BY <3>0
    <3> DEFINE top == {ranked[i] : i \in 1..n}
    <3> DEFINE next == answered(top)
    <3>2. /\ next.shown \subseteq SectionCandidates(next.world, next.asked, next.role)
          /\ next.op = "ask"
      <4>1. top \subseteq SectionCandidates(world, date, role)
        OBVIOUS
      <4> HIDE DEF top
      <4> QED
        BY <4>1 DEF Idle
    <3> HIDE DEF next
    <3>3. call'[c] = next
      BY <1>2, <3>1 DEF next
    <3> QED
      BY <3>2, <3>3 DEF Shows
  <2> QED
    BY <1>6, <2>1, <2>2 DEF Ask
<1>7. ASSUME NEW d \in Calls, Assess(d) PROVE Shows(call'[c])
  <2> DEFINE outcome == Outcome(world, call[d].asked, call[d].role)
             place == IF outcome.failure # None THEN "failing" ELSE "assessed"
             next == [call[d] EXCEPT !.outcome = outcome, !.pc = place]
  <2>1. call' = [call EXCEPT ![d] = next] /\ call[d].pc = "received"
    BY <1>7 DEF Assess
  <2> HIDE DEF outcome, place
  <2>2. call'[c] = next /\ d = c
    <3> HIDE DEF next
    <3> QED
      BY <1>2, <2>1
  <2>3. /\ call[c].world = world /\ world \in Worlds
        /\ call[c].asked \in Inputs /\ call[c].role \in Roles
    BY <1>1, <2>1, <2>2 DEF Honest, AnalysisInv
  <2>4. /\ next.shown = call[c].shown /\ next.world = call[c].world /\ next.asked = call[c].asked
        /\ next.role = call[c].role /\ next.outcome = outcome
    BY <1>1, <2>2 DEF CallRec
  <2>5. outcome = Outcome(world, call[c].asked, call[c].role)
    BY <2>2 DEF outcome
  <2> HIDE DEF next
  <2> QED
    BY <1>1, <2>2, <2>3, <2>4, <2>5 DEF Shows
<1> DEFINE Same(next) == /\ next.op = call[c].op /\ next.outcome = call[c].outcome
                         /\ next.world = call[c].world /\ next.asked = call[c].asked
                         /\ next.role = call[c].role /\ next.shown = call[c].shown
<1>8. ASSUME NEW d \in Calls, Claim(d) PROVE Shows(call'[c])
  <2> DEFINE case == call[d].outcome.case
             live == LiveOf(case.request.id)
             covering == {i \in live : approvals[i].fingerprint = Fingerprint(case)}
             needed == case.decision.status = "CONDITIONAL_REVIEW"
             kept == IF needed THEN covering ELSE {}
             opened == IF needed /\ kept = {}
                       THEN <<[request |-> case.request.id, fingerprint |-> Fingerprint(case),
                               live |-> TRUE, case |-> None]>>
                       ELSE <<>>
             place == IF opened # <<>> THEN "claimed" ELSE "reporting"
             handed == IF ~needed THEN None
                       ELSE IF kept # {} THEN CHOOSE i \in kept : TRUE ELSE Len(approvals) + 1
             reused == kept # {}
             superseded == live \ kept
             next == [call[d] EXCEPT !.pc = place, !.approval = handed, !.reused = reused,
                                     !.superseded = superseded]
  <2>1. call' = [call EXCEPT ![d] = next]
    BY <1>8 DEF Claim
  <2> HIDE DEF place, handed, reused, superseded
  <2>2. call'[c] = next /\ d = c
    <3> HIDE DEF next
    <3> QED
      BY <1>2, <2>1
  <2>3. Same(next)
    BY <1>1, <2>2 DEF CallRec
  <2> QED
    BY <1>1, <2>2, <2>3, ShowsKept
<1>9. ASSUME NEW w \in Worlds, Restart(w) PROVE Shows(call'[c])
  <2> DEFINE next == [call[c] EXCEPT !.pc = "dead"]
  <2>1. call'[c] = next
    BY <1>9 DEF Restart
  <2>2. /\ next.op = call[c].op /\ next.outcome = call[c].outcome /\ next.world = call[c].world
        /\ next.asked = call[c].asked /\ next.role = call[c].role /\ next.shown = call[c].shown
    BY <1>1 DEF CallRec
  <2> QED
    BY <1>1, <2>1, <2>2, ShowsKept
<1>10. ASSUME NEW i \in DOMAIN approvals, Lapse(i) PROVE call' = call
  BY <1>10 DEF Lapse
<1>11. ASSUME NEW d \in Calls, NEW pc, NEW attachments, NEW said, NEW superseded,
              MovesTo(d, pc, attachments, said, superseded)
       PROVE  Shows(call'[c])
  <2>1. d = c
    BY <1>11 DEF MovesTo
  <2>2. Same(call'[c])
    BY <1>11, <2>1 DEF MovesTo
  <2> QED
    BY <1>1, <2>2, ShowsKept
<1>12. ASSUME NEW d \in Calls,
              \/ Quarantine(d)
              \/ Fail(d)
              \/ SaveCase(d)
              \/ Report(d)
              \/ ReportSuperseded(d)
              \/ Narrate(d)
              \/ Raise(d)
       PROVE  Shows(call'[c])
  BY <1>11, <1>12, QuarantineMoves, FailMoves, SaveCaseMoves, ReportMoves, ReportSupersededMoves,
     NarrateMoves, RaiseMoves
<1>13. CASE UNCHANGED analysisVars
  BY <1>13 DEF analysisVars
<1> QED
  BY <1>3, <1>4, <1>5, <1>6, <1>7, <1>8, <1>9, <1>10, <1>12, <1>13 DEF AnalysisNext

LEMMA ShowsInvariant == AnalysisSpec => []ShowsInv
<1>1. AnalysisInit => ShowsInv
  BY DEF AnalysisInit, ShowsInv, Shows, Idle
<1> QED
  BY <1>1, AnalysisInvariant, ShowsStep, PTL DEF AnalysisSpec

LEMMA ShownIsGrounded == AnalysisInv /\ ShowsInv => Grounded
<1> SUFFICES ASSUME AnalysisInv, ShowsInv PROVE Grounded
  OBVIOUS
<1>1. ASSUME NEW c \in Calls, NEW s \in call[c].shown
      PROVE  \E d \in Entries(call[c].world) :
                /\ d.id = s.document /\ s.section \in d.sections
                /\ d.trusted /\ call[c].role \in d.roles /\ d.status = "CURRENT"
                /\ d.from <= call[c].asked /\ (d.to = None \/ d.to >= call[c].asked)
  <2>1. s \in SectionCandidates(call[c].world, call[c].asked, call[c].role)
    BY <1>1 DEF ShowsInv, Shows
  <2>2. PICK d \in Searchable(call[c].world, call[c].role) :
           /\ InForce(d, call[c].asked)
           /\ \E x \in d.sections : s = [document |-> d.id, version |-> d.version, section |-> x]
    BY <2>1 DEF SectionCandidates
  <2> QED
    BY <2>2 DEF Searchable, InForce
<1>2. ASSUME NEW c \in Decided
      PROVE  LET k == call[c]
                 cites == k.outcome.case.citations
                 rules == k.outcome.case.decision.rules
             IN /\ cites \subseteq SectionCandidates(k.world, k.asked.date, k.role)
                /\ \A x \in cites : \E d \in Entries(k.world) :
                      /\ d.id = x.document
                      /\ ~\E e \in Searchable(k.world, k.role) :
                            e.type = d.type /\ InForce(e, k.asked.date) /\ e.from > d.from
                /\ {x.section : x \in cites} =
                      IF rules = {} THEN {"4.1"} ELSE {RuleCitation[r].section : r \in rules}
  <2>1. c \in Calls /\ call[c].op = "analyze" /\ call[c].outcome # None /\ call[c].outcome.failure = None
    BY DEF Decided, Computed
  <2> DEFINE w == call[c].world
             q == call[c].asked
             role == call[c].role
  <2>2. w \in Worlds /\ call[c].outcome = Outcome(w, q, role)
    BY <2>1 DEF ShowsInv, Shows
  <2> HIDE DEF w, q, role
  <2>3. Outcome(w, q, role).failure = None
    BY <2>1, <2>2
  <2>4. LET case == Outcome(w, q, role).case
        IN /\ case.citations \subseteq SectionCandidates(w, q.date, role)
           /\ \A x \in case.citations : \E d \in Entries(w) :
                 /\ d.id = x.document
                 /\ ~\E e \in Searchable(w, role) :
                       e.type = d.type /\ InForce(e, q.date) /\ e.from > d.from
           /\ {x.section : x \in case.citations} =
                 IF case.decision.rules = {} THEN {"4.1"}
                 ELSE {RuleCitation[r].section : r \in case.decision.rules}
    BY <2>2, <2>3, CitedSections
  <2> QED
    BY <2>2, <2>4, Zenon DEF w, q, role
<1> QED
  BY <1>1, <1>2 DEF Grounded

\* Nobody is shown, and no analysis cites, a policy that is not trusted, not
\* for the reader's role, not in force or replaced by a newer one, for any
\* documents, requests and dates, also when the process restarts with others.
THEOREM AnswersGrounded == AnalysisSpec => []Grounded
BY AnalysisInvariant, ShowsInvariant, ShownIsGrounded, PTL

-----------------------------------------------------------------------------
(* The future has no say                                                   *)

LEMMA PastHistory ==
    ASSUME NEW w, NEW q
    PROVE  LET past == Past(w, q.date)
           IN /\ Counted(past, q) = Counted(w, q)
              /\ HistoryInvalid(past, q) <=> HistoryInvalid(w, q)
              /\ \A i \in Counted(w, q) : past.history[i] = w.history[i]
<1> DEFINE rows == {i \in DOMAIN w.history : w.history[i].date = Malformed \/ w.history[i].date <= q.date}
           past == Past(w, q.date)
<1>1. DOMAIN past.history = rows /\ \A i \in rows : past.history[i] = w.history[i]
  BY DEF Past
<1>2. \A i : i \in rows <=> /\ i \in DOMAIN w.history
                            /\ w.history[i].date = Malformed \/ w.history[i].date <= q.date
  OBVIOUS
<1> HIDE DEF rows, past
<1>3. /\ \A i \in Relevant(past, q) : i \in Relevant(w, q) /\ past.history[i] = w.history[i]
      /\ \A i \in Relevant(w, q) : w.history[i].date = Malformed \/ w.history[i].date <= q.date =>
            i \in Relevant(past, q) /\ past.history[i] = w.history[i]
  BY <1>1, <1>2 DEF Relevant
<1>4. Counted(past, q) = Counted(w, q) /\ \A i \in Counted(w, q) : past.history[i] = w.history[i]
  BY <1>3 DEF Counted
<1>5. HistoryInvalid(past, q) <=> HistoryInvalid(w, q)
  BY <1>3, <1>4 DEF HistoryInvalid
<1> QED
  BY <1>4, <1>5 DEF past

\* The median of rows depends on those rows only.
LEMMA SameMedian ==
    ASSUME NEW v, NEW w, NEW rows, \A i \in rows : v.history[i] = w.history[i]
    PROVE  MedianTwice(v, rows) = MedianTwice(w, rows)
<1>1. ASSUME NEW k PROVE Ranked(v, rows, k) = Ranked(w, rows, k)
  <2>1. ASSUME NEW a
        PROVE  /\ {i \in rows : v.history[i].amount <= a} = {i \in rows : w.history[i].amount <= a}
               /\ {i \in rows : v.history[i].amount < a} = {i \in rows : w.history[i].amount < a}
    OBVIOUS
  <2>2. {v.history[i].amount : i \in rows} = {w.history[i].amount : i \in rows}
    OBVIOUS
  <2> QED
    BY <2>1, <2>2, Zenon DEF Ranked
<1> QED
  BY <1>1 DEF MedianTwice

LEMMA PastPolicy ==
    ASSUME NEW w, NEW date, NEW type, NEW role
    PROVE  CurrentPolicy(Past(w, date), type, date, role) = CurrentPolicy(w, type, date, role)
<1> DEFINE kept == {i \in DOMAIN w.manifest : w.manifest[i].from <= date}
           past == Past(w, date)
           found == PolicyCandidates(w, type, date, role)
<1>1. DOMAIN past.manifest = kept /\ \A i \in kept : past.manifest[i] = w.manifest[i]
  BY DEF Past
<1>2. \A i : i \in kept <=> i \in DOMAIN w.manifest /\ w.manifest[i].from <= date
  OBVIOUS
<1> HIDE DEF kept, past
<1>3. \A d : d \in Entries(past) <=> d \in Entries(w) /\ d.from <= date
  BY <1>1, <1>2 DEF Entries
<1>4. PolicyCandidates(past, type, date, role) = found
  BY <1>3 DEF PolicyCandidates, Searchable, InForce
<1>5. \A d, e \in found : Before(past, d, e) <=> Before(w, d, e)
  <2>1. \A d \in found : d.from <= date
    BY DEF PolicyCandidates, InForce
  <2>2. \A d \in found : \A i : i \in DOMAIN past.manifest /\ past.manifest[i] = d
                                   <=> i \in DOMAIN w.manifest /\ w.manifest[i] = d
    BY <1>1, <1>2, <2>1
  <2> HIDE DEF found
  <2> QED
    BY <2>2 DEF Before
<1> HIDE DEF found
<1> DEFINE one == CHOOSE d \in found : \A e \in found : Before(past, d, e)
           other == CHOOSE d \in found : \A e \in found : Before(w, d, e)
<1>6. /\ CurrentPolicy(past, type, date, role) = IF found = {} THEN None ELSE one
      /\ CurrentPolicy(w, type, date, role) = IF found = {} THEN None ELSE other
  BY <1>4 DEF CurrentPolicy, found
<1>7. one = other
  BY <1>5, Zenon
<1> HIDE DEF one, other
<1> QED
  BY <1>6, <1>7 DEF past

LEMMA PastOutcome ==
    ASSUME NEW w, NEW q, NEW role
    PROVE  Outcome(Past(w, q.date), q, role) = Outcome(w, q, role)
<1> DEFINE past == Past(w, q.date)
<1>1. past.suppliers = w.suppliers
  BY DEF Past
<1>2. /\ Counted(past, q) = Counted(w, q)
      /\ HistoryInvalid(past, q) <=> HistoryInvalid(w, q)
      /\ \A i \in Counted(w, q) : past.history[i] = w.history[i]
  BY PastHistory
<1>3. \A type : CurrentPolicy(past, type, q.date, role) = CurrentPolicy(w, type, q.date, role)
  BY PastPolicy
<1> HIDE DEF past
<1>4. MedianTwice(past, Counted(past, q)) = MedianTwice(w, Counted(w, q))
  BY <1>2, SameMedian
<1>5. AnalysisOf(past, q) = AnalysisOf(w, q)
  BY <1>4 DEF AnalysisOf
<1>6. [type \in PolicyTypes |-> CurrentPolicy(past, type, q.date, role)]
         = [type \in PolicyTypes |-> CurrentPolicy(w, type, q.date, role)]
  BY <1>3
<1>7. Outcome(past, q, role) = Outcome(w, q, role)
  BY <1>1, <1>2, <1>5, <1>6, Zenon DEF Outcome
<1> QED
  BY <1>7 DEF past

LEMMA FoundInPast == AnalysisInv /\ ShowsInv => FutureHasNoSay
<1> SUFFICES ASSUME AnalysisInv, ShowsInv, NEW c \in Computed
             PROVE  call[c].outcome = WithoutFuture[call[c].world][call[c].asked][call[c].role]
  BY DEF FutureHasNoSay
<1>1. /\ call[c].world \in Worlds /\ call[c].asked \in Inputs /\ call[c].role \in Roles
      /\ call[c].outcome = Outcome(call[c].world, call[c].asked, call[c].role)
  BY DEF Computed, ShowsInv, Shows
<1> QED
  BY <1>1, PastOutcome DEF WithoutFuture

\* For an analysis as of a day it makes no difference, in its decision, its
\* figures, its citations or its failure, which purchases and policies of later
\* days are on file (what app/analysis.py and app/retrieval.py leave out).
THEOREM FutureIsIgnored == AnalysisSpec => []FutureHasNoSay
BY AnalysisInvariant, ShowsInvariant, FoundInPast, PTL

-----------------------------------------------------------------------------
(* The trail of a call                                                     *)

\* A trail is a list of events.
IsList(t) == t \in Seq({t[i] : i \in DOMAIN t})
AreEvents(t) == \A i \in DOMAIN t : t[i] = Event(t[i].type, t[i].about)

Positions(t, types) == {i \in DOMAIN t : t[i].type \in types}

\* What the events of some types are about; whether there is one such event
\* at most; whether no two of them are about the same.
About(t, types) == {t[i].about : i \in Positions(t, types)}
Once(t, types) == \A i, j \in Positions(t, types) : i = j
Distinct(t, types) == \A i, j \in Positions(t, types) : t[i].about = t[j].about => i = j

Evaluated == {"POLICY_EVALUATED"}
Quarantined == {"SECURITY_CONTENT_QUARANTINED"}
Superseded == {"APPROVAL_SUPERSEDED"}
Requested == {"APPROVAL_REQUESTED"}
Failures == {"ANALYSIS_FAILED", "INTAKE_FAILED", "POLICY_QA_FAILED"}

\* The event an analysis ends its trace with.
Verdict(k) ==
    IF k.outcome.failure # None THEN Event("ANALYSIS_FAILED", k.outcome.failure)
    ELSE Event("POLICY_EVALUATED", k.outcome.case.decision.status)

(***************************************************************************)
(* What the trail t of a call k has, wherever the call is.                 *)
(***************************************************************************)
\* How the call ended, if it did.
ToldEnd(k, t) ==
    /\ Once(t, Closing)
    /\ k.pc \in {"idle", "received", "failing", "assessed", "claimed"} => About(t, Closing) = {}
    /\ k.pc = "reporting" /\ k.said < 3 => About(t, Closing) = {}
    /\ k.pc \in {"denied", "failed", "answered"} => About(t, Closing) # {}
    /\ k.pc = "idle" => t = <<>>
    /\ k.pc = "denied" => t = <<Event("AUTHORIZATION_DENIED", k.op)>>
    /\ About(t, _DENIED_OR_BLOCKED) # {} => k.pc = "denied"
    /\ k.pc = "failed" =>
          Len(t) >= 1 /\ t[Len(t)].type \in Failures /\ t[Len(t)].about = k.outcome.failure

\* What an analysis found, as far as it got.
ToldAnalysis(k, t) ==
    /\ k.pc \in {"idle", "received", "denied"} => k.outcome = None
    /\ k.op = "analyze" /\ k.outcome # None => k.attachments = {}
    /\ Distinct(t, Quarantined)
    /\ k.op = "analyze" /\ k.pc # "denied" =>
          /\ Len(t) >= 1 /\ t[1].type = "REQUEST_RECEIVED" /\ k.world \in Worlds
          /\ \A i \in Positions(t, Closing) : k.outcome # None /\ t[i] = Verdict(k)
          /\ k.attachments \subseteq Injections(k.world, k.asked.supplier)
          /\ About(t, Quarantined) = Injections(k.world, k.asked.supplier) \ k.attachments
    /\ ~(k.op = "analyze" /\ k.pc # "denied") => About(t, Quarantined) = {}

\* What it announced, and what became of approvals by it.
ToldApprovals(k, t) ==
    /\ k.pc \in {"idle", "received", "failing", "assessed", "claimed", "denied", "failed"} => k.said = 0
    /\ k.pc \in {"idle", "received", "failing", "assessed", "denied", "failed"} => k.approval = None
    /\ k.approval # None => k.op = "analyze"
    /\ k.said \in 0..4
    /\ k.said > 0 => k.op = "analyze" /\ k.outcome # None /\ k.outcome.failure = None
    /\ k.said = 4 => k.approval # None
    /\ k.pc = "answered" /\ k.op = "analyze" => k.said >= 3 /\ (k.approval # None => k.said = 4)
    /\ k.said >= 3 => About(t, Evaluated) = {k.outcome.case.decision.status}
    /\ k.said < 3 => About(t, Evaluated) = {}
    /\ k.said = 4 /\ ~k.reused => About(t, Requested) = {k.approval}
    /\ ~(k.said = 4 /\ ~k.reused) => About(t, Requested) = {}
    /\ Distinct(t, Superseded) /\ About(t, Superseded) \cap k.superseded = {}
    /\ k.pc \in {"idle", "received", "failing", "assessed"} => About(t, Superseded) = {}

Told(k, t) == IsList(t) /\ AreEvents(t) /\ ToldEnd(k, t) /\ ToldAnalysis(k, t) /\ ToldApprovals(k, t)

ToldInv == \A c \in Calls : Told(call[c], trail[c])

\* The approvals a call ended, those it reported and those it did not yet.
Gone(c) == call[c].superseded \cup About(trail[c], Superseded)

\* An approval is opened by one call, and superseded by one, which ended it.
OwnersInv ==
    /\ \A c, d \in {e \in Calls : call[e].approval # None /\ ~call[e].reused} :
          call[c].approval = call[d].approval => c = d
    /\ \A c, d \in Calls : Gone(c) \cap Gone(d) # {} => c = d
    /\ \A c \in Calls : \A a \in Gone(c) : a \in DOMAIN approvals /\ ~approvals[a].live

-----------------------------------------------------------------------------
(* Lemmas about lists of events                                            *)

LEMMA ListFacts ==
    ASSUME NEW t, IsList(t)
    PROVE  /\ Len(t) \in Nat /\ DOMAIN t = 1..Len(t)
           /\ \A S : (\A i \in DOMAIN t : t[i] \in S) => t \in Seq(S)
<1> DEFINE E == {t[i] : i \in DOMAIN t}
<1>1. t \in Seq(E)
  BY DEF IsList
<1> HIDE DEF E
<1>2. Len(t) \in Nat /\ DOMAIN t = 1..Len(t) /\ t \in [1..Len(t) -> E]
  BY <1>1, LenProperties
<1>3. ASSUME NEW S, \A i \in DOMAIN t : t[i] \in S PROVE t \in Seq(S)
  <2>1. t \in [1..Len(t) -> S]
    BY <1>2, <1>3
  <2> QED
    BY <1>2, <2>1, SeqDef
<1> QED
  BY <1>2, <1>3

\* A list with one event more.
LEMMA OneMore ==
    ASSUME NEW t, IsList(t), NEW e
    PROVE  /\ IsList(Append(t, e)) /\ Len(Append(t, e)) = Len(t) + 1
           /\ DOMAIN Append(t, e) = 1..(Len(t) + 1)
           /\ \A i \in DOMAIN t : Append(t, e)[i] = t[i]
           /\ Append(t, e)[Len(t) + 1] = e
<1> DEFINE S == {t[i] : i \in DOMAIN t} \cup {e}
           v == Append(t, e)
<1>1. Len(t) \in Nat /\ DOMAIN t = 1..Len(t) /\ t \in Seq(S) /\ e \in S
  BY ListFacts
<1> HIDE DEF S
<1>2. /\ v \in Seq(S) /\ Len(v) = Len(t) + 1
      /\ \A i \in 1..Len(t) : v[i] = t[i]
      /\ v[Len(t) + 1] = e
  BY <1>1, AppendProperties
<1> HIDE DEF v
<1>3. DOMAIN v = 1..(Len(t) + 1) /\ v \in [1..Len(v) -> S]
  BY <1>2, LenProperties
<1>4. v \in Seq({v[i] : i \in DOMAIN v})
  <2> DEFINE V == {v[i] : i \in DOMAIN v}
  <2>1. v \in [1..Len(v) -> V] /\ Len(v) \in Nat
    BY <1>1, <1>2, <1>3
  <2> HIDE DEF V
  <2>2. v \in Seq(V)
    BY <2>1, SeqDef
  <2> QED
    BY <2>2 DEF V
<1> QED
  BY <1>1, <1>2, <1>3, <1>4 DEF v, IsList

\* The list v is t with one event more.
Adds(v, t, type, about) == v = Append(t, Event(type, about))

LEMMA OneMoreEvent ==
    ASSUME NEW t, IsList(t), AreEvents(t), NEW type, NEW about, NEW v, Adds(v, t, type, about)
    PROVE  /\ IsList(v) /\ AreEvents(v) /\ Len(v) >= 1
           /\ v[Len(v)].type = type /\ v[Len(v)].about = about
           /\ Len(t) >= 1 => v[1] = t[1]
           /\ t = <<>> => v[1].type = type
<1>1. Event(type, about).type = type /\ Event(type, about).about = about
  BY DEF Event
<1>2. /\ IsList(v) /\ Len(v) = Len(t) + 1 /\ DOMAIN v = 1..(Len(t) + 1)
      /\ \A i \in DOMAIN t : v[i] = t[i]
      /\ v[Len(t) + 1] = Event(type, about)
      /\ Len(t) \in Nat /\ DOMAIN t = 1..Len(t)
  BY OneMore, ListFacts DEF Adds
<1>3. AreEvents(v)
  <2> SUFFICES ASSUME NEW i \in DOMAIN v PROVE v[i] = Event(v[i].type, v[i].about)
    BY DEF AreEvents
  <2>1. CASE i \in DOMAIN t
    BY <1>2, <2>1 DEF AreEvents
  <2>2. CASE i \notin DOMAIN t
    <3>1. i = Len(t) + 1
      BY <1>2, <2>2
    <3> QED
      BY <1>1, <1>2, <3>1
  <2> QED
    BY <2>1, <2>2
<1>4. Len(t) >= 1 => v[1] = t[1]
  BY <1>2
<1>5. t = <<>> => v[1].type = type
  <2>1. t = <<>> => Len(t) = 0
    OBVIOUS
  <2> QED
    BY <1>1, <1>2, <2>1
<1> QED
  BY <1>1, <1>2, <1>3, <1>4, <1>5

LEMMA OneMoreAbout ==
    ASSUME NEW t, IsList(t), NEW type, NEW about, NEW types,
           NEW v, Adds(v, t, type, about)
    PROVE  /\ type \notin types =>
                 /\ About(v, types) = About(t, types) /\ Positions(v, types) = Positions(t, types)
                 /\ \A i \in Positions(v, types) : v[i] = t[i]
                 /\ Once(t, types) => Once(v, types)
                 /\ Distinct(t, types) => Distinct(v, types)
           /\ type \in types =>
                 /\ About(v, types) = About(t, types) \cup {about}
                 /\ About(t, types) = {} =>
                       /\ Once(v, types)
                       /\ \A i \in Positions(v, types) : v[i] = Event(type, about)
                 /\ Distinct(t, types) /\ about \notin About(t, types) => Distinct(v, types)
<1> DEFINE n == Len(t) + 1
<1>1. Event(type, about).type = type /\ Event(type, about).about = about
  BY DEF Event
<1>2. /\ DOMAIN v = DOMAIN t \cup {n} /\ n \notin DOMAIN t
      /\ \A i \in DOMAIN t : v[i] = t[i]
      /\ v[n] = Event(type, about)
  <2>1. /\ DOMAIN v = 1..(Len(t) + 1) /\ \A i \in DOMAIN t : v[i] = t[i]
        /\ v[n] = Event(type, about) /\ Len(t) \in Nat /\ DOMAIN t = 1..Len(t)
    BY OneMore, ListFacts DEF Adds
  <2> QED
    BY <2>1
<1> HIDE DEF n
<1>3. /\ \A i \in Positions(t, types) : i \in Positions(v, types) /\ v[i] = t[i] /\ i # n
      /\ \A i \in Positions(v, types) : i \in Positions(t, types) \/ i = n
      /\ type \in types => n \in Positions(v, types)
      /\ type \notin types => n \notin Positions(v, types)
  BY <1>1, <1>2 DEF Positions
<1>4. ASSUME type \notin types
      PROVE  /\ About(v, types) = About(t, types) /\ Positions(v, types) = Positions(t, types)
             /\ \A i \in Positions(v, types) : v[i] = t[i]
             /\ Once(t, types) => Once(v, types)
             /\ Distinct(t, types) => Distinct(v, types)
  <2>1. Positions(v, types) = Positions(t, types) /\ \A i \in Positions(t, types) : v[i] = t[i]
    BY <1>3, <1>4
  <2> QED
    BY <2>1 DEF About, Once, Distinct
<1>5. ASSUME type \in types
      PROVE  /\ About(v, types) = About(t, types) \cup {about}
             /\ About(t, types) = {} =>
                   /\ Once(v, types)
                   /\ \A i \in Positions(v, types) : v[i] = Event(type, about)
             /\ Distinct(t, types) /\ about \notin About(t, types) => Distinct(v, types)
  <2>1. /\ Positions(v, types) = Positions(t, types) \cup {n}
        /\ \A i \in Positions(t, types) : v[i] = t[i]
        /\ v[n].about = about
    BY <1>1, <1>2, <1>3, <1>5
  <2>2. About(v, types) = About(t, types) \cup {about}
    BY <2>1 DEF About
  <2>3. ASSUME About(t, types) = {}
        PROVE  Once(v, types) /\ \A i \in Positions(v, types) : v[i] = Event(type, about)
    <3>1. Positions(v, types) = {n}
      BY <2>1, <2>3 DEF About
    <3> QED
      BY <1>2, <3>1 DEF Once
  <2>4. ASSUME Distinct(t, types), about \notin About(t, types) PROVE Distinct(v, types)
    <3> SUFFICES ASSUME NEW i \in Positions(v, types), NEW j \in Positions(v, types),
                        v[i].about = v[j].about
                 PROVE  i = j
      BY DEF Distinct
    <3>1. \A m \in Positions(t, types) : t[m].about # about
      BY <2>4 DEF About
    <3> QED
      BY <2>1, <2>4, <3>1 DEF Distinct
  <2> QED
    BY <2>2, <2>3, <2>4
<1> QED
  BY <1>4, <1>5

\* The empty list.
LEMMA NoEvent ==
    ASSUME NEW types
    PROVE  /\ IsList(<<>>) /\ Len(<<>>) = 0 /\ About(<<>>, types) = {} /\ Positions(<<>>, types) = {}
           /\ Once(<<>>, types) /\ Distinct(<<>>, types) /\ AreEvents(<<>>)
<1>1. DOMAIN <<>> = {} /\ Len(<<>>) = 0 /\ \A S : <<>> \in Seq(S)
  OBVIOUS
<1>2. Positions(<<>>, types) = {}
  BY <1>1 DEF Positions
<1> QED
  BY <1>1, <1>2 DEF IsList, AreEvents, About, Once, Distinct

\* Which events are counted as what.
LEMMA Kinds ==
    /\ {"REQUEST_RECEIVED", "POLICY_RETRIEVED", "PURCHASE_ANALYZED", "APPROVAL_REUSED", "NARRATION_SKIPPED"}
          \cap (Closing \cup Evaluated \cup Quarantined \cup Superseded \cup Requested \cup _DENIED_OR_BLOCKED) = {}
    /\ {"ANALYSIS_FAILED", "INTAKE_FAILED", "INTAKE_DRAFTED", "POLICY_QA", "POLICY_QA_FAILED",
        "POLICY_EVALUATED", "AUTHORIZATION_DENIED"} = Closing
    /\ Evaluated = {"POLICY_EVALUATED"} /\ Evaluated \subseteq Closing
    /\ Closing \cap (Quarantined \cup Superseded \cup Requested) = {}
    /\ Closing \cap _DENIED_OR_BLOCKED = {"AUTHORIZATION_DENIED"}
    /\ Quarantined = {"SECURITY_CONTENT_QUARANTINED"}
    /\ Superseded = {"APPROVAL_SUPERSEDED"} /\ Requested = {"APPROVAL_REQUESTED"}
    /\ (Quarantined \cup Superseded \cup Requested) \cap _DENIED_OR_BLOCKED = {}
BY DEF Closing, Evaluated, Quarantined, Superseded, Requested, _DENIED_OR_BLOCKED

\* What an event of another kind leaves as it was.
Untouched(t, v, types) ==
    /\ About(v, types) = About(t, types) /\ Positions(v, types) = Positions(t, types)
    /\ \A i \in Positions(v, types) : v[i] = t[i]
    /\ Once(t, types) => Once(v, types)
    /\ Distinct(t, types) => Distinct(v, types)

LEMMA OtherKind ==
    ASSUME NEW t, IsList(t), NEW type, NEW about, NEW types, type \notin types,
           NEW v, Adds(v, t, type, about)
    PROVE  Untouched(t, v, types)
BY OneMoreAbout DEF Untouched

-----------------------------------------------------------------------------
(* Every step tells what it does                                           *)

LEMMA WroteOwn ==
    ASSUME AnalysisInv, NEW c \in Calls, NEW event, Audit(c, event)
    PROVE  trail'[c] = Append(trail[c], event) /\ \A d \in Calls \ {c} : trail'[d] = trail[d]
BY DEF AnalysisInv, Audit

LEMMA ToldOfCall ==
    ASSUME ToldInv, NEW c \in Calls
    PROVE  /\ IsList(trail[c]) /\ AreEvents(trail[c])
           /\ ToldEnd(call[c], trail[c]) /\ ToldAnalysis(call[c], trail[c])
           /\ ToldApprovals(call[c], trail[c])
BY DEF ToldInv, Told

LEMMA FirstWords ==
    ASSUME AnalysisInv, ToldInv, NEW c \in Calls, call[c].pc = "idle", NEW type, NEW about,
           Audit(c, Event(type, about))
    PROVE  /\ trail[c] = <<>> /\ trail'[c] = Append(<<>>, Event(type, about))
           /\ trail'[c] = <<Event(type, about)>>
<1>1. trail[c] = <<>>
  BY ToldOfCall DEF ToldEnd
<1>2. trail'[c] = Append(<<>>, Event(type, about))
  BY <1>1, WroteOwn
<1>3. Append(<<>>, Event(type, about)) = <<Event(type, about)>>
  OBVIOUS
<1> QED
  BY <1>1, <1>2, <1>3

\* The first event of a trail.
LEMMA OneEvent ==
    ASSUME NEW type, NEW about, NEW v, Adds(v, <<>>, type, about)
    PROVE  /\ IsList(v) /\ AreEvents(v) /\ Len(v) >= 1 /\ v[1].type = type
           /\ v[Len(v)].type = type /\ v[Len(v)].about = about
<1> DEFINE t == <<>>
<1>1. IsList(t) /\ AreEvents(t) /\ t = <<>> /\ Adds(v, t, type, about)
  BY NoEvent
<1> HIDE DEF t
<1>2. /\ IsList(v) /\ AreEvents(v) /\ Len(v) >= 1
      /\ v[Len(v)].type = type /\ v[Len(v)].about = about
      /\ t = <<>> => v[1].type = type
  BY <1>1, OneMoreEvent
<1> QED
  BY <1>1, <1>2

Sole(v, types, type, about) ==
    /\ Once(v, types) /\ Distinct(v, types)
    /\ type \in types => About(v, types) = {about}
    /\ type \notin types => About(v, types) = {} /\ Positions(v, types) = {}

LEMMA OneEventAbout ==
    ASSUME NEW type, NEW about, NEW types, NEW v, Adds(v, <<>>, type, about)
    PROVE  Sole(v, types, type, about)
<1> DEFINE t == <<>>
<1>1. /\ IsList(t) /\ About(t, types) = {} /\ Positions(t, types) = {}
      /\ Once(t, types) /\ Distinct(t, types) /\ Adds(v, t, type, about)
  BY NoEvent
<1> HIDE DEF t
<1>2. ASSUME type \in types PROVE Once(v, types) /\ Distinct(v, types) /\ About(v, types) = {about}
  <2>1. /\ About(v, types) = About(t, types) \cup {about} /\ Once(v, types)
        /\ about \notin About(t, types) => Distinct(v, types)
    BY <1>1, <1>2, OneMoreAbout
  <2>2. about \notin About(t, types) /\ About(t, types) \cup {about} = {about}
    BY <1>1
  <2> QED
    BY <2>1, <2>2
<1>3. ASSUME type \notin types
      PROVE  Once(v, types) /\ Distinct(v, types) /\ About(v, types) = {} /\ Positions(v, types) = {}
  <2>1. Untouched(t, v, types)
    BY <1>1, <1>3, OtherKind
  <2> QED
    BY <1>1, <2>1 DEF Untouched
<1> QED
  BY <1>2, <1>3 DEF Sole

LEMMA OneEventTells ==
    ASSUME NEW type, NEW about, NEW v, Adds(v, <<>>, type, about),
           type \notin Evaluated \cup Quarantined \cup Superseded \cup Requested
    PROVE  /\ IsList(v) /\ AreEvents(v) /\ Len(v) >= 1 /\ v[1].type = type
           /\ v[Len(v)].type = type /\ v[Len(v)].about = about
           /\ Once(v, Closing) /\ Distinct(v, Quarantined) /\ Distinct(v, Superseded)
           /\ About(v, Evaluated) = {} /\ About(v, Quarantined) = {}
           /\ About(v, Superseded) = {} /\ About(v, Requested) = {}
           /\ type \in Closing => About(v, Closing) = {about}
           /\ type \notin Closing => About(v, Closing) = {} /\ Positions(v, Closing) = {}
           /\ type \notin _DENIED_OR_BLOCKED => About(v, _DENIED_OR_BLOCKED) = {}
<1>1. /\ Sole(v, Closing, type, about) /\ Sole(v, _DENIED_OR_BLOCKED, type, about)
      /\ Sole(v, Evaluated, type, about) /\ Sole(v, Quarantined, type, about)
      /\ Sole(v, Superseded, type, about) /\ Sole(v, Requested, type, about)
  BY OneEventAbout
<1> QED
  BY <1>1, OneEvent DEF Sole

LEMMA DenyTells ==
    ASSUME AnalysisInv, ToldInv, NEW c \in Calls, NEW op \in {"analyze", "intake", "ask"}, NEW role \in Roles,
           Deny(c, op, role)
    PROVE  Told(call'[c], trail'[c])
<1> DEFINE next == [Idle EXCEPT !.op = op, !.role = role, !.pc = "denied"]
           type == "AUTHORIZATION_DENIED"
           e == Event(type, op)
           t == Append(<<>>, e)
<1>0. /\ Adds(t, <<>>, type, op) /\ type \in Closing
      /\ type \notin Evaluated \cup Quarantined \cup Superseded \cup Requested
  BY Kinds DEF Adds
<1>1. /\ next.op = op /\ next.pc = "denied" /\ next.outcome = None /\ next.approval = None
      /\ next.said = 0 /\ next.superseded = {} /\ next.attachments = {}
  BY DEF Idle
<1>2. call'[c] = next
  BY DEF Deny, AnalysisInv
<1>3. trail'[c] = t /\ trail'[c] = <<e>>
  BY FirstWords DEF Deny
<1>4. t = <<Event("AUTHORIZATION_DENIED", next.op)>>
  BY <1>1, <1>3
<1> HIDE DEF t, type, next
<1>5. /\ IsList(t) /\ AreEvents(t) /\ Once(t, Closing) /\ Distinct(t, Quarantined) /\ Distinct(t, Superseded)
      /\ About(t, Evaluated) = {} /\ About(t, Quarantined) = {}
      /\ About(t, Superseded) = {} /\ About(t, Requested) = {} /\ About(t, Closing) = {op}
  BY <1>0, OneEventTells
<1>6. About(t, Closing) # {}
  BY <1>5
<1>7. ToldEnd(next, t)
  BY <1>1, <1>4, <1>5, <1>6 DEF ToldEnd
<1>8. ToldAnalysis(next, t)
  BY <1>1, <1>5 DEF ToldAnalysis
<1>9. ToldApprovals(next, t)
  BY <1>1, <1>5 DEF ToldApprovals
<1> QED
  BY <1>2, <1>3, <1>5, <1>7, <1>8, <1>9 DEF Told

LEMMA ReceiveTells ==
    ASSUME AnalysisInv, ToldInv, NEW c \in Calls, NEW role \in Roles, NEW q \in Inputs, Receive(c, role, q)
    PROVE  Told(call'[c], trail'[c])
<1> DEFINE S == Injections(world, q.supplier)
           next == [Idle EXCEPT !.op = "analyze", !.role = role, !.asked = q,
                                !.pc = "received", !.world = world, !.attachments = S]
           type == "REQUEST_RECEIVED"
           t == Append(<<>>, Event(type, q.amount))
<1> HIDE DEF S
<1>0. /\ Adds(t, <<>>, type, q.amount) /\ type \notin Closing /\ type \notin _DENIED_OR_BLOCKED
      /\ type \notin Evaluated \cup Quarantined \cup Superseded \cup Requested
  BY Kinds DEF Adds
<1>1. /\ next.op = "analyze" /\ next.pc = "received" /\ next.outcome = None /\ next.approval = None
      /\ next.said = 0 /\ next.superseded = {} /\ next.attachments = S
      /\ next.world = world /\ next.asked = q
  BY DEF Idle
<1>2. call'[c] = next
  BY DEF Receive, AnalysisInv, S
<1>3. trail'[c] = t
  BY FirstWords DEF Receive
<1> HIDE DEF t, type
<1>4. /\ IsList(t) /\ AreEvents(t) /\ Once(t, Closing) /\ Distinct(t, Quarantined) /\ Distinct(t, Superseded)
      /\ About(t, Evaluated) = {} /\ About(t, Quarantined) = {} /\ About(t, _DENIED_OR_BLOCKED) = {}
      /\ About(t, Superseded) = {} /\ About(t, Requested) = {} /\ About(t, Closing) = {}
      /\ Positions(t, Closing) = {} /\ Len(t) >= 1 /\ t[1].type = type
  BY <1>0, OneEventTells
<1>5. /\ t[1].type = "REQUEST_RECEIVED" /\ S = Injections(next.world, next.asked.supplier) /\ S \ S = {}
      /\ next.world \in Worlds
  BY <1>1, <1>4 DEF S, type, AnalysisInv
<1> HIDE DEF next
<1>6. ToldEnd(next, t)
  BY <1>1, <1>4 DEF ToldEnd
<1>7. ToldAnalysis(next, t)
  BY <1>1, <1>4, <1>5 DEF ToldAnalysis
<1>8. ToldApprovals(next, t)
  BY <1>1, <1>4 DEF ToldApprovals
<1> QED
  BY <1>2, <1>3, <1>4, <1>6, <1>7, <1>8 DEF Told

\* A call that ends in the step it arrives, and asked for no analysis.
LEMMA EndedAtOnceTells ==
    ASSUME AnalysisInv, ToldInv, NEW c \in Calls, NEW next, call[c].pc = "idle",
           next.op # "analyze", next.pc \in {"failed", "answered"}, next.approval = None,
           next.said = 0, next.superseded = {}, call' = [call EXCEPT ![c] = next],
           NEW type, type \in Closing, type \notin _DENIED_OR_BLOCKED \cup Evaluated, NEW about,
           next.pc = "failed" => type \in Failures /\ about = next.outcome.failure,
           Audit(c, Event(type, about))
    PROVE  Told(call'[c], trail'[c])
<1> DEFINE t == Append(<<>>, Event(type, about))
<1>0. Adds(t, <<>>, type, about)
  BY DEF Adds
<1>1. call'[c] = next
  BY DEF AnalysisInv
<1>2. trail'[c] = t
  BY FirstWords
<1> HIDE DEF t
<1>3. /\ IsList(t) /\ AreEvents(t) /\ Once(t, Closing) /\ Distinct(t, Quarantined) /\ Distinct(t, Superseded)
      /\ About(t, Evaluated) = {} /\ About(t, Quarantined) = {} /\ About(t, _DENIED_OR_BLOCKED) = {}
      /\ About(t, Superseded) = {} /\ About(t, Requested) = {} /\ About(t, Closing) = {about}
      /\ Len(t) >= 1 /\ t[Len(t)].type = type /\ t[Len(t)].about = about
  <2>1. type \notin _DENIED_OR_BLOCKED /\ type \notin Evaluated \cup Quarantined \cup Superseded \cup Requested
    BY Kinds
  <2> QED
    BY <1>0, <2>1, OneEventTells
<1>4. ToldEnd(next, t)
  <2>1. next.pc = "failed" => Len(t) >= 1 /\ t[Len(t)].type \in Failures /\ t[Len(t)].about = next.outcome.failure
    BY <1>3
  <2>2. next.pc = "failed" \/ next.pc = "answered"
    OBVIOUS
  <2>3. About(t, Closing) # {}
    BY <1>3
  <2> QED
    BY <1>3, <2>1, <2>2, <2>3 DEF ToldEnd
<1>5. ToldAnalysis(next, t)
  BY <1>3 DEF ToldAnalysis
<1>6. ToldApprovals(next, t)
  BY <1>3 DEF ToldApprovals
<1> QED
  BY <1>1, <1>2, <1>3, <1>4, <1>5, <1>6 DEF Told

LEMMA IntakeTells ==
    ASSUME AnalysisInv, ToldInv, NEW c \in Calls, NEW role \in Roles, Intake(c, role)
    PROVE  Told(call'[c], trail'[c])
<1>1. CASE IntakeDrafted(c, role)
  <2> DEFINE type == "INTAKE_DRAFTED"
             next == [Idle EXCEPT !.op = "intake", !.role = role, !.pc = "answered"]
  <2>0. type \in Closing /\ type \notin _DENIED_OR_BLOCKED \cup Evaluated
    BY Kinds
  <2>1. next.op = "intake" /\ next.pc = "answered" /\ next.approval = None /\ next.said = 0 /\ next.superseded = {}
    BY DEF Idle
  <2>2. call' = [call EXCEPT ![c] = next] /\ call[c].pc = "idle" /\ Audit(c, Event(type, None))
    BY <1>1 DEF IntakeDrafted
  <2> HIDE DEF next, type
  <2> QED
    BY <2>0, <2>1, <2>2, EndedAtOnceTells
<1>2. ASSUME NEW code, IntakeFails(c, role, code) PROVE Told(call'[c], trail'[c])
  <2> DEFINE type == "INTAKE_FAILED"
             next == [Idle EXCEPT !.op = "intake", !.role = role, !.pc = "failed",
                                  !.outcome = [failure |-> code, case |-> None]]
  <2>0. type \in Closing /\ type \notin _DENIED_OR_BLOCKED \cup Evaluated /\ type \in Failures
    BY Kinds DEF Failures
  <2>1. /\ next.op = "intake" /\ next.pc = "failed" /\ next.approval = None /\ next.said = 0 /\ next.superseded = {}
        /\ next.outcome.failure = code
    BY DEF Idle
  <2>2. call' = [call EXCEPT ![c] = next] /\ call[c].pc = "idle" /\ Audit(c, Event(type, code))
    BY <1>2 DEF IntakeFails
  <2> HIDE DEF next, type
  <2> QED
    BY <2>0, <2>1, <2>2, EndedAtOnceTells
<1> QED
  BY <1>1, <1>2 DEF Intake

LEMMA AskTells ==
    ASSUME AnalysisInv, ToldInv, NEW c \in Calls, NEW role \in Roles, NEW date, Ask(c, role, date)
    PROVE  Told(call'[c], trail'[c])
<1>1. CASE AskFails(c, role, date)
  <2> DEFINE type == "POLICY_QA_FAILED"
             code == "APPLICABLE_POLICY_NOT_FOUND"
             next == [Idle EXCEPT !.op = "ask", !.role = role, !.asked = date,
                         !.world = world, !.pc = "failed",
                         !.outcome = [failure |-> code, case |-> None]]
  <2>0. type \in Closing /\ type \notin _DENIED_OR_BLOCKED \cup Evaluated /\ type \in Failures
    BY Kinds DEF Failures
  <2>1. /\ next.op = "ask" /\ next.pc = "failed" /\ next.approval = None /\ next.said = 0 /\ next.superseded = {}
        /\ next.outcome.failure = code
    BY DEF Idle
  <2>2. call' = [call EXCEPT ![c] = next] /\ call[c].pc = "idle" /\ Audit(c, Event(type, code))
    BY <1>1 DEF AskFails
  <2> HIDE DEF next, code, type
  <2> QED
    BY <2>0, <2>1, <2>2, EndedAtOnceTells
<1>2. ASSUME NEW mode, AskAnswered(c, role, date, mode) PROVE Told(call'[c], trail'[c])
  <2> DEFINE answered(top) == [Idle EXCEPT !.op = "ask", !.role = role, !.asked = date,
                                 !.world = world, !.pc = "answered", !.shown = top]
             about(top) == [mode |-> mode, sections |-> {s.section : s \in top}]
  <2>0. PICK n \in 0..TopK : \E ranked \in [1..n -> SectionCandidates(world, date, role)] :
           LET top == {ranked[i] : i \in 1..n}
           IN call' = [call EXCEPT ![c] = answered(top)] /\ Audit(c, Event("POLICY_QA", about(top)))
    BY <1>2 DEF AskAnswered
  <2>1. PICK ranked \in [1..n -> SectionCandidates(world, date, role)] :
           LET top == {ranked[i] : i \in 1..n}
           IN call' = [call EXCEPT ![c] = answered(top)] /\ Audit(c, Event("POLICY_QA", about(top)))
    BY <2>0
  <2> DEFINE top == {ranked[i] : i \in 1..n}
  <2> DEFINE type == "POLICY_QA"
             next == answered(top)
             what == about(top)
  <2>4. type \in Closing /\ type \notin _DENIED_OR_BLOCKED \cup Evaluated
    BY Kinds
  <2>2. next.op = "ask" /\ next.pc = "answered" /\ next.approval = None /\ next.said = 0 /\ next.superseded = {}
    BY DEF Idle
  <2>3. call' = [call EXCEPT ![c] = next] /\ call[c].pc = "idle" /\ Audit(c, Event(type, what))
    BY <1>2, <2>1 DEF AskAnswered
  <2> HIDE DEF next, what, type
  <2> QED
    BY <2>2, <2>3, <2>4, EndedAtOnceTells
<1> QED
  BY <1>1, <1>2 DEF Ask

\* The attachments a supplier sent are entries of a finite manifest.
LEMMA FewInjections ==
    ASSUME NEW w \in Worlds, NEW supplier
    PROVE  IsFiniteSet(Injections(w, supplier))
<1>1. Injections(w, supplier) \subseteq Entries(w)
  BY DEF Injections
<1> QED
  BY <1>1, FewEntries, FS_Subset

-----------------------------------------------------------------------------
(* A call that goes on: what a step that writes nothing of a kind, or      *)
(* nothing at all, leaves as it was told.                                  *)

Running == {"received", "failing", "assessed", "claimed", "reporting"}
Undecided == {"received", "failing", "assessed", "claimed"}

LEMMA NothingMore ==
    ASSUME NEW t, NEW types
    PROVE  Untouched(t, t, types)
BY DEF Untouched

LEMMA WroteAdds ==
    ASSUME AnalysisInv, NEW c \in Calls, NEW type, NEW about, Audit(c, Event(type, about))
    PROVE  Adds(trail'[c], trail[c], type, about)
BY WroteOwn DEF Adds

LEMMA EndKept ==
    ASSUME NEW k, NEW n, NEW t, NEW v, ToldEnd(k, t),
           Untouched(t, v, Closing), Untouched(t, v, _DENIED_OR_BLOCKED),
           k.pc \in Running, n.pc \in Running \cup {"dead", "answered"},
           n.pc \in Undecided => k.pc \in Undecided,
           n.pc = "reporting" /\ n.said < 3 => k.pc \in Undecided \/ (k.pc = "reporting" /\ k.said < 3),
           n.pc = "answered" => About(t, Closing) # {}
    PROVE  ToldEnd(n, v)
<1>1. Once(v, Closing) /\ About(v, Closing) = About(t, Closing)
      /\ About(v, _DENIED_OR_BLOCKED) = About(t, _DENIED_OR_BLOCKED)
  BY DEF ToldEnd, Untouched
<1>2. About(v, _DENIED_OR_BLOCKED) = {} /\ n.pc \notin {"idle", "denied", "failed"}
  BY <1>1 DEF ToldEnd, Running
<1>3. n.pc \in Undecided => About(v, Closing) = {}
  BY <1>1 DEF ToldEnd, Undecided
<1>4. n.pc = "reporting" /\ n.said < 3 => About(v, Closing) = {}
  BY <1>1 DEF ToldEnd, Undecided
<1> QED
  BY <1>1, <1>2, <1>3, <1>4 DEF ToldEnd, Undecided

\* What an analysis found is not found again or forgotten.
LEMMA AnalysisKept ==
    ASSUME NEW k, NEW n, NEW t, NEW v, ToldAnalysis(k, t),
           Untouched(t, v, Closing), Untouched(t, v, Quarantined),
           Len(t) >= 1 => Len(v) >= 1 /\ v[1] = t[1],
           k.pc \in Running, n.pc \notin {"idle", "denied"}, n.pc = "received" => k.pc = "received",
           k.op = "analyze", n.op = "analyze", n.world = k.world, n.asked = k.asked,
           n.outcome = k.outcome, n.attachments = k.attachments
    PROVE  ToldAnalysis(n, v)
<1>1. /\ Len(t) >= 1 /\ t[1].type = "REQUEST_RECEIVED" /\ k.world \in Worlds
      /\ \A i \in Positions(t, Closing) : k.outcome # None /\ t[i] = Verdict(k)
      /\ k.attachments \subseteq Injections(k.world, k.asked.supplier)
      /\ About(t, Quarantined) = Injections(k.world, k.asked.supplier) \ k.attachments
      /\ Distinct(t, Quarantined)
      /\ k.outcome # None => k.attachments = {}
      /\ k.pc = "received" => k.outcome = None
  BY DEF ToldAnalysis, Running
<1>2. /\ Distinct(v, Quarantined) /\ About(v, Quarantined) = About(t, Quarantined)
      /\ Positions(v, Closing) = Positions(t, Closing)
      /\ \A i \in Positions(v, Closing) : v[i] = t[i]
  BY <1>1 DEF Untouched
<1>3. Verdict(n) = Verdict(k)
  BY DEF Verdict
<1> QED
  BY <1>1, <1>2, <1>3 DEF ToldAnalysis

\* Nor is what it announced of its approval and of those it superseded.
LEMMA ApprovalsKept ==
    ASSUME NEW k, NEW n, NEW t, NEW v, ToldApprovals(k, t),
           Untouched(t, v, Evaluated), Untouched(t, v, Requested), Untouched(t, v, Superseded),
           n.op = k.op, n.approval = k.approval, n.reused = k.reused, n.superseded = k.superseded,
           n.outcome = k.outcome \/ n.said = 0,
           n.said \in 0..4, n.said >= 3 <=> k.said >= 3,
           (n.said = 4 /\ ~k.reused) <=> (k.said = 4 /\ ~k.reused),
           n.said > 0 => n.op = "analyze" /\ n.outcome # None /\ n.outcome.failure = None,
           n.said = 4 => n.approval # None,
           n.pc \notin {"idle", "denied"},
           n.pc \in {"received", "failing", "assessed", "claimed", "failed"} => n.said = 0,
           n.pc \in {"received", "failing", "assessed", "failed"} =>
              n.approval = None /\ (n.pc = "failed" \/ About(t, Superseded) = {}),
           n.pc = "answered" /\ n.op = "analyze" => n.said >= 3 /\ (n.approval # None => n.said = 4)
    PROVE  ToldApprovals(n, v)
<1>1. /\ About(v, Evaluated) = About(t, Evaluated) /\ About(v, Requested) = About(t, Requested)
      /\ About(v, Superseded) = About(t, Superseded) /\ Distinct(v, Superseded)
  BY DEF ToldApprovals, Untouched
<1>2. /\ n.said >= 3 => About(v, Evaluated) = {n.outcome.case.decision.status}
      /\ n.said < 3 => About(v, Evaluated) = {}
  BY <1>1 DEF ToldApprovals
<1>3. /\ n.said = 4 /\ ~n.reused => About(v, Requested) = {n.approval}
      /\ ~(n.said = 4 /\ ~n.reused) => About(v, Requested) = {}
  BY <1>1 DEF ToldApprovals
<1>4. /\ About(v, Superseded) \cap n.superseded = {}
      /\ n.approval # None => n.op = "analyze"
  BY <1>1 DEF ToldApprovals
<1> QED
  BY <1>1, <1>2, <1>3, <1>4 DEF ToldApprovals

\* One event more, seen kind by kind.
LEMMA MoreTold ==
    ASSUME NEW t, IsList(t), AreEvents(t), NEW type, NEW about, NEW v, Adds(v, t, type, about)
    PROVE  /\ IsList(v) /\ AreEvents(v) /\ Len(v) >= 1
           /\ v[Len(v)].type = type /\ v[Len(v)].about = about
           /\ Len(t) >= 1 => Len(v) >= 1 /\ v[1] = t[1]
           /\ type \notin Closing => Untouched(t, v, Closing)
           /\ type \notin _DENIED_OR_BLOCKED => Untouched(t, v, _DENIED_OR_BLOCKED)
           /\ type \notin Evaluated => Untouched(t, v, Evaluated)
           /\ type \notin Quarantined => Untouched(t, v, Quarantined)
           /\ type \notin Superseded => Untouched(t, v, Superseded)
           /\ type \notin Requested => Untouched(t, v, Requested)
BY OneMoreEvent, OtherKind

\* A decision that was announced is a verdict.
LEMMA DecisionCloses ==
    ASSUME NEW t, About(t, Evaluated) # {}
    PROVE  About(t, Closing) # {}
BY Kinds DEF About, Positions

LEMMA QuarantineTells ==
    ASSUME AnalysisInv, ToldInv, NEW c \in Calls, Quarantine(c)
    PROVE  Told(call'[c], trail'[c])
<1> DEFINE k == call[c]
           n == call'[c]
           t == trail[c]
           v == trail'[c]
           type == "SECURITY_CONTENT_QUARANTINED"
<1>1. k.pc = "received" /\ k.op = "analyze" /\ k.approval = None
  BY DEF Quarantine, AnalysisInv, Honest
<1>2. IsList(t) /\ AreEvents(t) /\ ToldEnd(k, t) /\ ToldAnalysis(k, t) /\ ToldApprovals(k, t)
  BY ToldOfCall
<1>3. PICK d \in k.attachments :
         MovesTo(c, "received", k.attachments \ {d}, k.said, k.superseded) /\ Audit(c, Event(type, d))
  BY QuarantineMoves
<1>4. /\ n.op = k.op /\ n.asked = k.asked /\ n.world = k.world /\ n.outcome = k.outcome
      /\ n.approval = k.approval /\ n.reused = k.reused /\ n.pc = "received" /\ n.said = k.said
      /\ n.superseded = k.superseded /\ n.attachments = k.attachments \ {d}
  BY <1>3 DEF MovesTo
<1>5. /\ Adds(v, t, type, d) /\ type \in Quarantined /\ type \notin Closing /\ type \notin _DENIED_OR_BLOCKED
      /\ type \notin Evaluated /\ type \notin Superseded /\ type \notin Requested
  BY <1>3, WroteAdds, Kinds
<1> HIDE DEF k, n, t, v, type
<1>6. /\ Len(t) >= 1 => Len(v) >= 1 /\ v[1] = t[1]
      /\ Untouched(t, v, Closing) /\ Untouched(t, v, _DENIED_OR_BLOCKED)
      /\ Untouched(t, v, Evaluated) /\ Untouched(t, v, Superseded) /\ Untouched(t, v, Requested)
  BY <1>2, <1>5, MoreTold
<1>6a. IsList(v) /\ AreEvents(v)
  BY <1>2, <1>5, MoreTold
<1>7. ToldEnd(n, v)
  BY <1>1, <1>2, <1>4, <1>6, EndKept DEF Running, Undecided
<1>8. /\ Len(t) >= 1 /\ t[1].type = "REQUEST_RECEIVED" /\ k.world \in Worlds
      /\ k.outcome = None /\ Positions(t, Closing) = {}
      /\ k.attachments \subseteq Injections(k.world, k.asked.supplier)
      /\ About(t, Quarantined) = Injections(k.world, k.asked.supplier) \ k.attachments
      /\ Distinct(t, Quarantined)
  <2>1. About(t, Closing) = {}
    BY <1>1, <1>2 DEF ToldEnd
  <2>2. Positions(t, Closing) = {}
    BY <2>1 DEF About
  <2> QED
    BY <1>1, <1>2, <2>2 DEF ToldAnalysis
<1>9. About(v, Quarantined) = Injections(n.world, n.asked.supplier) \ n.attachments /\ Distinct(v, Quarantined)
  <2>1. d \notin About(t, Quarantined)
    BY <1>3, <1>8
  <2>2. Distinct(v, Quarantined) /\ About(v, Quarantined) = About(t, Quarantined) \cup {d}
    BY <1>2, <1>5, <1>8, <2>1, OneMoreAbout
  <2> QED
    BY <1>3, <1>4, <1>8, <2>2
<1>10. ToldAnalysis(n, v)
  BY <1>1, <1>4, <1>6, <1>8, <1>9 DEF ToldAnalysis, Untouched
<1>11. ToldApprovals(n, v)
  <2>1. k.said = 0 /\ About(t, Superseded) = {}
    BY <1>1, <1>2 DEF ToldApprovals
  <2> QED
    BY <1>1, <1>2, <1>4, <1>6, <2>1, ApprovalsKept
<1> QED
  BY <1>6a, <1>7, <1>10, <1>11 DEF Told, n, v

LEMMA AssessTells ==
    ASSUME AnalysisInv, ToldInv, NEW c \in Calls, Assess(c)
    PROVE  Told(call'[c], trail'[c])
<1> DEFINE outcome == Outcome(world, call[c].asked, call[c].role)
           place == IF outcome.failure # None THEN "failing" ELSE "assessed"
           k == call[c]
           n == [k EXCEPT !.outcome = outcome, !.pc = place]
           t == trail[c]
<1>1. /\ k \in CallRec /\ k.pc = "received" /\ k.op = "analyze" /\ k.approval = None
      /\ k.asked \in Inputs /\ k.role \in Roles /\ world \in Worlds /\ k.attachments = {}
  BY DEF Assess, AnalysisInv, Honest
<1>2. IsList(t) /\ AreEvents(t) /\ ToldEnd(k, t) /\ ToldAnalysis(k, t) /\ ToldApprovals(k, t)
  BY ToldOfCall
<1>3. call' = [call EXCEPT ![c] = n] /\ trail' = trail
  BY DEF Assess
<1>4. outcome # None
  BY <1>1, AnalysisAssumption
<1>5. place \in {"failing", "assessed"}
  OBVIOUS
<1> HIDE DEF outcome, place
<1>6. /\ n.op = k.op /\ n.asked = k.asked /\ n.world = k.world /\ n.outcome = outcome
      /\ n.approval = k.approval /\ n.reused = k.reused /\ n.pc = place /\ n.said = k.said
      /\ n.superseded = k.superseded /\ n.attachments = {}
  BY <1>1 DEF CallRec
<1> HIDE DEF n
<1>7. call'[c] = n /\ trail'[c] = t
  BY <1>3 DEF AnalysisInv
<1> HIDE DEF k, t
<1>8. ToldEnd(n, t)
  BY <1>1, <1>2, <1>5, <1>6, NothingMore, EndKept DEF Running, Undecided
<1>9. ToldAnalysis(n, t)
  <2>1. About(t, Closing) = {}
    BY <1>1, <1>2 DEF ToldEnd
  <2>2. Positions(t, Closing) = {}
    BY <2>1 DEF About
  <2> QED
    BY <1>1, <1>2, <1>4, <1>5, <1>6, <2>2 DEF ToldAnalysis
<1>10. ToldApprovals(n, t)
  <2>1. k.said = 0 /\ About(t, Superseded) = {}
    BY <1>1, <1>2 DEF ToldApprovals
  <2> QED
    BY <1>1, <1>2, <1>5, <1>6, <2>1, NothingMore, ApprovalsKept
<1> QED
  BY <1>2, <1>7, <1>8, <1>9, <1>10 DEF Told

LEMMA FailTells ==
    ASSUME AnalysisInv, ToldInv, NEW c \in Calls, Fail(c)
    PROVE  Told(call'[c], trail'[c])
<1> DEFINE k == call[c]
           n == call'[c]
           t == trail[c]
           v == trail'[c]
           type == "ANALYSIS_FAILED"
           code == k.outcome.failure
<1>1. k.pc = "failing" /\ k.op = "analyze" /\ k.approval = None /\ code # None /\ k.outcome # None
  BY AnalysisAssumption DEF Fail, AnalysisInv, Honest, Founded, ComputedFrom
<1>2. IsList(t) /\ AreEvents(t) /\ ToldEnd(k, t) /\ ToldAnalysis(k, t) /\ ToldApprovals(k, t)
  BY ToldOfCall
<1>3. /\ n.op = k.op /\ n.asked = k.asked /\ n.world = k.world /\ n.outcome = k.outcome
      /\ n.approval = k.approval /\ n.reused = k.reused /\ n.pc = "failed" /\ n.said = k.said
      /\ n.superseded = k.superseded /\ n.attachments = k.attachments
  BY FailMoves DEF MovesTo
<1>4. Audit(c, Event(type, code))
  BY DEF Fail
<1>5. /\ Adds(v, t, type, code) /\ type \in Closing /\ type \in Failures /\ type \notin _DENIED_OR_BLOCKED
      /\ type \notin Evaluated /\ type \notin Quarantined /\ type \notin Superseded /\ type \notin Requested
  BY <1>4, WroteAdds, Kinds DEF Failures
<1>6. Verdict(n) = Event(type, code)
  BY <1>1, <1>3 DEF Verdict
<1> HIDE DEF k, n, t, v, type, code
<1>7. /\ IsList(v) /\ AreEvents(v) /\ Len(v) >= 1 /\ v[Len(v)].type = type /\ v[Len(v)].about = code
      /\ Len(t) >= 1 => v[1] = t[1]
      /\ Untouched(t, v, Quarantined) /\ Untouched(t, v, _DENIED_OR_BLOCKED)
      /\ Untouched(t, v, Evaluated) /\ Untouched(t, v, Superseded) /\ Untouched(t, v, Requested)
  BY <1>2, <1>5, MoreTold
<1>8. /\ About(v, Closing) # {} /\ Once(v, Closing)
      /\ \A i \in Positions(v, Closing) : v[i] = Event(type, code)
  <2>1. About(t, Closing) = {}
    BY <1>1, <1>2 DEF ToldEnd
  <2>2. /\ About(v, Closing) = About(t, Closing) \cup {code} /\ Once(v, Closing)
        /\ \A i \in Positions(v, Closing) : v[i] = Event(type, code)
    BY <1>2, <1>5, <2>1, OneMoreAbout
  <2> QED
    BY <2>2
<1>9. ToldEnd(n, v)
  <2>1. About(v, _DENIED_OR_BLOCKED) = {}
    BY <1>1, <1>2, <1>7 DEF ToldEnd, Untouched
  <2>2. n.pc = "failed" /\ v[Len(v)].type \in Failures /\ v[Len(v)].about = n.outcome.failure
    BY <1>3, <1>5, <1>7 DEF code
  <2> QED
    BY <1>7, <1>8, <2>1, <2>2 DEF ToldEnd
<1>10. ToldAnalysis(n, v)
  <2>1. /\ Len(t) >= 1 /\ t[1].type = "REQUEST_RECEIVED" /\ k.world \in Worlds /\ k.attachments = {}
        /\ k.attachments \subseteq Injections(k.world, k.asked.supplier)
        /\ About(t, Quarantined) = Injections(k.world, k.asked.supplier) \ k.attachments
        /\ Distinct(t, Quarantined)
    BY <1>1, <1>2 DEF ToldAnalysis
  <2>2. About(v, Quarantined) = About(t, Quarantined) /\ Distinct(v, Quarantined)
    BY <1>7, <2>1 DEF Untouched
  <2> QED
    BY <1>1, <1>3, <1>6, <1>7, <1>8, <2>1, <2>2 DEF ToldAnalysis
<1>11. ToldApprovals(n, v)
  <2>1. k.said = 0 /\ About(t, Superseded) = {}
    BY <1>1, <1>2 DEF ToldApprovals
  <2> QED
    BY <1>1, <1>2, <1>3, <1>7, <2>1, ApprovalsKept
<1> QED
  BY <1>7, <1>9, <1>10, <1>11 DEF Told, n, v

LEMMA ClaimTells ==
    ASSUME AnalysisInv, ToldInv, NEW c \in Calls, Claim(c)
    PROVE  Told(call'[c], trail'[c])
<1> DEFINE case == call[c].outcome.case
           live == LiveOf(case.request.id)
           covering == {i \in live : approvals[i].fingerprint = Fingerprint(case)}
           needed == case.decision.status = "CONDITIONAL_REVIEW"
           kept == IF needed THEN covering ELSE {}
           opened == IF needed /\ kept = {}
                     THEN <<[request |-> case.request.id, fingerprint |-> Fingerprint(case),
                             live |-> TRUE, case |-> None]>>
                     ELSE <<>>
           handed == IF ~needed THEN None
                     ELSE IF kept # {} THEN CHOOSE i \in kept : TRUE ELSE Len(approvals) + 1
           reused == kept # {}
           superseded == live \ kept
           place == IF opened # <<>> THEN "claimed" ELSE "reporting"
           k == call[c]
           n == [k EXCEPT !.pc = place, !.approval = handed, !.reused = reused,
                          !.superseded = superseded]
           t == trail[c]
<1>1. k \in CallRec /\ k.pc = "assessed" /\ k.op = "analyze" /\ k.outcome # None
  <2>1. k \in CallRec /\ k.pc = "assessed" /\ k.op = "analyze" /\ Founded(k)
    BY DEF Claim, AnalysisInv, Honest
  <2> HIDE DEF k
  <2> QED
    BY <2>1, AnalysisAssumption DEF Founded, ComputedFrom
<1>2. IsList(t) /\ AreEvents(t) /\ ToldEnd(k, t) /\ ToldAnalysis(k, t) /\ ToldApprovals(k, t)
  BY ToldOfCall
<1>3. call' = [call EXCEPT ![c] = n] /\ trail' = trail
  BY DEF Claim
<1>4. place \in {"claimed", "reporting"}
  OBVIOUS
<1> HIDE DEF handed, reused, superseded, place
<1>5. /\ n.op = k.op /\ n.asked = k.asked /\ n.world = k.world /\ n.outcome = k.outcome
      /\ n.pc = place /\ n.said = k.said /\ n.attachments = k.attachments
  BY <1>1 DEF CallRec
<1> HIDE DEF n
<1>6. call'[c] = n /\ trail'[c] = t
  BY <1>3 DEF AnalysisInv
<1> HIDE DEF k, t
<1>7. ToldEnd(n, t)
  BY <1>1, <1>2, <1>4, <1>5, NothingMore, EndKept DEF Running, Undecided
<1>8. ToldAnalysis(n, t)
  BY <1>1, <1>2, <1>4, <1>5, NothingMore, AnalysisKept DEF Running
<1>9. ToldApprovals(n, t)
  <2>1. /\ k.said = 0 /\ About(t, Evaluated) = {} /\ About(t, Requested) = {}
        /\ About(t, Superseded) = {} /\ Distinct(t, Superseded)
    BY <1>1, <1>2 DEF ToldApprovals
  <2> QED
    BY <1>1, <1>4, <1>5, <2>1 DEF ToldApprovals
<1> QED
  BY <1>2, <1>6, <1>7, <1>8, <1>9 DEF Told

\* A list with nothing more, or nothing more of any kind that is counted.
Quietly(t, v) ==
    /\ IsList(v) /\ AreEvents(v)
    /\ Len(t) >= 1 => Len(v) >= 1 /\ v[1] = t[1]
    /\ Untouched(t, v, Closing) /\ Untouched(t, v, _DENIED_OR_BLOCKED) /\ Untouched(t, v, Quarantined)
    /\ Untouched(t, v, Evaluated) /\ Untouched(t, v, Superseded) /\ Untouched(t, v, Requested)

LEMMA NothingIsQuiet ==
    ASSUME NEW t, IsList(t), AreEvents(t)
    PROVE  Quietly(t, t)
BY NothingMore DEF Quietly

Uncounted(type) ==
    type \notin Closing \cup Evaluated \cup Quarantined \cup Superseded \cup Requested \cup _DENIED_OR_BLOCKED

LEMMA UncountedIsQuiet ==
    ASSUME NEW t, IsList(t), AreEvents(t), NEW type, NEW about, NEW v, Adds(v, t, type, about), Uncounted(type)
    PROVE  Quietly(t, v)
BY MoreTold DEF Quietly, Uncounted

Carries(k, n) ==
    /\ n.op = k.op /\ n.asked = k.asked /\ n.world = k.world /\ n.outcome = k.outcome
    /\ n.approval = k.approval /\ n.reused = k.reused
    /\ n.superseded = k.superseded /\ n.attachments = k.attachments

\* Such a step of an analysis that has its case, or the death of a call.
LEMMA QuietlyTells ==
    ASSUME AnalysisInv, ToldInv, NEW c \in Calls, NEW pc \in {"reporting", "answered", "dead"}, NEW said \in 0..4,
           Carries(call[c], call'[c]), call'[c].pc = pc, call'[c].said = said,
           call[c].pc \in Running, Quietly(trail[c], trail'[c]),
           said >= 3 <=> call[c].said >= 3,
           (said = 4 /\ ~call[c].reused) <=> (call[c].said = 4 /\ ~call[c].reused),
           said # call[c].said => call[c].pc = "reporting" /\ (said = 4 => call[c].approval # None),
           pc = "reporting" => call[c].pc \in {"claimed", "reporting"},
           pc = "answered" => said >= 3 /\ (call[c].approval # None => said = 4)
    PROVE  Told(call'[c], trail'[c])
<1> DEFINE k == call[c]
           n == call'[c]
           t == trail[c]
           v == trail'[c]
<1>1. /\ k.op = "analyze"
      /\ k.pc = "reporting" => k.outcome # None /\ k.outcome.failure = None
  BY AnalysisAssumption DEF AnalysisInv, Honest, Founded, ComputedFrom, Running
<1>2. IsList(t) /\ AreEvents(t) /\ ToldEnd(k, t) /\ ToldAnalysis(k, t) /\ ToldApprovals(k, t)
  BY ToldOfCall
<1>3. /\ n.op = k.op /\ n.asked = k.asked /\ n.world = k.world /\ n.outcome = k.outcome
      /\ n.approval = k.approval /\ n.reused = k.reused /\ n.pc = pc /\ n.said = said
      /\ n.superseded = k.superseded /\ n.attachments = k.attachments
  BY DEF Carries
<1>4. k.pc \in Running /\ Quietly(t, v)
  OBVIOUS
<1>5. /\ said >= 3 <=> k.said >= 3
      /\ (said = 4 /\ ~k.reused) <=> (k.said = 4 /\ ~k.reused)
      /\ said # k.said => k.pc = "reporting" /\ (said = 4 => k.approval # None)
      /\ pc = "reporting" => k.pc \in {"claimed", "reporting"}
      /\ pc = "answered" => said >= 3 /\ (k.approval # None => said = 4)
  OBVIOUS
<1> HIDE DEF k, n, t, v
<1>6. ToldEnd(n, v)
  <2>1. pc = "answered" => About(t, Closing) # {}
    <3>1. pc = "answered" => About(t, Evaluated) # {}
      BY <1>2, <1>5 DEF ToldApprovals
    <3> QED
      BY <3>1, DecisionCloses
  <2>2. n.pc \in Running \cup {"dead", "answered"} /\ n.pc \notin Undecided
    BY <1>3 DEF Running, Undecided
  <2>3. pc = "reporting" /\ said < 3 => k.pc \in Undecided \/ (k.pc = "reporting" /\ k.said < 3)
    <3>1. k.said \in 0..4
      BY <1>2 DEF ToldApprovals
    <3> QED
      BY <1>5, <3>1 DEF Undecided
  <2> QED
    BY <1>2, <1>3, <1>4, <2>1, <2>2, <2>3, EndKept DEF Quietly
<1>7. ToldAnalysis(n, v)
  <2>1. n.pc \notin {"idle", "denied", "received"} /\ n.op = "analyze"
    BY <1>1, <1>3
  <2> QED
    BY <1>1, <1>2, <1>3, <1>4, <2>1, AnalysisKept DEF Quietly
<1>8. ToldApprovals(n, v)
  <2>1. /\ k.said > 0 => k.outcome # None /\ k.outcome.failure = None
        /\ k.said = 4 => k.approval # None
        /\ k.said \in 0..4
    BY <1>2 DEF ToldApprovals
  <2>2. /\ said > 0 => n.op = "analyze" /\ n.outcome # None /\ n.outcome.failure = None
        /\ said = 4 => n.approval # None
    BY <1>1, <1>3, <1>5, <2>1
  <2>3. n.pc \notin {"idle", "denied", "received", "failing", "assessed", "claimed", "failed"}
    BY <1>3
  <2>4. n.pc = "answered" => n.said >= 3 /\ (n.approval # None => n.said = 4)
    BY <1>3, <1>5
  <2> QED
    BY <1>2, <1>3, <1>4, <1>5, <2>2, <2>3, <2>4, ApprovalsKept DEF Quietly
<1> QED
  BY <1>4, <1>6, <1>7, <1>8 DEF Told, Quietly, n, v

LEMMA SaveCaseTells ==
    ASSUME AnalysisInv, ToldInv, NEW c \in Calls, SaveCase(c)
    PROVE  Told(call'[c], trail'[c])
<1>1. call[c].pc = "claimed" /\ trail' = trail
  BY DEF SaveCase
<1>2. call[c].said \in 0..4 /\ IsList(trail[c]) /\ AreEvents(trail[c])
  BY ToldOfCall DEF ToldApprovals
<1>3. Quietly(trail[c], trail'[c])
  BY <1>1, <1>2, NothingIsQuiet
<1>4. Carries(call[c], call'[c]) /\ call'[c].pc = "reporting" /\ call'[c].said = call[c].said
  BY SaveCaseMoves DEF MovesTo, Carries
<1> QED
  BY <1>1, <1>2, <1>3, <1>4, QuietlyTells DEF Running

LEMMA NarrateTells ==
    ASSUME AnalysisInv, ToldInv, NEW c \in Calls, Narrate(c)
    PROVE  Told(call'[c], trail'[c])
<1>1. call[c].pc = "reporting" /\ call[c].said = Len(Announcements(call[c]))
  BY DEF Narrate, Reported, Announced
<1>2. /\ call[c].said \in 0..4 /\ call[c].said >= 3
      /\ call[c].approval # None => call[c].said = 4
  BY <1>1, Announcing
<1>3. IsList(trail[c]) /\ AreEvents(trail[c])
  BY ToldOfCall
<1>4. Quietly(trail[c], trail'[c])
  <2>1. CASE trail' = trail
    BY <1>3, <2>1, NothingIsQuiet
  <2>2. CASE Audit(c, Event("NARRATION_SKIPPED", None))
    <3> DEFINE type == "NARRATION_SKIPPED"
    <3>1. Adds(trail'[c], trail[c], type, None) /\ Uncounted(type)
      BY <2>2, WroteAdds, Kinds DEF Uncounted
    <3> HIDE DEF type
    <3> QED
      BY <1>3, <3>1, UncountedIsQuiet
  <2> QED
    BY <2>1, <2>2 DEF Narrate
<1>5. Carries(call[c], call'[c]) /\ call'[c].pc = "answered" /\ call'[c].said = call[c].said
  BY NarrateMoves DEF MovesTo, Carries
<1> QED
  BY <1>1, <1>2, <1>4, <1>5, QuietlyTells DEF Running

\* A call that dies tells what it told.
LEMMA DyingTells ==
    ASSUME AnalysisInv, ToldInv, NEW c \in Calls, call[c].pc \in Running, trail'[c] = trail[c],
           Carries(call[c], call'[c]), call'[c].pc = "dead", call'[c].said = call[c].said
    PROVE  Told(call'[c], trail'[c])
<1>1. call[c].said \in 0..4 /\ IsList(trail[c]) /\ AreEvents(trail[c])
  BY ToldOfCall DEF ToldApprovals
<1>2. Quietly(trail[c], trail'[c])
  BY <1>1, NothingIsQuiet
<1> QED
  BY <1>1, <1>2, QuietlyTells

LEMMA RaiseTells ==
    ASSUME AnalysisInv, ToldInv, NEW c \in Calls, Raise(c)
    PROVE  Told(call'[c], trail'[c])
<1>1. Carries(call[c], call'[c]) /\ call'[c].pc = "dead" /\ call'[c].said = call[c].said
  BY RaiseMoves DEF MovesTo, Carries
<1>2. trail' = trail /\ call[c].pc \in Running
  <2>1. call[c].pc \in Places /\ call[c].pc \notin Ended \cup {"idle"} /\ trail' = trail
    BY DEF Raise, AnalysisInv, CallRec
  <2> QED
    BY <2>1 DEF Places, Running
<1> QED
  BY <1>1, <1>2, DyingTells

LEMMA RestartTells ==
    ASSUME AnalysisInv, ToldInv, NEW c \in Calls, NEW w \in Worlds, Restart(w)
    PROVE  Told(call'[c], trail'[c])
<1> DEFINE next == [call[c] EXCEPT !.pc = "dead"]
           over == call[c].pc \in Ended \cup {"idle"}
<1>1. call[c] \in CallRec /\ Told(call[c], trail[c])
  BY DEF AnalysisInv, ToldInv
<1>2. trail' = trail /\ call'[c] = IF over THEN call[c] ELSE next
  BY DEF Restart
<1>3. Carries(call[c], next) /\ next.pc = "dead" /\ next.said = call[c].said
  BY <1>1 DEF CallRec, Carries
<1>4. ~over => call[c].pc \in Running
  BY <1>1 DEF CallRec, Places, Running
<1> HIDE DEF next, over
<1>5. CASE over
  BY <1>1, <1>2, <1>5
<1>6. CASE ~over
  BY <1>2, <1>3, <1>4, <1>6, DyingTells
<1> QED
  BY <1>5, <1>6

LEMMA ReportSupersededTells ==
    ASSUME AnalysisInv, ToldInv, NEW c \in Calls, ReportSuperseded(c)
    PROVE  Told(call'[c], trail'[c])
<1> DEFINE k == call[c]
           n == call'[c]
           t == trail[c]
           v == trail'[c]
           type == "APPROVAL_SUPERSEDED"
<1>1. k.pc = "reporting" /\ k.op = "analyze"
  BY DEF ReportSuperseded, AnalysisInv, Honest
<1>2. IsList(t) /\ AreEvents(t) /\ ToldEnd(k, t) /\ ToldAnalysis(k, t) /\ ToldApprovals(k, t)
  BY ToldOfCall
<1>3. PICK a \in k.superseded :
         MovesTo(c, "reporting", k.attachments, k.said, k.superseded \ {a}) /\ Audit(c, Event(type, a))
  BY ReportSupersededMoves
<1>4. /\ n.op = k.op /\ n.asked = k.asked /\ n.world = k.world /\ n.outcome = k.outcome
      /\ n.approval = k.approval /\ n.reused = k.reused /\ n.pc = "reporting" /\ n.said = k.said
      /\ n.superseded = k.superseded \ {a} /\ n.attachments = k.attachments
  BY <1>3 DEF MovesTo
<1>5. /\ Adds(v, t, type, a) /\ type \in Superseded /\ type \notin Closing /\ type \notin _DENIED_OR_BLOCKED
      /\ type \notin Evaluated /\ type \notin Quarantined /\ type \notin Requested
  BY <1>3, WroteAdds, Kinds
<1> HIDE DEF k, n, t, v, type
<1>6. /\ IsList(v) /\ AreEvents(v)
      /\ Len(t) >= 1 => Len(v) >= 1 /\ v[1] = t[1]
      /\ Untouched(t, v, Closing) /\ Untouched(t, v, _DENIED_OR_BLOCKED)
      /\ Untouched(t, v, Evaluated) /\ Untouched(t, v, Quarantined) /\ Untouched(t, v, Requested)
  BY <1>2, <1>5, MoreTold
<1>7. ToldEnd(n, v)
  BY <1>1, <1>2, <1>4, <1>6, EndKept DEF Running, Undecided
<1>8. ToldAnalysis(n, v)
  BY <1>1, <1>2, <1>4, <1>6, AnalysisKept DEF Running
<1>9. Distinct(v, Superseded) /\ About(v, Superseded) \cap n.superseded = {}
  <2>1. a \in k.superseded /\ About(t, Superseded) \cap k.superseded = {} /\ Distinct(t, Superseded)
    BY <1>2, <1>3 DEF ToldApprovals
  <2>2. Distinct(v, Superseded) /\ About(v, Superseded) = About(t, Superseded) \cup {a}
    BY <1>2, <1>5, <2>1, OneMoreAbout
  <2> QED
    BY <1>4, <2>1, <2>2
<1>10. ToldApprovals(n, v)
  <2>1. About(v, Evaluated) = About(t, Evaluated) /\ About(v, Requested) = About(t, Requested)
    BY <1>6 DEF Untouched
  <2> QED
    BY <1>1, <1>2, <1>4, <1>9, <2>1 DEF ToldApprovals
<1> QED
  BY <1>6, <1>7, <1>8, <1>10 DEF Told, n, v

\* The decision is announced, and closes the trace.
LEMMA DecisionTells ==
    ASSUME AnalysisInv, ToldInv, NEW c \in Calls, Report(c), call[c].said = 2
    PROVE  Told(call'[c], trail'[c])
<1> DEFINE k == call[c]
           n == call'[c]
           t == trail[c]
           v == trail'[c]
           type == "POLICY_EVALUATED"
           status == k.outcome.case.decision.status
<1>1. k.pc = "reporting" /\ k.op = "analyze" /\ k.outcome # None /\ k.outcome.failure = None /\ k.said = 2
  <2>1. k.pc = "reporting" /\ k.op = "analyze" /\ k.outcome.failure = None /\ k.said = 2 /\ Founded(k)
    BY DEF Report, AnalysisInv, Honest
  <2> HIDE DEF k
  <2> QED
    BY <2>1, AnalysisAssumption DEF Founded, ComputedFrom
<1>2. IsList(t) /\ AreEvents(t) /\ ToldEnd(k, t) /\ ToldAnalysis(k, t) /\ ToldApprovals(k, t)
  BY ToldOfCall
<1>3. /\ n.op = k.op /\ n.asked = k.asked /\ n.world = k.world /\ n.outcome = k.outcome
      /\ n.approval = k.approval /\ n.reused = k.reused /\ n.pc = "reporting" /\ n.said = 3
      /\ n.superseded = k.superseded /\ n.attachments = k.attachments
  BY <1>1, ReportMoves DEF MovesTo
<1>4. Audit(c, Event(type, status))
  <2>1. Audit(c, Announcements(k)[3])
    BY <1>1 DEF Report
  <2> QED
    BY <2>1, Announcing
<1>5. /\ Adds(v, t, type, status) /\ type \in Closing /\ type \in Evaluated /\ type \notin _DENIED_OR_BLOCKED
      /\ type \notin Quarantined /\ type \notin Superseded /\ type \notin Requested
  BY <1>4, WroteAdds, Kinds
<1>6. Verdict(n) = Event(type, status)
  BY <1>1, <1>3 DEF Verdict
<1> HIDE DEF k, n, t, v, type
<1>7. /\ IsList(v) /\ AreEvents(v) /\ Len(v) >= 1
      /\ Len(t) >= 1 => v[1] = t[1]
      /\ Untouched(t, v, Quarantined) /\ Untouched(t, v, _DENIED_OR_BLOCKED)
      /\ Untouched(t, v, Superseded) /\ Untouched(t, v, Requested)
  BY <1>2, <1>5, MoreTold
<1>8. /\ Once(v, Closing)
      /\ \A i \in Positions(v, Closing) : v[i] = Event(type, status)
  <2>1. About(t, Closing) = {}
    BY <1>1, <1>2 DEF ToldEnd
  <2> QED
    BY <1>2, <1>5, <2>1, OneMoreAbout
<1>9. ToldEnd(n, v)
  <2>1. About(v, _DENIED_OR_BLOCKED) = {}
    BY <1>1, <1>2, <1>7 DEF ToldEnd, Untouched
  <2> QED
    BY <1>3, <1>8, <2>1 DEF ToldEnd
<1>10. ToldAnalysis(n, v)
  <2>1. /\ Len(t) >= 1 /\ t[1].type = "REQUEST_RECEIVED" /\ k.world \in Worlds /\ k.attachments = {}
        /\ k.attachments \subseteq Injections(k.world, k.asked.supplier)
        /\ About(t, Quarantined) = Injections(k.world, k.asked.supplier) \ k.attachments
        /\ Distinct(t, Quarantined)
    BY <1>1, <1>2 DEF ToldAnalysis
  <2>2. About(v, Quarantined) = About(t, Quarantined) /\ Distinct(v, Quarantined)
    BY <1>7, <2>1 DEF Untouched
  <2> QED
    BY <1>1, <1>3, <1>6, <1>7, <1>8, <2>1, <2>2 DEF ToldAnalysis
<1>11. ToldApprovals(n, v)
  <2>1. /\ About(t, Evaluated) = {} /\ About(t, Requested) = {}
        /\ Distinct(t, Superseded) /\ About(t, Superseded) \cap k.superseded = {}
    BY <1>1, <1>2 DEF ToldApprovals
  <2>2. About(v, Evaluated) = {status}
    <3>1. About(v, Evaluated) = About(t, Evaluated) \cup {status}
      BY <1>2, <1>5, OneMoreAbout
    <3> QED
      BY <2>1, <3>1
  <2>3. About(v, Requested) = {} /\ About(v, Superseded) = About(t, Superseded) /\ Distinct(v, Superseded)
    BY <1>7, <2>1 DEF Untouched
  <2>4. n.outcome.case.decision.status = status
    BY <1>3
  <2> HIDE DEF status
  <2> QED
    BY <1>1, <1>3, <2>1, <2>2, <2>3, <2>4 DEF ToldApprovals
<1> QED
  BY <1>7, <1>9, <1>10, <1>11 DEF Told, n, v

\* A new approval is announced.
LEMMA RequestTells ==
    ASSUME AnalysisInv, ToldInv, NEW c \in Calls, Report(c), call[c].said = 3, ~call[c].reused
    PROVE  Told(call'[c], trail'[c])
<1> DEFINE k == call[c]
           n == call'[c]
           t == trail[c]
           v == trail'[c]
           type == "APPROVAL_REQUESTED"
           own == k.approval
<1>1. k.pc = "reporting" /\ k.op = "analyze" /\ k.outcome.failure = None /\ k.said = 3 /\ ~k.reused
  BY DEF Report, AnalysisInv, Honest
<1>2. IsList(t) /\ AreEvents(t) /\ ToldEnd(k, t) /\ ToldAnalysis(k, t) /\ ToldApprovals(k, t)
  BY ToldOfCall
<1>3. /\ n.op = k.op /\ n.asked = k.asked /\ n.world = k.world /\ n.outcome = k.outcome
      /\ n.approval = k.approval /\ n.reused = k.reused /\ n.pc = "reporting" /\ n.said = 4
      /\ n.superseded = k.superseded /\ n.attachments = k.attachments /\ own # None
  BY <1>1, ReportMoves DEF MovesTo
<1>4. Audit(c, Event(type, own))
  <2>1. Audit(c, Announcements(k)[4])
    BY <1>1 DEF Report
  <2> QED
    BY <1>1, <1>3, <2>1, Announcing
<1>5. /\ Adds(v, t, type, own) /\ type \in Requested /\ type \notin Closing /\ type \notin Evaluated
      /\ type \notin _DENIED_OR_BLOCKED /\ type \notin Quarantined /\ type \notin Superseded
  BY <1>4, WroteAdds, Kinds
<1> HIDE DEF k, n, t, v, type
<1>6. /\ IsList(v) /\ AreEvents(v)
      /\ Len(t) >= 1 => Len(v) >= 1 /\ v[1] = t[1]
      /\ Untouched(t, v, Closing) /\ Untouched(t, v, _DENIED_OR_BLOCKED)
      /\ Untouched(t, v, Evaluated) /\ Untouched(t, v, Quarantined) /\ Untouched(t, v, Superseded)
  BY <1>2, <1>5, MoreTold
<1>7. ToldEnd(n, v)
  BY <1>1, <1>2, <1>3, <1>6, EndKept DEF Running, Undecided
<1>8. ToldAnalysis(n, v)
  BY <1>1, <1>2, <1>3, <1>6, AnalysisKept DEF Running
<1>9. ToldApprovals(n, v)
  <2>1. /\ About(t, Evaluated) = {k.outcome.case.decision.status} /\ About(t, Requested) = {}
        /\ Distinct(t, Superseded) /\ About(t, Superseded) \cap k.superseded = {} /\ k.outcome # None
    BY <1>1, <1>2 DEF ToldApprovals
  <2>2. About(v, Requested) = {own}
    <3>1. About(v, Requested) = About(t, Requested) \cup {own}
      BY <1>2, <1>5, OneMoreAbout
    <3> QED
      BY <2>1, <3>1
  <2>3. /\ About(v, Evaluated) = {n.outcome.case.decision.status}
        /\ About(v, Superseded) = About(t, Superseded) /\ Distinct(v, Superseded)
    BY <1>3, <1>6, <2>1 DEF Untouched
  <2> QED
    BY <1>1, <1>3, <2>1, <2>2, <2>3 DEF ToldApprovals
<1> QED
  BY <1>6, <1>7, <1>8, <1>9 DEF Told, n, v

LEMMA ReportTells ==
    ASSUME AnalysisInv, ToldInv, NEW c \in Calls, Report(c)
    PROVE  Told(call'[c], trail'[c])
<1> DEFINE n == call[c].said + 1
           case == call[c].outcome.case
<1>1. /\ call[c].said \in Nat /\ n \in 1..4 /\ call[c].pc = "reporting" /\ (n = 4 => call[c].approval # None)
      /\ Audit(c, Announcements(call[c])[n])
  <2>1. call[c].said \in 0..4
    BY DEF AnalysisInv, CallRec
  <2>2. n \in 1..4 /\ (n = 4 => call[c].approval # None)
    BY ReportMoves
  <2>3. call[c].pc = "reporting" /\ Audit(c, Announcements(call[c])[n])
    BY DEF Report
  <2> QED
    BY <2>1, <2>2, <2>3
<1>2. Carries(call[c], call'[c]) /\ call'[c].pc = "reporting" /\ call'[c].said = n
  BY ReportMoves DEF MovesTo, Carries
<1>3. ASSUME NEW type, NEW about, Uncounted(type), Announcements(call[c])[n] = Event(type, about),
             n # 3, n = 4 => call[c].reused
      PROVE  Told(call'[c], trail'[c])
  <2>1. IsList(trail[c]) /\ AreEvents(trail[c])
    BY ToldOfCall
  <2>2. Quietly(trail[c], trail'[c])
    <3>1. Adds(trail'[c], trail[c], type, about)
      BY <1>1, <1>3, WroteAdds
    <3> QED
      BY <1>3, <2>1, <3>1, UncountedIsQuiet
  <2>3. call[c].pc \in Running
    BY <1>1 DEF Running
  <2>4. /\ n >= 3 <=> call[c].said >= 3
        /\ (n = 4 /\ ~call[c].reused) <=> (call[c].said = 4 /\ ~call[c].reused)
        /\ n \in 0..4
    BY <1>1, <1>3
  <2> HIDE DEF n
  <2> QED
    BY <1>1, <1>2, <2>2, <2>3, <2>4, QuietlyTells
<1>4. CASE n = 1
  <2> DEFINE type == "POLICY_RETRIEVED"
  <2>1. Announcements(call[c])[n] = Event(type, case.citations) /\ Uncounted(type)
    BY <1>4, Announcing, Kinds DEF Uncounted
  <2> HIDE DEF type
  <2> QED
    BY <1>3, <1>4, <2>1
<1>5. CASE n = 2
  <2> DEFINE type == "PURCHASE_ANALYZED"
  <2>1. Announcements(call[c])[n] = Event(type, case.analysis) /\ Uncounted(type)
    BY <1>5, Announcing, Kinds DEF Uncounted
  <2> HIDE DEF type
  <2> QED
    BY <1>3, <1>5, <2>1
<1>6. CASE n = 3
  BY <1>1, <1>6, DecisionTells
<1>7. CASE n = 4 /\ call[c].reused
  <2> DEFINE type == "APPROVAL_REUSED"
  <2>1. Announcements(call[c])[n] = Event(type, call[c].approval) /\ Uncounted(type)
    BY <1>1, <1>7, Announcing, Kinds DEF Uncounted
  <2> HIDE DEF type
  <2> QED
    BY <1>3, <1>7, <2>1
<1>8. CASE n = 4 /\ ~call[c].reused
  BY <1>1, <1>8, RequestTells
<1> QED
  BY <1>1, <1>4, <1>5, <1>6, <1>7, <1>8

\* A call that writes nothing and does nothing tells what it told.
LEMMA ToldStep == AnalysisInv /\ ToldInv /\ [AnalysisNext]_analysisVars => ToldInv'
<1> SUFFICES ASSUME AnalysisInv, ToldInv, [AnalysisNext]_analysisVars, NEW c \in Calls
             PROVE  Told(call'[c], trail'[c])
  BY DEF ToldInv
<1>1. Told(call[c], trail[c]) /\ DOMAIN call = Calls
  BY DEF ToldInv, AnalysisInv
<1>2. ASSUME NEW d \in Calls, NEW next, call' = [call EXCEPT ![d] = next], d # c,
             \E event : Audit(d, event)
      PROVE  Told(call'[c], trail'[c])
  BY <1>1, <1>2, WroteOwn
<1>3. ASSUME NEW d \in Calls, NEW role \in Roles, NEW op \in {"analyze", "intake", "ask"}, Deny(d, op, role)
      PROVE  Told(call'[c], trail'[c])
  <2>1. \E next : call' = [call EXCEPT ![d] = next]
    BY <1>3 DEF Deny
  <2>2. \E event : Audit(d, event)
    BY <1>3 DEF Deny
  <2> QED
    BY <1>2, <1>3, <2>1, <2>2, DenyTells
<1>4. ASSUME NEW d \in Calls, NEW role \in Roles, NEW q \in Inputs, Receive(d, role, q)
      PROVE  Told(call'[c], trail'[c])
  <2>1. \E next : call' = [call EXCEPT ![d] = next]
    BY <1>4 DEF Receive
  <2>2. \E event : Audit(d, event)
    BY <1>4 DEF Receive
  <2> QED
    BY <1>2, <1>4, <2>1, <2>2, ReceiveTells
<1>5. ASSUME NEW d \in Calls, NEW role \in Roles, Intake(d, role)
      PROVE  Told(call'[c], trail'[c])
  <2>1. \E next : call' = [call EXCEPT ![d] = next]
    BY <1>5 DEF Intake, IntakeDrafted, IntakeFails
  <2>2. \E event : Audit(d, event)
    BY <1>5 DEF Intake, IntakeDrafted, IntakeFails
  <2> QED
    BY <1>2, <1>5, <2>1, <2>2, IntakeTells
<1>6. ASSUME NEW d \in Calls, NEW role \in Roles, NEW date \in {q.date : q \in Inputs}, Ask(d, role, date)
      PROVE  Told(call'[c], trail'[c])
  <2>1. \E next : call' = [call EXCEPT ![d] = next]
    BY <1>6 DEF Ask, AskFails, AskAnswered
  <2>2. \E event : Audit(d, event)
    BY <1>6 DEF Ask, AskFails, AskAnswered
  <2> QED
    BY <1>2, <1>6, <2>1, <2>2, AskTells
<1>7. ASSUME NEW d \in Calls, d # c,
             \/ Quarantine(d)
             \/ Assess(d)
             \/ Fail(d)
             \/ Claim(d)
             \/ SaveCase(d)
             \/ Report(d)
             \/ ReportSuperseded(d)
             \/ Narrate(d)
             \/ Raise(d)
      PROVE  call'[c] = call[c] /\ trail'[c] = trail[c]
  <2>1. call'[c] = call[c]
    BY <1>1, <1>7
       DEF Quarantine, Assess, Fail, Claim, SaveCase, Report, ReportSuperseded, Narrate, Raise
  <2>2. trail' = trail \/ \E event : Audit(d, event)
    BY <1>7 DEF Quarantine, Assess, Fail, Claim, SaveCase, Report, ReportSuperseded, Narrate, Raise
  <2> QED
    BY <1>7, <2>1, <2>2, WroteOwn
<1>8. ASSUME \/ Quarantine(c)
             \/ Assess(c)
             \/ Fail(c)
             \/ Claim(c)
             \/ SaveCase(c)
             \/ Report(c)
             \/ ReportSuperseded(c)
             \/ Narrate(c)
             \/ Raise(c)
      PROVE  Told(call'[c], trail'[c])
  BY <1>8, QuarantineTells, AssessTells, FailTells, ClaimTells, SaveCaseTells, ReportTells,
     ReportSupersededTells, NarrateTells, RaiseTells
<1>9. ASSUME NEW i \in DOMAIN approvals, Lapse(i) PROVE call' = call /\ trail' = trail
  BY <1>9 DEF Lapse
<1>10. ASSUME NEW w \in Worlds, Restart(w) PROVE Told(call'[c], trail'[c])
  BY <1>10, RestartTells
<1>11. CASE UNCHANGED analysisVars
  BY <1>1, <1>11 DEF analysisVars
<1> QED
  BY <1>1, <1>3, <1>4, <1>5, <1>6, <1>7, <1>8, <1>9, <1>10, <1>11 DEF AnalysisNext

-----------------------------------------------------------------------------
(* Who opened and who superseded an approval                               *)

\* No call is handed another approval or ends one that it had not ended.
LEMMA OwnersKeep ==
    ASSUME OwnersInv,
           \A c \in Calls : \/ call'[c].approval = call[c].approval /\ call'[c].reused = call[c].reused
                            \/ call'[c].approval = None,
           \A c \in Calls : Gone(c)' \subseteq Gone(c),
           DOMAIN approvals \subseteq DOMAIN approvals',
           \A a \in DOMAIN approvals : ~approvals[a].live => ~approvals'[a].live
    PROVE  OwnersInv'
<1>1. \A c \in {e \in Calls : call'[e].approval # None /\ ~call'[e].reused} :
         call'[c].approval = call[c].approval /\ call[c].approval # None /\ ~call[c].reused
  OBVIOUS
<1>2. \A c, d \in {e \in Calls : call'[e].approval # None /\ ~call'[e].reused} :
         call'[c].approval = call'[d].approval => c = d
  BY <1>1 DEF OwnersInv
<1>3. \A c, d \in Calls : Gone(c)' \cap Gone(d)' # {} => c = d
  BY DEF OwnersInv
<1>4. \A c \in Calls : \A a \in Gone(c)' : a \in DOMAIN approvals' /\ ~approvals'[a].live
  BY DEF OwnersInv
<1> QED
  BY <1>2, <1>3, <1>4 DEF OwnersInv

\* The step of one call that supersedes nothing and reports nothing of the kind.
LEMMA OwnersQuiet ==
    ASSUME AnalysisInv, ToldInv, OwnersInv, NEW d \in Calls,
           \A c \in Calls \ {d} : call'[c] = call[c],
           \/ /\ call'[d].approval = call[d].approval /\ call'[d].reused = call[d].reused
              /\ call'[d].superseded = call[d].superseded
           \/ call'[d].approval = None /\ call'[d].superseded = {},
           \/ trail' = trail
           \/ \E type, about : type \notin Superseded /\ Audit(d, Event(type, about)),
           DOMAIN approvals' = DOMAIN approvals,
           \A a \in DOMAIN approvals : ~approvals[a].live => ~approvals'[a].live
    PROVE  OwnersInv'
<1>1. \A c \in Calls : About(trail'[c], Superseded) = About(trail[c], Superseded)
  <2>1. ASSUME NEW type, NEW about, type \notin Superseded, Audit(d, Event(type, about))
        PROVE  \A c \in Calls : About(trail'[c], Superseded) = About(trail[c], Superseded)
    <3>1. \A c \in Calls \ {d} : trail'[c] = trail[c]
      BY <2>1, WroteOwn
    <3>2. Adds(trail'[d], trail[d], type, about) /\ IsList(trail[d])
      BY <2>1, WroteAdds, ToldOfCall
    <3>3. Untouched(trail[d], trail'[d], Superseded)
      BY <2>1, <3>2, OtherKind
    <3> QED
      BY <3>1, <3>3 DEF Untouched
  <2> QED
    BY <2>1
<1>2. \A c \in Calls : call'[c].superseded \subseteq call[c].superseded
  OBVIOUS
<1>3. \A c \in Calls : Gone(c)' \subseteq Gone(c)
  BY <1>1, <1>2 DEF Gone
<1> QED
  BY <1>3, OwnersKeep

LEMMA ClaimOwns ==
    ASSUME AnalysisInv, ToldInv, OwnersInv, NEW c \in Calls, Claim(c)
    PROVE  OwnersInv'
<1> DEFINE case == call[c].outcome.case
           live == LiveOf(case.request.id)
           covering == {i \in live : approvals[i].fingerprint = Fingerprint(case)}
           needed == case.decision.status = "CONDITIONAL_REVIEW"
           kept == IF needed THEN covering ELSE {}
           rec == [request |-> case.request.id, fingerprint |-> Fingerprint(case),
                   live |-> TRUE, case |-> None]
           opened == IF needed /\ kept = {} THEN <<rec>> ELSE <<>>
           ended == [i \in DOMAIN approvals |->
                       [approvals[i] EXCEPT !.live = @ /\ i \notin live \ kept]]
           handed == IF ~needed THEN None
                     ELSE IF kept # {} THEN CHOOSE i \in kept : TRUE ELSE Len(approvals) + 1
           reused == kept # {}
           superseded == live \ kept
           place == IF opened # <<>> THEN "claimed" ELSE "reporting"
           next == [call[c] EXCEPT !.pc = place, !.approval = handed, !.reused = reused,
                                   !.superseded = superseded]
<1>1. call[c] \in CallRec /\ approvals' = ended \o opened /\ call' = [call EXCEPT ![c] = next]
      /\ trail' = trail /\ call[c].pc = "assessed"
  BY DEF Claim, AnalysisInv
<1>2. /\ Len(approvals) \in Nat /\ DOMAIN approvals = 1..Len(approvals)
      /\ \A a \in DOMAIN approvals : approvals[a] \in ApprovalRec
  BY Indices DEF AnalysisInv, ApprovalsInv
<1>3. superseded \subseteq DOMAIN approvals /\ \A a \in superseded : approvals[a].live
  BY DEF LiveOf
<1>4. handed # None /\ ~reused => handed = Len(approvals) + 1
  OBVIOUS
<1> HIDE DEF live, needed, kept, rec, handed, reused, place
<1>5. \A a \in DOMAIN approvals : /\ a \in DOMAIN approvals' /\ approvals'[a] = ended[a]
  <2> DEFINE S == {ended[i] : i \in DOMAIN approvals} \cup {rec}
  <2>1. ended \in [1..Len(approvals) -> S] /\ rec \in S /\ DOMAIN ended = DOMAIN approvals
    BY <1>2
  <2>2. opened = <<rec>> \/ opened = <<>>
    OBVIOUS
  <2> HIDE DEF S, ended, opened
  <2>3. ended \in Seq(S) /\ Len(ended) = Len(approvals)
    <3>1. ended \in Seq(S)
      BY <1>2, <2>1, SeqDef
    <3> QED
      BY <1>2, <2>1, <3>1, LenProperties
  <2>4. opened \in Seq(S) /\ Len(opened) \in Nat
    <3>1. CASE opened = <<rec>>
      BY <2>1, <3>1
    <3>2. CASE opened = <<>>
      BY <3>2
    <3> QED
      BY <2>2, <3>1, <3>2
  <2>5. /\ approvals' \in Seq(S) /\ Len(approvals') = Len(approvals) + Len(opened)
        /\ \A i \in 1..(Len(approvals) + Len(opened)) :
              approvals'[i] = IF i <= Len(approvals) THEN ended[i] ELSE opened[i - Len(approvals)]
    <3>1. approvals' = ended \o opened
      BY <1>1
    <3> DEFINE v == approvals'
    <3>2. v = ended \o opened
      BY <3>1
    <3> HIDE DEF v
    <3>3. v \in Seq(S) /\ Len(v) = Len(approvals) + Len(opened)
      <4>1. ended \o opened \in Seq(S) /\ Len(ended \o opened) = Len(ended) + Len(opened)
        BY <2>3, <2>4, ConcatProperties
      <4> QED
        BY <2>3, <3>2, <4>1
    <3>4. \A i \in 1..(Len(approvals) + Len(opened)) :
             v[i] = IF i <= Len(approvals) THEN ended[i] ELSE opened[i - Len(approvals)]
      BY <2>3, <2>4, <3>2, ConcatProperties
    <3> QED
      BY <3>3, <3>4 DEF v
  <2>6. DOMAIN approvals' = 1..(Len(approvals) + Len(opened))
    BY <2>5, LenProperties
  <2> QED
    BY <1>2, <2>4, <2>5, <2>6
<1>6. \A a \in DOMAIN approvals : approvals'[a].live = (approvals[a].live /\ a \notin superseded)
  <2>1. ASSUME NEW a \in DOMAIN approvals
        PROVE  ended[a].live = (approvals[a].live /\ a \notin superseded)
    <3>1. approvals[a] \in ApprovalRec
      BY <1>2
    <3>2. ended[a] = [approvals[a] EXCEPT !.live = @ /\ a \notin superseded]
      OBVIOUS
    <3> HIDE DEF ended, superseded
    <3> QED
      BY <3>1, <3>2 DEF ApprovalRec
  <2> HIDE DEF ended, superseded
  <2> QED
    BY <1>5, <2>1
<1> HIDE DEF superseded, ended, opened
<1>7. next.approval = handed /\ next.reused = reused /\ next.superseded = superseded
  BY <1>1 DEF CallRec
<1> HIDE DEF next
<1>8. call'[c] = next /\ \A d \in Calls \ {c} : call'[d] = call[d]
  BY <1>1 DEF AnalysisInv
<1>9. \A d \in Calls : call[d].approval \in DOMAIN approvals \cup {None}
  BY DEF AnalysisInv, Honest
<1>10. Len(approvals) + 1 \notin DOMAIN approvals
  BY <1>2
<1>11. ASSUME NEW d \in Calls, NEW e \in Calls, call'[d].approval # None, ~call'[d].reused,
              ~call'[e].reused, call'[d].approval = call'[e].approval
       PROVE  d = e
  <2>1. CASE d # c /\ e # c
    BY <1>8, <1>11, <2>1 DEF OwnersInv
  <2>2. CASE d = c /\ e # c
    BY <1>4, <1>7, <1>8, <1>9, <1>10, <1>11, <2>2
  <2>3. CASE d # c /\ e = c
    BY <1>4, <1>7, <1>8, <1>9, <1>10, <1>11, <2>3
  <2> QED
    BY <2>1, <2>2, <2>3
<1>12. Gone(c)' = superseded /\ \A d \in Calls \ {c} : Gone(d)' = Gone(d)
  <2>1. About(trail[c], Superseded) = {}
    BY <1>1, ToldOfCall DEF ToldApprovals
  <2> QED
    BY <1>1, <1>7, <1>8, <2>1 DEF Gone
<1>13. \A d \in Calls : superseded \cap Gone(d) = {}
  BY <1>3 DEF OwnersInv
<1>14. \A d, e \in Calls : Gone(d)' \cap Gone(e)' # {} => d = e
  <2> SUFFICES ASSUME NEW d \in Calls, NEW e \in Calls, d # e PROVE Gone(d)' \cap Gone(e)' = {}
    OBVIOUS
  <2>1. CASE d = c
    BY <1>12, <1>13, <2>1
  <2>2. CASE e = c
    BY <1>12, <1>13, <2>2
  <2>3. CASE d # c /\ e # c
    BY <1>12, <2>3 DEF OwnersInv
  <2> QED
    BY <2>1, <2>2, <2>3
<1>15. ASSUME NEW d \in Calls, NEW a \in Gone(d)'
       PROVE  a \in DOMAIN approvals' /\ ~approvals'[a].live
  <2>1. a \in DOMAIN approvals
    BY <1>3, <1>12, <1>15 DEF OwnersInv
  <2>2. ~approvals[a].live \/ a \in superseded
    BY <1>12, <1>15 DEF OwnersInv
  <2> QED
    BY <1>5, <1>6, <2>1, <2>2
<1> QED
  BY <1>11, <1>14, <1>15 DEF OwnersInv

LEMMA ReportSupersededOwns ==
    ASSUME AnalysisInv, ToldInv, OwnersInv, NEW c \in Calls, ReportSuperseded(c)
    PROVE  OwnersInv'
<1> DEFINE type == "APPROVAL_SUPERSEDED"
<1>1. PICK a \in call[c].superseded :
         /\ MovesTo(c, "reporting", call[c].attachments, call[c].said, call[c].superseded \ {a})
         /\ Audit(c, Event(type, a))
  BY ReportSupersededMoves
<1>2. Adds(trail'[c], trail[c], type, a) /\ type \in Superseded /\ IsList(trail[c])
  BY <1>1, WroteAdds, Kinds, ToldOfCall
<1>3. \A d \in Calls \ {c} : trail'[d] = trail[d] /\ call'[d] = call[d]
  BY <1>1, WroteOwn DEF MovesTo
<1> HIDE DEF type
<1>4. About(trail'[c], Superseded) = About(trail[c], Superseded) \cup {a}
  BY <1>2, OneMoreAbout
<1>5. /\ call'[c].superseded = call[c].superseded \ {a}
      /\ call'[c].approval = call[c].approval /\ call'[c].reused = call[c].reused
  BY <1>1 DEF MovesTo
<1>6. \A d \in Calls : Gone(d)' \subseteq Gone(d)
  BY <1>3, <1>4, <1>5 DEF Gone
<1>7. approvals' = approvals
  BY DEF ReportSuperseded
<1> QED
  BY <1>3, <1>5, <1>6, <1>7, OwnersKeep

LEMMA OwnersStep == AnalysisInv /\ ToldInv /\ OwnersInv /\ [AnalysisNext]_analysisVars => OwnersInv'
<1> SUFFICES ASSUME AnalysisInv, ToldInv, OwnersInv, [AnalysisNext]_analysisVars PROVE OwnersInv'
  OBVIOUS
<1> DEFINE Same(k, next) == /\ next.approval = k.approval /\ next.reused = k.reused
                            /\ next.superseded = k.superseded
           New(next) == next.approval = None /\ next.superseded = {}
           Quiet(d) == \/ trail' = trail
                       \/ \E type, about : type \notin Superseded /\ Audit(d, Event(type, about))
<1>1. \A c \in Calls : call[c] \in CallRec
  BY DEF AnalysisInv
<1>2. ASSUME NEW d \in Calls, NEW next, call' = [call EXCEPT ![d] = next],
             Same(call[d], next) \/ New(next), Quiet(d), approvals' = approvals
      PROVE  OwnersInv'
  <2>1. call'[d] = next /\ \A c \in Calls \ {d} : call'[c] = call[c]
    BY <1>2 DEF AnalysisInv
  <2> QED
    BY <1>2, <2>1, OwnersQuiet
<1>3. ASSUME NEW d \in Calls, NEW role \in Roles, NEW op, Deny(d, op, role) PROVE OwnersInv'
  <2> DEFINE next == [Idle EXCEPT !.op = op, !.role = role, !.pc = "denied"]
  <2>1. New(next)
    BY DEF Idle
  <2>2. call' = [call EXCEPT ![d] = next] /\ approvals' = approvals /\ Quiet(d)
    BY <1>3, Kinds DEF Deny
  <2> HIDE DEF next, Quiet
  <2> QED
    BY <1>2, <2>1, <2>2
<1>4. ASSUME NEW d \in Calls, NEW role \in Roles, NEW q \in Inputs, Receive(d, role, q) PROVE OwnersInv'
  <2> DEFINE next == [Idle EXCEPT !.op = "analyze", !.role = role, !.asked = q,
                                  !.pc = "received", !.world = world,
                                  !.attachments = Injections(world, q.supplier)]
  <2>1. New(next)
    BY DEF Idle
  <2>2. call' = [call EXCEPT ![d] = next] /\ approvals' = approvals /\ Quiet(d)
    BY <1>4, Kinds DEF Receive
  <2> HIDE DEF next, Quiet
  <2> QED
    BY <1>2, <2>1, <2>2
<1>5. ASSUME NEW d \in Calls, NEW role \in Roles, Intake(d, role) PROVE OwnersInv'
  <2>1. CASE IntakeDrafted(d, role)
    <3> DEFINE next == [Idle EXCEPT !.op = "intake", !.role = role, !.pc = "answered"]
    <3>1. New(next)
      BY DEF Idle
    <3>2. call' = [call EXCEPT ![d] = next] /\ approvals' = approvals /\ Quiet(d)
      BY <2>1, Kinds DEF IntakeDrafted
    <3> HIDE DEF next, Quiet
    <3> QED
      BY <1>2, <3>1, <3>2
  <2>2. ASSUME NEW code, IntakeFails(d, role, code) PROVE OwnersInv'
    <3> DEFINE next == [Idle EXCEPT !.op = "intake", !.role = role, !.pc = "failed",
                                    !.outcome = [failure |-> code, case |-> None]]
    <3>1. New(next)
      BY DEF Idle
    <3>2. call' = [call EXCEPT ![d] = next] /\ approvals' = approvals /\ Quiet(d)
      BY <2>2, Kinds DEF IntakeFails
    <3> HIDE DEF next, Quiet
    <3> QED
      BY <1>2, <3>1, <3>2
  <2> QED
    BY <1>5, <2>1, <2>2 DEF Intake
<1>6. ASSUME NEW d \in Calls, NEW role \in Roles, NEW date, Ask(d, role, date) PROVE OwnersInv'
  <2>1. CASE AskFails(d, role, date)
    <3> DEFINE next == [Idle EXCEPT !.op = "ask", !.role = role, !.asked = date,
                           !.world = world, !.pc = "failed",
                           !.outcome = [failure |-> "APPLICABLE_POLICY_NOT_FOUND", case |-> None]]
    <3>1. New(next)
      BY DEF Idle
    <3>2. call' = [call EXCEPT ![d] = next] /\ approvals' = approvals /\ Quiet(d)
      BY <2>1, Kinds DEF AskFails
    <3> HIDE DEF next, Quiet
    <3> QED
      BY <1>2, <3>1, <3>2
  <2>2. ASSUME NEW mode, AskAnswered(d, role, date, mode) PROVE OwnersInv'
    <3> DEFINE answered(top) == [Idle EXCEPT !.op = "ask", !.role = role, !.asked = date,
                                   !.world = world, !.pc = "answered", !.shown = top]
    <3>1. PICK top : call' = [call EXCEPT ![d] = answered(top)]
      BY <2>2 DEF AskAnswered
    <3> DEFINE next == answered(top)
    <3>2. New(next)
      BY DEF Idle
    <3>3. call' = [call EXCEPT ![d] = next] /\ approvals' = approvals
      BY <2>2, <3>1 DEF AskAnswered
    <3>4. Quiet(d)
      BY <2>2, Kinds DEF AskAnswered
    <3> HIDE DEF next, Quiet
    <3> QED
      BY <1>2, <3>2, <3>3, <3>4
  <2> QED
    BY <1>6, <2>1, <2>2 DEF Ask
<1>7. ASSUME NEW d \in Calls, Assess(d) PROVE OwnersInv'
  <2> DEFINE outcome == Outcome(world, call[d].asked, call[d].role)
             place == IF outcome.failure # None THEN "failing" ELSE "assessed"
             next == [call[d] EXCEPT !.outcome = outcome, !.pc = place]
  <2>1. call' = [call EXCEPT ![d] = next] /\ approvals' = approvals /\ Quiet(d)
    BY <1>7 DEF Assess
  <2> HIDE DEF outcome, place
  <2>2. Same(call[d], next)
    BY <1>1 DEF CallRec
  <2> HIDE DEF next, Quiet
  <2> QED
    BY <1>2, <2>1, <2>2
<1>8. ASSUME NEW d \in Calls, NEW pc, NEW attachments, NEW said,
             MovesTo(d, pc, attachments, said, call[d].superseded), Quiet(d),
             DOMAIN approvals' = DOMAIN approvals,
             \A a \in DOMAIN approvals : ~approvals[a].live => ~approvals'[a].live
      PROVE  OwnersInv'
  <2>1. Same(call[d], call'[d]) /\ \A c \in Calls \ {d} : call'[c] = call[c]
    BY <1>8 DEF MovesTo
  <2> QED
    BY <1>8, <2>1, OwnersQuiet
<1>9. ASSUME NEW d \in Calls, Quarantine(d) PROVE OwnersInv'
  <2>1. PICK m \in call[d].attachments :
           /\ MovesTo(d, "received", call[d].attachments \ {m}, call[d].said, call[d].superseded)
           /\ Audit(d, Event("SECURITY_CONTENT_QUARANTINED", m))
    BY <1>9, QuarantineMoves
  <2>2. approvals' = approvals /\ Quiet(d)
    BY <1>9, <2>1, Kinds DEF Quarantine
  <2> HIDE DEF Quiet
  <2> QED
    BY <1>8, <2>1, <2>2
<1>10. ASSUME NEW d \in Calls, Fail(d) \/ Narrate(d) \/ Raise(d) PROVE OwnersInv'
  <2>1. Quiet(d) /\ approvals' = approvals
    BY <1>10, Kinds DEF Fail, Narrate, Raise
  <2> HIDE DEF Quiet
  <2> QED
    BY <1>8, <1>10, <2>1, FailMoves, NarrateMoves, RaiseMoves
<1>11. ASSUME NEW d \in Calls, Report(d) PROVE OwnersInv'
  <2> DEFINE n == call[d].said + 1
  <2>1. Audit(d, Announcements(call[d])[n]) /\ n \in 1..4 /\ (n = 4 => call[d].approval # None)
    <3>1. Audit(d, Announcements(call[d])[n])
      BY <1>11 DEF Report
    <3> QED
      BY <1>11, <3>1, ReportMoves
  <2>2. \E type, about : type \notin Superseded /\ Announcements(call[d])[n] = Event(type, about)
    <3>1. n = 1 \/ n = 2 \/ n = 3 \/ (n = 4 /\ call[d].approval # None)
      BY <2>1
    <3> HIDE DEF n
    <3> QED
      BY <3>1, Announcing, Kinds
  <2>3. Quiet(d) /\ approvals' = approvals
    BY <1>11, <2>1, <2>2 DEF Report
  <2>4. MovesTo(d, "reporting", call[d].attachments, n, call[d].superseded)
    BY <1>11, ReportMoves
  <2> HIDE DEF Quiet, n
  <2> QED
    BY <1>8, <2>3, <2>4
<1>12. ASSUME NEW d \in Calls, SaveCase(d) PROVE OwnersInv'
  <2> DEFINE own == call[d].approval
             case == call[d].outcome.case
  <2>1. approvals' = [approvals EXCEPT ![own].case = case] /\ Quiet(d)
    BY <1>12 DEF SaveCase
  <2> HIDE DEF own, case, Quiet
  <2>2. ASSUME NEW a \in DOMAIN approvals PROVE approvals'[a].live = approvals[a].live
    <3>1. approvals[a] \in ApprovalRec
      BY Indices DEF AnalysisInv, ApprovalsInv
    <3> QED
      BY <2>1, <3>1 DEF ApprovalRec
  <2>3. DOMAIN approvals' = DOMAIN approvals
    BY <2>1
  <2> QED
    BY <1>8, <1>12, <2>1, <2>2, <2>3, SaveCaseMoves
<1>13. ASSUME NEW i \in DOMAIN approvals, Lapse(i) PROVE OwnersInv'
  <2>1. call' = call /\ trail' = trail /\ approvals' = [approvals EXCEPT ![i].live = FALSE]
    BY <1>13 DEF Lapse
  <2>2. ASSUME NEW a \in DOMAIN approvals, ~approvals[a].live PROVE ~approvals'[a].live
    <3>1. approvals[a] \in ApprovalRec
      BY Indices DEF AnalysisInv, ApprovalsInv
    <3> QED
      BY <2>1, <2>2, <3>1 DEF ApprovalRec
  <2>3. \A c \in Calls : Gone(c)' = Gone(c)
    BY <2>1 DEF Gone
  <2> QED
    BY <2>1, <2>2, <2>3, OwnersKeep
<1>14. ASSUME NEW w \in Worlds, Restart(w) PROVE OwnersInv'
  <2>1. ASSUME NEW c \in Calls PROVE Same(call[c], call'[c])
    <3> DEFINE next == [call[c] EXCEPT !.pc = "dead"]
    <3>1. call'[c] = call[c] \/ call'[c] = next
      BY <1>14 DEF Restart
    <3>2. Same(call[c], next)
      BY <1>1 DEF CallRec
    <3> HIDE DEF next
    <3> QED
      BY <3>1, <3>2
  <2>2. approvals' = approvals /\ trail' = trail
    BY <1>14 DEF Restart
  <2>3. \A c \in Calls : Gone(c)' = Gone(c)
    BY <2>1, <2>2 DEF Gone
  <2> QED
    BY <2>1, <2>2, <2>3, OwnersKeep
<1>15. CASE UNCHANGED analysisVars
  <2>1. call' = call /\ trail' = trail /\ approvals' = approvals
    BY <1>15 DEF analysisVars
  <2>2. \A c \in Calls : Gone(c)' = Gone(c)
    BY <2>1 DEF Gone
  <2> QED
    BY <2>1, <2>2, OwnersKeep
<1> QED
  BY <1>3, <1>4, <1>5, <1>6, <1>7, <1>9, <1>10, <1>11, <1>12, <1>13, <1>14, <1>15, ClaimOwns,
     ReportSupersededOwns DEF AnalysisNext

LEMMA InitTold == AnalysisInit => ToldInv /\ OwnersInv
<1> SUFFICES ASSUME AnalysisInit PROVE ToldInv /\ OwnersInv
  OBVIOUS
<1>1. \A c \in Calls : call[c] = Idle /\ trail[c] = <<>>
  BY DEF AnalysisInit
<1>2. /\ Idle.pc = "idle" /\ Idle.op = None /\ Idle.outcome = None /\ Idle.approval = None
      /\ Idle.superseded = {} /\ Idle.said = 0 /\ Idle.attachments = {}
  BY DEF Idle
<1>3. ASSUME NEW types
      PROVE  /\ IsList(<<>>) /\ AreEvents(<<>>) /\ About(<<>>, types) = {}
             /\ Once(<<>>, types) /\ Distinct(<<>>, types)
  BY NoEvent
<1>4. Told(Idle, <<>>)
  <2>1. ToldEnd(Idle, <<>>)
    BY <1>2, <1>3 DEF ToldEnd
  <2>2. ToldAnalysis(Idle, <<>>)
    <3>1. ~(Idle.op = "analyze" /\ Idle.pc # "denied")
      BY <1>2, DecisionAssumption
    <3> QED
      BY <1>2, <1>3, <3>1 DEF ToldAnalysis
  <2>3. ToldApprovals(Idle, <<>>)
    BY <1>2, <1>3 DEF ToldApprovals
  <2> QED
    BY <1>3, <2>1, <2>2, <2>3 DEF Told
<1>5. ToldInv
  BY <1>1, <1>4 DEF ToldInv
<1>6. \A c \in Calls : call[c].approval = None /\ Gone(c) = {}
  BY <1>1, <1>2, <1>3 DEF Gone
<1> QED
  BY <1>5, <1>6 DEF OwnersInv

-----------------------------------------------------------------------------
(* What the trail and the metrics tell                                     *)

LEMMA AtMostOne ==
    ASSUME NEW S, \A x, y \in S : x = y
    PROVE  IsFiniteSet(S) /\ Cardinality(S) = IF S = {} THEN 0 ELSE 1
<1>1. CASE S = {}
  BY <1>1, FS_EmptySet
<1>2. ASSUME NEW x \in S PROVE IsFiniteSet(S) /\ Cardinality(S) = 1
  <2>1. S = {x}
    OBVIOUS
  <2> QED
    BY <2>1, FS_Singleton
<1> QED
  BY <1>1, <1>2

LEMMA ClosesAsTold == ASSUME ToldInv, NEW c \in Calls PROVE ClosedAsTold(c)
<1> DEFINE k == call[c]
           t == trail[c]
           last == t[Len(t)]
           P == Positions(t, Closing)
<1>1. /\ IsList(t) /\ AreEvents(t) /\ ToldEnd(k, t) /\ ToldAnalysis(k, t) /\ ToldApprovals(k, t)
  BY ToldOfCall
<1>2. Cardinality(P) = IF P = {} THEN 0 ELSE 1
  BY <1>1, AtMostOne DEF ToldEnd, Once
<1>3. Times(c, Closing) = Cardinality(P)
  BY DEF Times, Positions
<1>4. P = {} <=> About(t, Closing) = {}
  BY DEF About
<1>5. k.pc \in {"denied", "failed", "answered"} => P # {}
  BY <1>1, <1>4 DEF ToldEnd
<1>6. k.pc = "denied" => t = <<Event("AUTHORIZATION_DENIED", k.op)>>
  BY <1>1 DEF ToldEnd
<1>7. k.pc = "failed" => /\ last.type \in {"ANALYSIS_FAILED", "INTAKE_FAILED", "POLICY_QA_FAILED"}
                         /\ last.about = k.outcome.failure
                         /\ k.approval = None
  BY <1>1 DEF ToldEnd, ToldApprovals, Failures
<1>8. ASSUME k.op = "analyze", k.pc # "denied"
      PROVE  /\ t[1].type = "REQUEST_RECEIVED"
             /\ Written(c, Closing) \subseteq
                   IF k.outcome = None THEN {}
                   ELSE IF k.outcome.failure # None THEN {Event("ANALYSIS_FAILED", k.outcome.failure)}
                   ELSE {Event("POLICY_EVALUATED", k.outcome.case.decision.status)}
  <2>1. /\ t[1].type = "REQUEST_RECEIVED"
        /\ \A i \in P : k.outcome # None /\ t[i] = Verdict(k)
    BY <1>1, <1>8 DEF ToldAnalysis
  <2>2. Written(c, Closing) = {t[i] : i \in P}
    BY DEF Written, Positions
  <2>3. \A e \in Written(c, Closing) : k.outcome # None /\ e = Verdict(k)
    BY <2>1, <2>2
  <2> QED
    BY <2>1, <2>3 DEF Verdict
<1> HIDE DEF P
<1> QED
  BY <1>2, <1>3, <1>5, <1>6, <1>7, <1>8 DEF ClosedAsTold

\* Who announced that something happened to an approval.
LEMMA Tellers ==
    ASSUME ToldInv, NEW type, NEW a
    PROVE  {c \in Calls : Event(type, a) \in Written(c, {type})}
              = {c \in Calls : a \in About(trail[c], {type})}
<1> SUFFICES ASSUME NEW c \in Calls
             PROVE  Event(type, a) \in Written(c, {type}) <=> a \in About(trail[c], {type})
  OBVIOUS
<1> DEFINE t == trail[c]
           e == Event(type, a)
<1>1. e.type = type /\ e.about = a
  BY DEF Event
<1>2. ASSUME e \in Written(c, {type}) PROVE a \in About(t, {type})
  <2>1. PICK i \in DOMAIN t : e = t[i]
    BY <1>2 DEF Written
  <2> QED
    BY <1>1, <2>1 DEF About, Positions
<1>3. ASSUME a \in About(t, {type}) PROVE e \in Written(c, {type})
  <2>1. PICK i \in DOMAIN t : t[i].type = type /\ t[i].about = a
    BY <1>3 DEF About, Positions
  <2>2. t[i] = e
    BY <2>1, ToldOfCall DEF AreEvents
  <2> HIDE DEF e
  <2> QED
    BY <1>1, <2>1, <2>2 DEF Written
<1> QED
  BY <1>2, <1>3

LEMMA IsAccounted ==
    ASSUME AnalysisInv, ToldInv, OwnersInv, NEW a \in DOMAIN approvals
    PROVE  Accounted(a)
<1> DEFINE tellers(type) == {c \in Calls : Event(type, a) \in Written(c, {type})}
           R == tellers("APPROVAL_REQUESTED")
           S == tellers("APPROVAL_SUPERSEDED")
<1>1. R = {c \in Calls : a \in About(trail[c], Requested)}
  BY Tellers DEF Requested
<1>2. S = {c \in Calls : a \in About(trail[c], Superseded)}
  BY Tellers DEF Superseded
<1> HIDE DEF R, S
<1>3. a # None
  BY Indices DEF AnalysisInv, ApprovalsInv
<1>4. \A c \in R : call[c].approval = a /\ ~call[c].reused
  BY <1>1, ToldOfCall DEF ToldApprovals
<1>5. \A c, d \in R : c = d
  BY <1>1, <1>3, <1>4 DEF OwnersInv
<1>6. \A c \in S : a \in Gone(c)
  BY <1>2 DEF Gone
<1>7. \A c, d \in S : c = d
  BY <1>2, <1>6 DEF OwnersInv
<1>8. S # {} => ~approvals[a].live
  BY <1>2, <1>6 DEF OwnersInv
<1>9. Cardinality(R) <= 1 /\ Cardinality(S) <= 1
  <2>1. Cardinality(R) = IF R = {} THEN 0 ELSE 1
    BY <1>5, AtMostOne
  <2>2. Cardinality(S) = IF S = {} THEN 0 ELSE 1
    BY <1>7, AtMostOne
  <2> QED
    BY <2>1, <2>2
<1>10. R # {} \/ \E c \in Calls : call[c].approval = a /\ call[c].pc \in {"claimed", "reporting", "dead"}
  <2>1. PICK c \in Calls : call[c].approval = a /\ ~call[c].reused
    BY DEF AnalysisInv, ApprovalsInv
  <2>2. call[c].pc \in Places
    BY DEF AnalysisInv, CallRec
  <2>3. /\ call[c].pc \notin {"idle", "received", "failing", "assessed", "denied", "failed"}
        /\ call[c].op = "analyze"
    BY <1>3, <2>1, ToldOfCall DEF ToldApprovals
  <2>4. call[c].pc = "answered" => a \in About(trail[c], Requested)
    BY <1>3, <2>1, <2>3, ToldOfCall DEF ToldApprovals
  <2> QED
    BY <1>1, <2>1, <2>2, <2>3, <2>4 DEF Places, Ended
<1> QED
  BY <1>8, <1>9, <1>10 DEF Accounted, R, S

\* The events of some types, about something or about anything, in all trails.
Found(types, about) ==
    {e \in UNION {{c} \X DOMAIN trail[c] : c \in Calls} :
        /\ trail[e[1]][e[2]].type \in types
        /\ about = None \/ trail[e[1]][e[2]].about = about}

LEMMA FoundWhere ==
    ASSUME NEW types, NEW about
    PROVE  /\ \A e \in Found(types, about) :
                 /\ e = <<e[1], e[2]>> /\ e[1] \in Calls /\ e[2] \in Positions(trail[e[1]], types)
                 /\ about = None \/ trail[e[1]][e[2]].about = about
           /\ \A c \in Calls : \A i \in Positions(trail[c], types) :
                 about \in {None, trail[c][i].about} => <<c, i>> \in Found(types, about)
<1>1. ASSUME NEW e \in Found(types, about)
      PROVE  /\ e = <<e[1], e[2]>> /\ e[1] \in Calls /\ e[2] \in Positions(trail[e[1]], types)
             /\ about = None \/ trail[e[1]][e[2]].about = about
  <2>1. PICK c \in Calls : e \in {c} \X DOMAIN trail[c]
    BY DEF Found
  <2>2. e = <<e[1], e[2]>> /\ e[1] = c /\ e[2] \in DOMAIN trail[c]
    BY <2>1
  <2> QED
    BY <2>2 DEF Found, Positions
<1>2. ASSUME NEW c \in Calls, NEW i \in Positions(trail[c], types), about \in {None, trail[c][i].about}
      PROVE  <<c, i>> \in Found(types, about)
  <2> DEFINE e == <<c, i>>
  <2>1. e[1] = c /\ e[2] = i /\ i \in DOMAIN trail[c] /\ trail[c][i].type \in types
    BY DEF Positions
  <2>2. e \in {c} \X DOMAIN trail[c]
    BY <2>1
  <2> HIDE DEF e
  <2>3. e \in UNION {{d} \X DOMAIN trail[d] : d \in Calls}
    BY <2>2
  <2>4. e \in Found(types, about)
    BY <1>2, <2>1, <2>3 DEF Found
  <2> QED
    BY <2>4 DEF e
<1> QED
  BY <1>1, <1>2

\* All trails together are finite.
LEMMA FewFound ==
    ASSUME ToldInv, NEW types, NEW about
    PROVE  IsFiniteSet(Found(types, about)) /\ Cardinality(Found(types, about)) \in Nat
<1> DEFINE places == {{c} \X DOMAIN trail[c] : c \in Calls}
           f == [c \in Calls |-> {c} \X DOMAIN trail[c]]
<1>1. f \in Surjection(Calls, places)
  BY DEF Surjection
<1>2. IsFiniteSet(places)
  BY <1>1, AnalysisAssumption, FS_Surjection
<1>3. ASSUME NEW c \in Calls PROVE IsFiniteSet({c} \X DOMAIN trail[c])
  <2>1. IsFiniteSet({c}) /\ DOMAIN trail[c] = 1..Len(trail[c]) /\ Len(trail[c]) \in Nat
    BY FS_Singleton, ToldOfCall, ListFacts
  <2>2. IsFiniteSet(1..Len(trail[c]))
    BY <2>1, FS_Interval
  <2> QED
    BY <2>1, <2>2, FS_Product
<1>4. IsFiniteSet(UNION places)
  BY <1>2, <1>3, FS_UNION
<1>5. Found(types, about) \in SUBSET UNION places
  BY DEF Found
<1> QED
  BY <1>4, <1>5, FS_Subset, FS_CardinalityType

LEMMA Tallied == \A types, about : Tally(types, about) = Cardinality(Found(types, about))
BY DEF Tally, Found

LEMMA NoMoreThan ==
    ASSUME NEW S, NEW T, NEW f \in [S -> T], IsFiniteSet(T), \A x, y \in S : f[x] = f[y] => x = y
    PROVE  IsFiniteSet(S) /\ Cardinality(S) <= Cardinality(T)
<1>1. f \in Injection(S, T)
  BY DEF Injection, IsInjective
<1> QED
  BY <1>1, FS_Injection

LEMMA AsMany ==
    ASSUME NEW S, NEW T, NEW f \in [S -> T], IsFiniteSet(S), \A x, y \in S : f[x] = f[y] => x = y,
           \A y \in T : \E x \in S : f[x] = y
    PROVE  Cardinality(S) = Cardinality(T)
<1>1. f \in Injection(S, T) /\ f \in Surjection(S, T)
  BY DEF Injection, IsInjective, Surjection
<1> QED
  BY <1>1, FS_Surjection

\* An analysis that came to the policies was decided, and has one such event.
\* An analysis that came to the policies was decided, and has one such event.
LEMMA DecisionsCounted ==
    ASSUME ToldInv, NEW s \in {"APPROVED", "CONDITIONAL_REVIEW", "REJECTED"}
    PROVE  LET of == {c \in Decided : call[c].outcome.case.decision.status = s}
           IN Tally({"POLICY_EVALUATED"}, s)
                 \in Cardinality({c \in of : call[c].pc = "answered"}) .. Cardinality(of)
<1> DEFINE of == {c \in Decided : call[c].outcome.case.decision.status = s}
           told == {c \in of : call[c].pc = "answered"}
           P == Found(Evaluated, s)
           f == [e \in P |-> e[1]]
           place(c) == CHOOSE i \in Positions(trail[c], Evaluated) : TRUE
           g == [c \in told |-> <<c, place(c)>>]
<1>1. \A c \in Calls : \A i, j \in Positions(trail[c], Evaluated) : i = j
  <2>1. \A c \in Calls : Positions(trail[c], Evaluated) \subseteq Positions(trail[c], Closing)
    BY DEF Positions, Evaluated, Closing
  <2> QED
    BY <2>1, ToldOfCall DEF ToldEnd, Once
<1>2. s # None
  BY DecisionAssumption
<1>3. ASSUME NEW e \in P
      PROVE  /\ e = <<e[1], e[2]>> /\ e[1] \in Calls /\ e[2] \in Positions(trail[e[1]], Evaluated)
             /\ trail[e[1]][e[2]].about = s
  BY <1>2, <1>3, FoundWhere
<1>4. ASSUME NEW e \in P PROVE e[1] \in of
  <2>1. s \in About(trail[e[1]], Evaluated)
    BY <1>3, <1>4 DEF About
  <2>2. /\ call[e[1]].op = "analyze" /\ call[e[1]].outcome # None /\ call[e[1]].outcome.failure = None
        /\ call[e[1]].outcome.case.decision.status = s
    <3> DEFINE c == e[1]
    <3>1. ToldApprovals(call[c], trail[c]) /\ About(trail[c], Evaluated) # {} /\ s \in About(trail[c], Evaluated)
      BY <1>3, <1>4, <2>1, ToldOfCall
    <3> HIDE DEF c, P
    <3>2. call[c].said \in 0..4 /\ ~(call[c].said < 3)
      BY <3>1 DEF ToldApprovals
    <3>3. call[c].said >= 3 /\ call[c].said > 0
      BY <3>2
    <3>4. About(trail[c], Evaluated) = {call[c].outcome.case.decision.status}
      BY <3>1, <3>3 DEF ToldApprovals
    <3>5. call[c].op = "analyze" /\ call[c].outcome # None /\ call[c].outcome.failure = None
      BY <3>1, <3>3 DEF ToldApprovals
    <3> QED
      BY <3>1, <3>4, <3>5 DEF c
  <2> QED
    BY <1>3, <1>4, <2>2 DEF Decided, Computed
<1>5. ASSUME NEW c \in told
      PROVE  /\ c \in Calls /\ place(c) \in Positions(trail[c], Evaluated)
             /\ <<c, place(c)>> \in P
  <2>1. /\ c \in Calls /\ call[c].op = "analyze" /\ call[c].pc = "answered"
        /\ call[c].outcome.case.decision.status = s
    BY <1>5 DEF Decided, Computed
  <2>2. About(trail[c], Evaluated) = {s}
    BY <2>1, ToldOfCall DEF ToldApprovals
  <2>3. Positions(trail[c], Evaluated) # {}
    BY <2>2 DEF About
  <2>4. place(c) \in Positions(trail[c], Evaluated)
    BY <2>3
  <2>5. trail[c][place(c)].about = s
    BY <2>2, <2>4 DEF About
  <2> QED
    BY <2>1, <2>4, <2>5, FoundWhere
<1>6. of \in SUBSET Calls /\ told \in SUBSET of
  BY DEF Decided, Computed
<1>7. IsFiniteSet(of) /\ IsFiniteSet(told) /\ Cardinality(of) \in Nat /\ Cardinality(told) \in Nat
  BY <1>6, AnalysisAssumption, FS_Subset, FS_CardinalityType
<1>8. IsFiniteSet(P) /\ Cardinality(P) \in Nat
  BY FewFound
<1> HIDE DEF P, of, told, place
<1>9. Cardinality(P) <= Cardinality(of)
  <2>1. f \in [P -> of]
    BY <1>4
  <2>2. \A x, y \in P : f[x] = f[y] => x = y
    <3> SUFFICES ASSUME NEW x \in P, NEW y \in P, x[1] = y[1] PROVE x = y
      OBVIOUS
    <3>1. x[2] = y[2]
      BY <1>1, <1>3
    <3> QED
      BY <1>3, <3>1
  <2> QED
    BY <1>7, <2>1, <2>2, NoMoreThan
<1>10. Cardinality(told) <= Cardinality(P)
  <2>1. g \in [told -> P]
    BY <1>5
  <2>2. \A x, y \in told : g[x] = g[y] => x = y
    OBVIOUS
  <2> QED
    BY <1>8, <2>1, <2>2, NoMoreThan
<1>11. Cardinality(P) \in Cardinality(told) .. Cardinality(of)
  BY <1>7, <1>8, <1>9, <1>10
<1> QED
  BY <1>11, Tallied DEF P, of, told, Evaluated

\* Each approval is reported as superseded once at most, and is not live then.
LEMMA SupersededCounted ==
    ASSUME AnalysisInv, ToldInv, OwnersInv
    PROVE  Tally({"APPROVAL_SUPERSEDED"}, None) <= Cardinality({a \in DOMAIN approvals : ~approvals[a].live})
<1> DEFINE P == Found(Superseded, None)
           gone == {a \in DOMAIN approvals : ~approvals[a].live}
           f == [e \in P |-> trail[e[1]][e[2]].about]
<1>1. ASSUME NEW e \in P
      PROVE  /\ e = <<e[1], e[2]>> /\ e[1] \in Calls /\ e[2] \in Positions(trail[e[1]], Superseded)
  BY <1>1, FoundWhere
<1>2. \A e \in P : f[e] \in Gone(e[1])
  <2> SUFFICES ASSUME NEW e \in P PROVE trail[e[1]][e[2]].about \in Gone(e[1])
    OBVIOUS
  <2>1. trail[e[1]][e[2]].about \in About(trail[e[1]], Superseded)
    BY <1>1 DEF About
  <2> QED
    BY <2>1 DEF Gone
<1>3. ASSUME NEW x \in P, NEW y \in P, f[x] = f[y] PROVE x = y
  <2>1. x[1] = y[1]
    BY <1>1, <1>2, <1>3 DEF OwnersInv
  <2>2. trail[x[1]][x[2]].about = trail[y[1]][y[2]].about
    BY <1>3
  <2>3. Distinct(trail[x[1]], Superseded)
    BY <1>1, ToldOfCall DEF ToldApprovals
  <2>4. x[2] = y[2]
    BY <1>1, <2>1, <2>2, <2>3 DEF Distinct
  <2> QED
    BY <1>1, <2>1, <2>4
<1>4. f \in [P -> gone]
  BY <1>1, <1>2 DEF OwnersInv
<1>5. IsFiniteSet(gone)
  <2>1. DOMAIN approvals = 1..Len(approvals) /\ Len(approvals) \in Nat
    BY Indices DEF AnalysisInv, ApprovalsInv
  <2>2. IsFiniteSet(DOMAIN approvals)
    BY <2>1, FS_Interval
  <2> QED
    BY <2>2, FS_Subset
<1> HIDE DEF P, f, gone
<1>6. Cardinality(P) <= Cardinality(gone)
  BY <1>3, <1>4, <1>5, NoMoreThan
<1> QED
  BY <1>6, Tallied DEF P, gone, Superseded

\* What the calls S came across.
Met(S) == UNION {{c} \X Injections(call[c].world, call[c].asked.supplier) : c \in S}

LEMMA FewMet ==
    ASSUME ToldInv
    PROVE  IsFiniteSet(Met(Received))
<1> DEFINE one(c) == {c} \X Injections(call[c].world, call[c].asked.supplier)
           all == {one(c) : c \in Received}
           f == [c \in Received |-> one(c)]
<1>1. IsFiniteSet(Received)
  BY AnalysisAssumption, FS_Subset DEF Received
<1>2. f \in Surjection(Received, all)
  BY DEF Surjection
<1>3. IsFiniteSet(all)
  BY <1>1, <1>2, FS_Surjection
<1>4. ASSUME NEW c \in Received PROVE IsFiniteSet(one(c))
  <2>1. call[c].world \in Worlds
    BY ToldOfCall DEF Received, ToldAnalysis
  <2>2. IsFiniteSet({c}) /\ IsFiniteSet(Injections(call[c].world, call[c].asked.supplier))
    BY <2>1, FS_Singleton, FewInjections
  <2> QED
    BY <2>2, FS_Product
<1> HIDE DEF one
<1> QED
  BY <1>3, <1>4, FS_UNION DEF Met, one

\* An analysis reports each attachment it came across once, and all of them
\* before it computes anything.
LEMMA QuarantinedCounted ==
    ASSUME AnalysisInv, ToldInv
    PROVE  Tally({"SECURITY_CONTENT_QUARANTINED"}, None)
              \in Cardinality(Met(Computed)) .. Cardinality(Met(Received))
<1> DEFINE P == Found(Quarantined, None)
           Q == {e \in P : e[1] \in Computed}
           what(e) == <<e[1], trail[e[1]][e[2]].about>>
           f == [e \in P |-> what(e)]
           g == [e \in Q |-> what(e)]
           met(c) == Injections(call[c].world, call[c].asked.supplier)
<1>1. ASSUME NEW e \in P
      PROVE  e = <<e[1], e[2]>> /\ e[1] \in Calls /\ e[2] \in Positions(trail[e[1]], Quarantined)
  BY <1>1, FoundWhere
<1>2. ASSUME NEW c \in Calls
      PROVE  /\ Distinct(trail[c], Quarantined)
             /\ c \notin Received => About(trail[c], Quarantined) = {}
             /\ c \in Received => About(trail[c], Quarantined) \subseteq met(c)
             /\ c \in Computed => c \in Received /\ About(trail[c], Quarantined) = met(c)
  <2>1. ToldAnalysis(call[c], trail[c])
    BY ToldOfCall
  <2> QED
    BY <2>1 DEF ToldAnalysis, Received, Computed
<1> HIDE DEF met
<1>3. ASSUME NEW S \in SUBSET Calls, NEW c \in S, NEW x \in met(c) PROVE <<c, x>> \in Met(S)
  BY DEF Met, met
<1>4. ASSUME NEW e \in P PROVE what(e) \in Met(Received) /\ (e[1] \in Computed => what(e) \in Met(Computed))
  <2>1. trail[e[1]][e[2]].about \in About(trail[e[1]], Quarantined)
    BY <1>1 DEF About
  <2>2. e[1] \in Received /\ trail[e[1]][e[2]].about \in met(e[1])
    BY <1>1, <1>2, <2>1
  <2>3. Received \in SUBSET Calls /\ Computed \in SUBSET Calls
    BY DEF Received, Computed
  <2> QED
    BY <1>3, <2>2, <2>3
<1>5. ASSUME NEW x \in P, NEW y \in P, what(x) = what(y) PROVE x = y
  <2>1. x[1] = y[1] /\ trail[x[1]][x[2]].about = trail[y[1]][y[2]].about
    BY <1>5
  <2>2. x[2] = y[2]
    BY <1>1, <1>2, <2>1 DEF Distinct
  <2> QED
    BY <1>1, <2>1, <2>2
<1>6. ASSUME NEW y \in Met(Computed) PROVE \E e \in Q : what(e) = y
  <2>1. PICK c \in Computed : y \in {c} \X met(c)
    BY DEF Met, met
  <2>2. y = <<c, y[2]>> /\ y[2] \in met(c) /\ c \in Calls
    BY <2>1 DEF Computed
  <2>3. PICK i \in Positions(trail[c], Quarantined) : trail[c][i].about = y[2]
    BY <1>2, <2>1, <2>2 DEF About
  <2>4. <<c, i>> \in P
    BY <2>2, <2>3, FoundWhere
  <2> DEFINE e == <<c, i>>
  <2>5. e \in P /\ e[1] = c /\ e[2] = i
    BY <2>4
  <2> HIDE DEF e, P
  <2>6. what(e) = <<c, trail[c][i].about>>
    BY <2>5
  <2> QED
    BY <2>1, <2>2, <2>3, <2>5, <2>6
<1>7. IsFiniteSet(P) /\ IsFiniteSet(Q) /\ Cardinality(P) \in Nat /\ Cardinality(Q) <= Cardinality(P)
  <2>1. Q \subseteq P
    OBVIOUS
  <2> QED
    BY <2>1, FewFound, FS_Subset
<1>8. f \in [P -> Met(Received)] /\ g \in [Q -> Met(Computed)]
  BY <1>4
<1>9. /\ \A x, y \in P : f[x] = f[y] => x = y
      /\ \A x, y \in Q : g[x] = g[y] => x = y
      /\ \A y \in Met(Computed) : \E x \in Q : g[x] = y
  BY <1>5, <1>6
<1> HIDE DEF P, Q, f, g
<1>10. Cardinality(P) <= Cardinality(Met(Received))
  BY <1>8, <1>9, FewMet, NoMoreThan
<1>11. Cardinality(Q) = Cardinality(Met(Computed))
  BY <1>7, <1>8, <1>9, AsMany
<1>12. Cardinality(Met(Received)) \in Nat /\ Cardinality(Met(Computed)) \in Nat
  BY <1>7, <1>11, FewMet, FS_CardinalityType
<1> QED
  BY <1>7, <1>10, <1>11, <1>12, Tallied DEF P, Quarantined

\* Each call that was denied says so, once, and no other does.
LEMMA DeniedCounted ==
    ASSUME ToldInv
    PROVE  Tally(_DENIED_OR_BLOCKED, None) = Cardinality({c \in Calls : call[c].pc = "denied"})
<1> DEFINE P == Found(_DENIED_OR_BLOCKED, None)
           denied == {c \in Calls : call[c].pc = "denied"}
           f == [e \in P |-> e[1]]
<1>1. ASSUME NEW e \in P
      PROVE  e = <<e[1], e[2]>> /\ e[1] \in Calls /\ e[2] \in Positions(trail[e[1]], _DENIED_OR_BLOCKED)
  BY <1>1, FoundWhere
<1>2. ASSUME NEW c \in denied PROVE Positions(trail[c], _DENIED_OR_BLOCKED) = {1}
  <2> DEFINE t == <<Event("AUTHORIZATION_DENIED", call[c].op)>>
  <2>1. trail[c] = t
    BY ToldOfCall DEF ToldEnd
  <2>2. DOMAIN t = {1} /\ t[1].type = "AUTHORIZATION_DENIED"
    BY DEF Event
  <2> HIDE DEF t
  <2> QED
    BY <2>1, <2>2 DEF Positions, _DENIED_OR_BLOCKED
<1>3. ASSUME NEW e \in P PROVE e[1] \in denied /\ e = <<e[1], 1>>
  <2>1. About(trail[e[1]], _DENIED_OR_BLOCKED) # {}
    BY <1>1, <1>3 DEF About
  <2>2. e[1] \in denied
    BY <1>1, <1>3, <2>1, ToldOfCall DEF ToldEnd
  <2> QED
    BY <1>1, <1>2, <1>3, <2>2
<1>4. ASSUME NEW c \in denied PROVE <<c, 1>> \in P
  BY <1>2, <1>4, FoundWhere
<1>5. IsFiniteSet(P)
  BY FewFound
<1> HIDE DEF P, denied
<1>6. f \in [P -> denied] /\ \A x, y \in P : f[x] = f[y] => x = y
  BY <1>3
<1>7. \A c \in denied : \E e \in P : f[e] = c
  BY <1>4
<1>8. Cardinality(P) = Cardinality(denied)
  BY <1>5, <1>6, <1>7, AsMany
<1> QED
  BY <1>8, Tallied DEF P, denied

LEMMA MetricsTell == AnalysisInv /\ ToldInv /\ OwnersInv => MetricsTellOutcome
<1> SUFFICES ASSUME AnalysisInv, ToldInv, OwnersInv PROVE MetricsTellOutcome
  OBVIOUS
<1>1. /\ DOMAIN summarize.decisions = {"APPROVED", "CONDITIONAL_REVIEW", "REJECTED"}
      /\ \A s \in DOMAIN summarize.decisions : summarize.decisions[s] = Tally({"POLICY_EVALUATED"}, s)
      /\ summarize.superseded = Tally({"APPROVAL_SUPERSEDED"}, None)
      /\ summarize.quarantined = Tally({"SECURITY_CONTENT_QUARANTINED"}, None)
      /\ summarize.denied = Tally(_DENIED_OR_BLOCKED, None)
  BY DEF summarize
<1> QED
  BY <1>1, DecisionsCounted, SupersededCounted, QuarantinedCounted, DeniedCounted
     DEF MetricsTellOutcome, Met

\* The audit trail closes every call once with what its user was told,
\* accounts for every approval, and feeds counters that agree with what
\* happened: analyze, draft_intake and ask_policy_question leave no call and
\* no approval untold, whatever interleaves with them and between whichever two
\* of its events an error or a restart cuts a call off.
THEOREM TrailTellsEveryOutcome == AnalysisSpec => []TrailTellsOutcome
<1>1. AnalysisInit => ToldInv /\ OwnersInv
  BY InitTold
<1>2. AnalysisInv /\ ToldInv /\ OwnersInv /\ [AnalysisNext]_analysisVars => ToldInv' /\ OwnersInv'
  BY ToldStep, OwnersStep
<1>3. AnalysisInv /\ ToldInv /\ OwnersInv => TrailTellsOutcome
  BY ClosesAsTold, IsAccounted, MetricsTell DEF TrailTellsOutcome
<1> QED
  BY <1>1, <1>2, <1>3, AnalysisInvariant, PTL DEF AnalysisSpec

-----------------------------------------------------------------------------
(* The median                                                              *)

LEMMA LowestOf ==
    ASSUME NEW S, S \subseteq Nat, S # {}
    PROVE  \E m \in S : \A n \in S : m <= n
<1> DEFINE less == {ss \in Nat \X Nat : ss[1] < ss[2]}
<1>1. IsWellFoundedOn(less, Nat)
  BY NatLessThanWellFounded DEF OpToRel
<1> HIDE DEF less
<1>2. PICK m \in S : \A n \in S : <<n, m>> \notin less
  BY <1>1, WFMin
<1>3. \A n \in S : ~(n < m)
  BY <1>2 DEF less
<1> QED
  BY <1>3

\* One with the fewest above it is the highest.
LEMMA HighestOf ==
    ASSUME NEW S, S \subseteq Nat, IsFiniteSet(S), S # {}
    PROVE  \E m \in S : \A n \in S : n <= m
<1> DEFINE above(m) == {n \in S : n > m}
           all == {above(m) : m \in S}
           order == StrictSubsetOrdering(S)
<1>1. IsWellFoundedOn(order, FiniteSubsetsOf(S))
  BY FS_StrictSubsetOrderingWellFounded
<1>2. all \subseteq FiniteSubsetsOf(S) /\ all # {}
  <2>1. all \subseteq SUBSET S /\ all # {}
    OBVIOUS
  <2>2. FiniteSubsetsOf(S) = SUBSET S
    BY FS_FiniteSubsetsOfFinite
  <2> QED
    BY <2>1, <2>2
<1>3. \E x \in all : \A y \in all : <<y, x>> \notin order
  <2> HIDE DEF order, all
  <2> QED
    BY <1>1, <1>2, WFMin
<1>4. PICK m \in S : \A n \in S : <<above(n), above(m)>> \notin order
  BY <1>3
<1>5. ASSUME NEW n \in S PROVE n <= m
  <2> SUFFICES ASSUME n > m PROVE FALSE
    OBVIOUS
  <2>1. above(n) \subseteq above(m) /\ n \in above(m) /\ n \notin above(n)
    <3>1. n \in Nat /\ m \in Nat /\ n > m /\ \A x \in S : x \in Nat
      OBVIOUS
    <3>2. \A x \in S : x > n => x > m
      BY <3>1
    <3>3. n > m /\ ~(n > n)
      BY <3>1
    <3> QED
      BY <3>2, <3>3
  <2>2. <<above(n), above(m)>> \in order
    BY <2>1 DEF StrictSubsetOrdering
  <2> QED
    BY <1>4, <2>2
<1> QED
  BY <1>5

\* The rows whose amount is at most, or less than, the one given.
UpTo(w, rows, a) == {i \in rows : w.history[i].amount <= a}
Below(w, rows, a) == {i \in rows : w.history[i].amount < a}
Amounts(w, rows) == {w.history[i].amount : i \in rows}

\* The amount of a rank is that of a row; fewer rows than the rank are below
\* it, and as many are not above it.
LEMMA RankedIsRank ==
    ASSUME NEW w, NEW rows, IsFiniteSet(rows), \A i \in rows : w.history[i].amount \in Nat,
           NEW k \in 1..Cardinality(rows)
    PROVE  /\ Ranked(w, rows, k) \in Amounts(w, rows)
           /\ Cardinality(Below(w, rows, Ranked(w, rows, k))) < k
           /\ k <= Cardinality(UpTo(w, rows, Ranked(w, rows, k)))
<1> DEFINE amounts == Amounts(w, rows)
           upTo(a) == Cardinality(UpTo(w, rows, a))
           below(a) == Cardinality(Below(w, rows, a))
           high == {a \in amounts : k <= upTo(a)}
<1>1. amounts \subseteq Nat /\ \A i \in rows : w.history[i].amount \in amounts
  BY DEF Amounts
<1>2. IsFiniteSet(amounts)
  <2> DEFINE f == [i \in rows |-> w.history[i].amount]
  <2>1. f \in Surjection(rows, amounts)
    BY DEF Surjection, Amounts
  <2> QED
    BY <2>1, FS_Surjection
<1>3. \A a : /\ IsFiniteSet(UpTo(w, rows, a)) /\ upTo(a) \in Nat
             /\ IsFiniteSet(Below(w, rows, a)) /\ below(a) \in Nat
  BY FS_Subset, FS_CardinalityType DEF UpTo, Below
<1>4. rows # {} /\ Cardinality(rows) \in Nat
  BY FS_CardinalityType, FS_EmptySet
<1>5. high # {}
  <2>1. amounts # {}
    BY <1>1, <1>4
  <2>2. PICK top \in amounts : \A a \in amounts : a <= top
    <3> HIDE DEF amounts
    <3> QED
      BY <1>1, <1>2, <2>1, HighestOf
  <2>3. UpTo(w, rows, top) = rows
    BY <1>1, <2>2 DEF UpTo
  <2> QED
    BY <2>2, <2>3
<1>6. PICK a \in high : \A b \in high : a <= b
  <2>1. high \subseteq Nat
    BY <1>1
  <2> HIDE DEF high
  <2> QED
    BY <1>5, <2>1, LowestOf
<1>7. below(a) < k
  <2> SUFFICES ASSUME k <= below(a) PROVE FALSE
    BY <1>3
  <2> DEFINE lower == {b \in amounts : b < a}
  <2>1. lower # {} /\ lower \subseteq Nat /\ IsFiniteSet(lower)
    <3>1. Below(w, rows, a) # {}
      BY <1>3, FS_EmptySet
    <3>2. lower # {}
      BY <1>1, <3>1 DEF Below
    <3> QED
      BY <1>1, <1>2, <3>2, FS_Subset
  <2> HIDE DEF lower
  <2>2. PICK b \in lower : \A c \in lower : c <= b
    BY <2>1, HighestOf
  <2>3. UpTo(w, rows, b) = Below(w, rows, a)
    <3>1. b \in amounts /\ b < a /\ \A c \in amounts : c < a => c <= b
      BY <2>2 DEF lower
    <3>2. \A i \in rows : w.history[i].amount <= b <=> w.history[i].amount < a
      BY <1>1, <3>1
    <3> QED
      BY <3>2 DEF UpTo, Below
  <2>4. b \in high /\ b < a
    BY <2>2, <2>3 DEF lower
  <2> QED
    BY <1>1, <1>6, <2>4
<1>8. \E x \in amounts : below(x) < k /\ k <= upTo(x)
  BY <1>6, <1>7
<1>9. Ranked(w, rows, k) = CHOOSE x \in amounts : below(x) < k /\ k <= upTo(x)
  BY DEF Ranked, Amounts, UpTo, Below
<1> HIDE DEF amounts, upTo, below
<1>10. /\ Ranked(w, rows, k) \in amounts
       /\ below(Ranked(w, rows, k)) < k /\ k <= upTo(Ranked(w, rows, k))
  BY <1>8, <1>9
<1> QED
  BY <1>10 DEF amounts, upTo, below

\* The median of app/analysis.py is one: it is the mean of two amounts that
\* were paid, of which fewer than half of the purchases that count cost less
\* than the lower and at least half no more, at most half cost less than the
\* higher and more than half no more; and it is positive, so that analyze
\* always divides the variance by a number above zero.
THEOREM MedianOfCounted ==
    ASSUME NEW w, NEW q, IsFiniteSet(DOMAIN w.history), Counted(w, q) # {}, ~HistoryInvalid(w, q),
           \A i \in DOMAIN w.history :
              w.history[i].amount = Malformed \/ w.history[i].amount \in Nat \ {0}
    PROVE  \E low, high \in Amounts(w, Counted(w, q)) :
              /\ MedianTwice(w, Counted(w, q)) = low + high
              /\ low + high > 0
              /\ 2 * Cardinality(Below(w, Counted(w, q), low)) < Cardinality(Counted(w, q))
              /\ 2 * Cardinality(Below(w, Counted(w, q), high)) <= Cardinality(Counted(w, q))
              /\ Cardinality(Counted(w, q)) <= 2 * Cardinality(UpTo(w, Counted(w, q), low))
              /\ Cardinality(Counted(w, q)) < 2 * Cardinality(UpTo(w, Counted(w, q), high))
<1> DEFINE rows == Counted(w, q)
           n == Cardinality(rows)
           low == Ranked(w, rows, (n + 1) \div 2)
           high == Ranked(w, rows, n \div 2 + 1)
<1>1. rows \subseteq DOMAIN w.history /\ rows # {}
  BY DEF Counted, Relevant
<1>2. \A i \in rows : w.history[i].amount \in Nat \ {0}
  BY <1>1 DEF HistoryInvalid
<1>3. IsFiniteSet(rows) /\ n \in Nat \ {0}
  BY <1>1, FS_Subset, FS_CardinalityType, FS_EmptySet
<1>4. MedianTwice(w, rows) = low + high
  BY DEF MedianTwice
<1>5. Amounts(w, rows) \subseteq Nat \ {0}
  BY <1>2 DEF Amounts
<1>6. \A a : Cardinality(Below(w, rows, a)) \in Nat /\ Cardinality(UpTo(w, rows, a)) \in Nat
  BY <1>3, FS_Subset, FS_CardinalityType DEF UpTo, Below
<1> HIDE DEF rows, n
<1>7. (n + 1) \div 2 \in 1..n /\ n \div 2 + 1 \in 1..n
  BY <1>3
<1>8. /\ low \in Amounts(w, rows) /\ Cardinality(Below(w, rows, low)) < (n + 1) \div 2
      /\ (n + 1) \div 2 <= Cardinality(UpTo(w, rows, low))
  BY <1>2, <1>3, <1>7, RankedIsRank DEF n
<1>9. /\ high \in Amounts(w, rows) /\ Cardinality(Below(w, rows, high)) < n \div 2 + 1
      /\ n \div 2 + 1 <= Cardinality(UpTo(w, rows, high))
  BY <1>2, <1>3, <1>7, RankedIsRank DEF n
<1> HIDE DEF low, high
<1>10. \A b \in Nat : /\ b < (n + 1) \div 2 => 2 * b < n
                      /\ b < n \div 2 + 1 => 2 * b <= n
                      /\ (n + 1) \div 2 <= b => n <= 2 * b
                      /\ n \div 2 + 1 <= b => n < 2 * b
  BY <1>3
<1>11. /\ 2 * Cardinality(Below(w, rows, low)) < n /\ 2 * Cardinality(Below(w, rows, high)) <= n
       /\ n <= 2 * Cardinality(UpTo(w, rows, low)) /\ n < 2 * Cardinality(UpTo(w, rows, high))
  BY <1>6, <1>8, <1>9, <1>10
<1>12. low + high > 0
  BY <1>5, <1>8, <1>9
<1> QED
  BY <1>4, <1>8, <1>9, <1>11, <1>12 DEF rows, n
=============================================================================
