------------------------------- MODULE Decision -------------------------------
(***************************************************************************)
(* What analyze computes before it touches the approvals table, from the   *)
(* request, the role of the caller and the data the process was started    *)
(* with: app/data.py, app/analysis.py, app/retrieval.py,                   *)
(* app/policy_engine.py and the citations of app/service.py.               *)
(*                                                                         *)
(* A world is that data: [suppliers, history, manifest, chat, index], with *)
(*   suppliers   name -> [status, expiry], the rows of suppliers.csv;      *)
(*   history     the rows [category, status, date, amount] of              *)
(*               purchase_history.csv, Malformed where a cell does not     *)
(*               parse;                                                    *)
(*   manifest    the entries of documents.json in order, with the section  *)
(*               numbers of their files; versions are ranks of strings;    *)
(*   chat        whether a chat provider is configured;                    *)
(*   index       whether an embedding provider and its index are there.    *)
(* Dates are numbers of days, amounts whole numbers.  Text is left out.    *)
(***************************************************************************)
EXTENDS Integers, Sequences, FiniteSets

CONSTANTS
    None,
    Malformed,          \* a cell of the history that does not parse
    FinanceThreshold,   \* policy_rules.yaml
    QuoteThreshold,
    MinimumQuotes,
    MustBeActive,
    StandardLeadTime,
    Oracle              \* policy_oracle.yaml

ASSUME DecisionAssumption ==
    /\ FinanceThreshold \in Nat /\ QuoteThreshold \in Nat
    /\ MinimumQuotes \in Nat /\ StandardLeadTime \in Nat
    /\ MustBeActive \in BOOLEAN
    /\ None \notin Nat
    /\ None \notin {"analyze", "SUPPLIER_NOT_FOUND", "PURCHASE_HISTORY_INVALID",
                    "PURCHASE_HISTORY_NOT_FOUND",
                    "APPLICABLE_POLICY_NOT_FOUND", "APPROVED", "CONDITIONAL_REVIEW", "REJECTED"}

ASSUME OracleAssumption ==
    Oracle \in [comparison : STRING, finance : Nat, quote : Nat, quotes : Nat,
                active : BOOLEAN, validOnDate : BOOLEAN]

Specialist == "procurement_specialist"
Engineer == "solution_engineer"
Approver == "finance_approver"
Auditor == "auditor"
Roles == {Specialist, Engineer, Approver, Auditor}

\* The rows of the role matrix the three handlers of this model ask for.
Authorized(role, op) ==
    \/ op \in {"analyze", "intake"} /\ role \in {Specialist, Engineer}
    \/ op = "ask" /\ role \in Roles

(***************************************************************************)
(* Retrieval.                                                              *)
(***************************************************************************)
Entries(w) == {w.manifest[i] : i \in DOMAIN w.manifest}

\* Mutant: what suppliers sent is searched like a policy.
SearchableUntrusted(w, role) == {d \in Entries(w) : role \in d.roles}

Searchable(w, role) == {d \in Entries(w) : d.trusted /\ role \in d.roles}

InForce(d, date) ==
    /\ d.status = "CURRENT"
    /\ d.from <= date
    /\ d.to # None => date <= d.to

\* The attachments a supplier sent that match an injection rule.
Injections(w, supplier) ==
    {d \in Entries(w) : ~d.trusted /\ d.supplier = supplier /\ d.injects}

PolicyCandidates(w, type, date, role) ==
    {d \in Searchable(w, role) : d.type = type /\ InForce(d, date)}

\* Mutant: the sort is not reversed.
BeforeOldest(w, d, e) == d.from <= e.from

\* The sort is stable: of two policies with the same dates and versions the
\* one that comes first in the manifest is taken.
Before(w, d, e) ==
    \/ d.from > e.from
    \/ d.from = e.from /\ d.version > e.version
    \/ /\ d.from = e.from /\ d.version = e.version
       /\ \E i, j \in DOMAIN w.manifest :
             i <= j /\ w.manifest[i] = d /\ w.manifest[j] = e

CurrentPolicy(w, type, date, role) ==
    LET found == PolicyCandidates(w, type, date, role)
    IN IF found = {} THEN None
       ELSE CHOOSE d \in found : \A e \in found : Before(w, d, e)

\* The sections a policy question may be answered from.
SectionCandidates(w, date, role) ==
    UNION {{[document |-> d.id, version |-> d.version, section |-> s] : s \in d.sections}
              : d \in {e \in Searchable(w, role) : InForce(e, date)}}

(***************************************************************************)
(* The analysis of the purchase history.                                   *)
(***************************************************************************)
Relevant(w, q) ==
    {i \in DOMAIN w.history :
        w.history[i].category = q.category /\ w.history[i].status = "COMPLETED"}

Counted(w, q) ==
    {i \in Relevant(w, q) :
        w.history[i].date # Malformed /\ w.history[i].date <= q.date}

\* Mutant: a row is parsed before it is compared with the date.
HistoryInvalidAnywhere(w, q) ==
    \E i \in Relevant(w, q) : Malformed \in {w.history[i].date, w.history[i].amount}

\* A malformed amount is only read in a row that counts.
HistoryInvalid(w, q) ==
    \/ \E i \in Relevant(w, q) : w.history[i].date = Malformed
    \/ \E i \in Counted(w, q) : w.history[i].amount = Malformed

\* The k-th smallest amount of the rows in the set.
Ranked(w, rows, k) ==
    LET upTo(a) == Cardinality({i \in rows : w.history[i].amount <= a})
        below(a) == Cardinality({i \in rows : w.history[i].amount < a})
    IN CHOOSE a \in {w.history[i].amount : i \in rows} : below(a) < k /\ k <= upTo(a)

\* Twice the median: the middle amount, or the mean of the middle two.
MedianTwice(w, rows) ==
    LET n == Cardinality(rows)
    IN Ranked(w, rows, (n + 1) \div 2) + Ranked(w, rows, n \div 2 + 1)

\* Decimal.quantize with ROUND_HALF_UP: ties go away from zero.
HalfUp(num, den) ==
    IF num >= 0 THEN (2 * num + den) \div (2 * den)
                ELSE -((-2 * num + den) \div (2 * den))

\* variance in units of 0.0001 %, and what is displayed in units of 0.1 %.
AnalysisOf(w, q) ==
    LET median2 == MedianTwice(w, Counted(w, q))
        variance == HalfUp((2 * q.amount - median2) * 1000000, median2)
    IN [median2 |-> median2, variance |-> variance, shown |-> HalfUp(variance, 1000),
        lead |-> q.lead - StandardLeadTime]

(***************************************************************************)
(* The rules and their citations.                                          *)
(***************************************************************************)
FinanceRequired(q) == q.amount > FinanceThreshold

\* Mutant: only the rule of the highest threshold is looked at.
QuoteMissingBelowFinance(q) ==
    /\ q.amount > QuoteThreshold /\ q.amount <= FinanceThreshold
    /\ q.quotes < MinimumQuotes

QuoteMissing(q) == q.amount > QuoteThreshold /\ q.quotes < MinimumQuotes

CertificateExpired(s, q) == s.expiry < q.date

Ineligible(s) == MustBeActive /\ s.status # "active"

RulesApplied(q, s) ==
    {r \in {"SUPPLIER_STATUS", "FINANCE_APPROVAL", "ALTERNATIVE_QUOTES", "SUPPLIER_CERTIFICATE"} :
        \/ r = "SUPPLIER_STATUS" /\ Ineligible(s)
        \/ r = "FINANCE_APPROVAL" /\ FinanceRequired(q)
        \/ r = "ALTERNATIVE_QUOTES" /\ QuoteMissing(q)
        \/ r = "SUPPLIER_CERTIFICATE" /\ CertificateExpired(s, q)}

Evaluate(q, analysis, s) ==
    LET rules == RulesApplied(q, s)
    IN [status |-> IF Ineligible(s) THEN "REJECTED"
                   ELSE IF rules # {} THEN "CONDITIONAL_REVIEW" ELSE "APPROVED",
        rules |-> rules,
        warnings |-> {k \in {"PRICE", "LEAD_TIME"} :
                        \/ k = "PRICE" /\ analysis.variance > 0
                        \/ k = "LEAD_TIME" /\ analysis.lead > 0}]

\* The second definition of a decision, which the evaluation of the repository
\* compares with the first over its frozen cases: _policy_oracle of
\* app/evaluation.py.  It reads a file of its own, and switches that the engine
\* does not look at; it raises for any comparison but one.
OracleRaises == Oracle.comparison # "greater_than"

PolicyOracle(q, s) ==
    LET blocks == [finance |-> q.amount > Oracle.finance,
                   quotes |-> q.amount > Oracle.quote /\ q.quotes < Oracle.quotes,
                   certificate |-> Oracle.validOnDate /\ ~(s.expiry >= q.date)]
        status == IF Oracle.active /\ s.status # "active" THEN "REJECTED"
                  ELSE IF blocks.finance \/ blocks.quotes \/ blocks.certificate
                       THEN "CONDITIONAL_REVIEW" ELSE "APPROVED"
    IN [status |-> status, blocks |-> blocks]

RuleCitation ==
    [SUPPLIER_STATUS |-> [type |-> "SUPPLIER_COMPLIANCE_POLICY", section |-> "2.1"],
     FINANCE_APPROVAL |-> [type |-> "PROCUREMENT_POLICY", section |-> "4.2"],
     ALTERNATIVE_QUOTES |-> [type |-> "PROCUREMENT_POLICY", section |-> "4.3"],
     SUPPLIER_CERTIFICATE |-> [type |-> "SUPPLIER_COMPLIANCE_POLICY", section |-> "3.1"]]

References(rules) ==
    IF rules = {} THEN {[type |-> "PROCUREMENT_POLICY", section |-> "4.1"]}
                  ELSE {RuleCitation[r] : r \in rules}

Citations(policies, rules) ==
    {[document |-> policies[ref.type].id, version |-> policies[ref.type].version,
      section |-> ref.section] : ref \in References(rules)}

PolicyTypes == {"PROCUREMENT_POLICY", "SUPPLIER_COMPLIANCE_POLICY"}

(***************************************************************************)
(* The outcome of the computation: a failure code, or the case.  The       *)
(* checks come in the order of the code, so the first failure is reported. *)
(***************************************************************************)
Failed(code) == [failure |-> code, case |-> None]

Outcome(w, q, role) ==
    LET policies == [type \in PolicyTypes |-> CurrentPolicy(w, type, q.date, role)]
        supplier == w.suppliers[q.supplier]
        decision == Evaluate(q, AnalysisOf(w, q), supplier)
        undefined == \E ref \in References(decision.rules) :
                        ref.section \notin policies[ref.type].sections
    IN IF q.supplier \notin DOMAIN w.suppliers THEN Failed("SUPPLIER_NOT_FOUND")
       ELSE IF HistoryInvalid(w, q) THEN Failed("PURCHASE_HISTORY_INVALID")
       ELSE IF Counted(w, q) = {} THEN Failed("PURCHASE_HISTORY_NOT_FOUND")
       ELSE IF None \in {policies[type] : type \in PolicyTypes} \/ undefined
            THEN Failed("APPLICABLE_POLICY_NOT_FOUND")
       ELSE [failure |-> None,
             case |-> [request |-> q, supplier |-> supplier, analysis |-> AnalysisOf(w, q),
                       decision |-> decision,
                       citations |-> Citations(policies, decision.rules)]]
=============================================================================
