------------------------------ MODULE MCAnalysis ------------------------------
(* Analysis for TLC: a handful of requests on both sides of the thresholds *)
(* and dates, and the data of four deployments.                            *)
EXTENDS Analysis, TLC

Symmetry == Permutations(Calls)

Request(date, supplier, amount, quotes) ==
    [id |-> "r1", date |-> date, supplier |-> supplier, category |-> "PARTS",
     amount |-> amount, quotes |-> quotes, lead |-> StandardLeadTime + amount - 2]

MCInputs ==
    {Request(1, "atlas", 1, 1), Request(2, "atlas", 2, 1), Request(2, "atlas", 3, 1),
     Request(2, "vega", 3, 2), Request(2, "ghost", 1, 2)}

Supplier(status, expiry) == [status |-> status, expiry |-> expiry]

Row(date, amount) ==
    [category |-> "PARTS", status |-> "COMPLETED", date |-> date, amount |-> amount]

Proc == "PROCUREMENT_POLICY"
Comp == "SUPPLIER_COMPLIANCE_POLICY"

Doc(id, type, from) ==
    [id |-> id, type |-> type, version |-> from, status |-> "CURRENT", from |-> from, to |-> None,
     roles |-> Roles, trusted |-> TRUE, supplier |-> None, injects |-> FALSE,
     sections |-> IF type = Proc THEN {"4.1", "4.2", "4.3"} ELSE {"2.1", "3.1"}]

\* What suppliers sent: each looks like the newest policy, one injects.
Attachment(id, supplier, injects) ==
    [Doc(id, Proc, 2) EXCEPT !.trusted = FALSE, !.supplier = supplier, !.injects = injects]

\* A superseded policy, one of the future, rows of the future that do not parse.
Base ==
    [suppliers |-> "atlas" :> Supplier("active", 2) @@ "vega" :> Supplier("suspended", 1),
     history |-> <<Row(1, 1), Row(2, 2), Row(3, Malformed), Row(3, 3)>>,
     manifest |-> <<[Doc("proc0", Proc, 2) EXCEPT !.status = "SUPERSEDED"], Doc("proc1", Proc, 1),
                    Doc("proc3", Proc, 3), Doc("comp1", Comp, 1),
                    Attachment("letter", "atlas", TRUE), Attachment("flyer", "vega", FALSE)>>,
     chat |-> FALSE, index |-> FALSE]

\* A newer policy beside the old one, for one role; the certificate expired.
NewPolicy ==
    [Base EXCEPT !.suppliers["atlas"].expiry = 1, !.chat = TRUE, !.index = TRUE,
                 !.history = Append(@, [Row(Malformed, 1) EXCEPT !.category = "OTHER"]),
                 !.manifest = <<[Doc("proc2", Proc, 2) EXCEPT !.roles = {Specialist}]>> \o @]

\* The old policy ends the day before and its successor lacks a section;
\* the compliance policy is closed to one role; the first purchase is of day 2.
Patchy ==
    [Base EXCEPT !.history = Tail(@),
                 !.manifest = <<[Doc("proc1", Proc, 1) EXCEPT !.to = 1],
                                [Doc("proc2", Proc, 2) EXCEPT !.sections = {"4.1", "4.3"}],
                                [Doc("comp1", Comp, 1) EXCEPT !.roles = {Specialist}]>>]

\* A purchase has no readable date, and no policy is in force on day 2.
Broken ==
    [Base EXCEPT !.history = Append(@, Row(Malformed, 1)),
                 !.manifest = <<[Doc("proc1", Proc, 1) EXCEPT !.to = 1],
                                [Doc("comp1", Comp, 1) EXCEPT !.to = 1]>>]

MCOracle ==
    [comparison |-> "greater_than", finance |-> FinanceThreshold, quote |-> QuoteThreshold,
     quotes |-> MinimumQuotes, active |-> MustBeActive, validOnDate |-> TRUE]

MCWorlds == {Base, NewPolicy, Patchy, Broken}
=============================================================================
