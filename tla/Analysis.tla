------------------------------- MODULE Analysis -------------------------------
(***************************************************************************)
(* The handlers of ProcurementService that compute or ask something:       *)
(* analyze, from the request to the narration, draft_intake and            *)
(* ask_policy_question (app/service.py), with the approvals they open and  *)
(* the audit events each leaves under its trace id.                        *)
(*                                                                         *)
(* A call is one request to the API.  Calls run in threads of their own    *)
(* and interleave; a restart ends all of them and may bring other data,    *)
(* while the approvals, the cases and the trail stay in the database.      *)
(* Each audit event is a transaction of its own, so a call can end between *)
(* any two of them.                                                        *)
(*                                                                         *)
(* Module Workflow refines what happens from the claim of an approval on,  *)
(* for an arbitrary fingerprint; here the claim is one step and the        *)
(* fingerprint is that of the computed case.                               *)
(***************************************************************************)
EXTENDS Decision

CONSTANTS
    Calls,
    Worlds,       \* the data a process may be started with
    Inputs,       \* the purchase requests users send
    TopK,         \* sections an answer shows at most
    MaxRestarts   \* bound: restarts of the process

\* PurchaseRequest admits whole numbers of quotes; purchases have a price, so a
\* median is never zero; documents.json is a list, and every entry has a day from
\* which it counts and a version.
ASSUME AnalysisAssumption ==
    /\ IsFiniteSet(Calls) /\ TopK \in Nat /\ MaxRestarts \in Nat
    /\ \A q \in Inputs : q.amount \in Nat \ {0} /\ q.quotes \in Nat
    /\ \A w \in Worlds : \A i \in DOMAIN w.history :
          w.history[i].amount = Malformed \/ w.history[i].amount \in Nat \ {0}
    /\ \A w \in Worlds :
          /\ w.manifest \in Seq(Entries(w))
          /\ \A d \in Entries(w) : d.from \in Int /\ d.version \in Int
    /\ \A w \in Worlds, q \in Inputs, role \in Roles : None # Outcome(w, q, role)

VARIABLES
    world,       \* the data of the running process
    restarts,
    call,        \* each call: what was asked and how far it is
    approvals,   \* the approvals in the order they were opened
    trail        \* the audit events of each call, in order

analysisVars == <<world, restarts, call, approvals, trail>>

Idle == [op |-> None, pc |-> "idle", role |-> None, asked |-> None, world |-> None,
         attachments |-> {}, outcome |-> None, approval |-> None, reused |-> FALSE,
         said |-> 0, superseded |-> {}, shown |-> {}]

AnalysisInit ==
    /\ world \in Worlds
    /\ restarts = 0
    /\ call = [c \in Calls |-> Idle]
    /\ approvals = <<>>
    /\ trail = [c \in Calls |-> <<>>]

Event(type, about) == [type |-> type, about |-> about]

Audit(c, event) == trail' = [trail EXCEPT ![c] = Append(@, event)]

(***************************************************************************)
(* A role that may not do it is told so and the denial is audited.         *)
(***************************************************************************)
Deny(c, op, role) ==
    /\ call[c].pc = "idle"
    /\ ~Authorized(role, op)
    /\ call' = [call EXCEPT ![c] = [Idle EXCEPT !.op = op, !.role = role, !.pc = "denied"]]
    /\ Audit(c, Event("AUTHORIZATION_DENIED", op))
    /\ UNCHANGED <<world, restarts, approvals>>

(***************************************************************************)
(* analyze.                                                                *)
(***************************************************************************)
Receive(c, role, q) ==
    /\ call[c].pc = "idle"
    /\ Authorized(role, "analyze")
    /\ call' = [call EXCEPT ![c] = [Idle EXCEPT !.op = "analyze", !.role = role, !.asked = q,
                                                !.pc = "received", !.world = world,
                                                !.attachments = Injections(world, q.supplier)]]
    /\ Audit(c, Event("REQUEST_RECEIVED", q.amount))
    /\ UNCHANGED <<world, restarts, approvals>>

\* Mutant: an attachment that is quarantined is looked at again.
QuarantineAgain(c) ==
    /\ call[c].pc = "received"
    /\ \E d \in call[c].attachments :
          /\ \/ call' = [call EXCEPT ![c].attachments = @ \ {d}]
             \/ UNCHANGED call
          /\ Audit(c, Event("SECURITY_CONTENT_QUARANTINED", d))
    /\ UNCHANGED <<world, restarts, approvals>>

\* First the attachments are quarantined one by one,
Quarantine(c) ==
    /\ call[c].pc = "received"
    /\ \E d \in call[c].attachments :
          /\ call' = [call EXCEPT ![c].attachments = @ \ {d}]
          /\ Audit(c, Event("SECURITY_CONTENT_QUARANTINED", d))
    /\ UNCHANGED <<world, restarts, approvals>>

\* then the case is computed,
Assess(c) ==
    LET outcome == Outcome(world, call[c].asked, call[c].role)
    IN /\ call[c].pc = "received" /\ call[c].attachments = {}
       /\ call' = [call EXCEPT ![c].outcome = outcome,
                               ![c].pc = IF outcome.failure # None THEN "failing" ELSE "assessed"]
       /\ UNCHANGED <<world, restarts, approvals, trail>>

\* and an error is audited before the user gets it.
Fail(c) ==
    /\ call[c].pc = "failing"
    /\ call' = [call EXCEPT ![c].pc = "failed"]
    /\ Audit(c, Event("ANALYSIS_FAILED", call[c].outcome.failure))
    /\ UNCHANGED <<world, restarts, approvals>>

\* Mutant: an approval is reused although the policies cited are others.
FingerprintUncited(case) == [case EXCEPT !.citations = {}]

\* What an approval covers: the whole case the decision rests on.
Fingerprint(case) == case

LiveOf(request) ==
    {i \in DOMAIN approvals : approvals[i].live /\ approvals[i].request = request}

\* reconcile_approval: reuse the live approval that covers the case or open
\* one, if the decision needs any; every other live one is superseded.
Claim(c) ==
    LET case == call[c].outcome.case
        live == LiveOf(case.request.id)
        covering == {i \in live : approvals[i].fingerprint = Fingerprint(case)}
        needed == case.decision.status = "CONDITIONAL_REVIEW"
        kept == IF needed THEN covering ELSE {}
        opened == IF needed /\ kept = {}
                  THEN <<[request |-> case.request.id, fingerprint |-> Fingerprint(case),
                          live |-> TRUE, case |-> None]>>
                  ELSE <<>>
    IN /\ call[c].pc = "assessed"
       /\ approvals' = [i \in DOMAIN approvals |->
                          [approvals[i] EXCEPT !.live = @ /\ i \notin live \ kept]] \o opened
       /\ call' = [call EXCEPT
             ![c].pc = IF opened # <<>> THEN "claimed" ELSE "reporting",
             ![c].approval = IF ~needed THEN None
                             ELSE IF kept # {} THEN CHOOSE i \in kept : TRUE
                             ELSE Len(approvals) + 1,
             ![c].reused = kept # {},
             ![c].superseded = live \ kept]
       /\ UNCHANGED <<world, restarts, trail>>

\* A new approval gets its case; a reused one keeps the case it has.
SaveCase(c) ==
    /\ call[c].pc = "claimed"
    /\ approvals' = [approvals EXCEPT ![call[c].approval].case = call[c].outcome.case]
    /\ call' = [call EXCEPT ![c].pc = "reporting"]
    /\ UNCHANGED <<world, restarts, trail>>

\* Mutant: a reused approval is announced like a new one.
AnnouncementsUniform(k) ==
    LET case == k.outcome.case
    IN <<Event("POLICY_RETRIEVED", case.citations), Event("PURCHASE_ANALYZED", case.analysis),
         Event("POLICY_EVALUATED", case.decision.status)>>
       \o IF k.approval = None THEN <<>> ELSE <<Event("APPROVAL_REQUESTED", k.approval)>>

\* What the trail is told of a computed case,
Announcements(k) ==
    LET case == k.outcome.case
    IN <<Event("POLICY_RETRIEVED", case.citations), Event("PURCHASE_ANALYZED", case.analysis),
         Event("POLICY_EVALUATED", case.decision.status)>>
       \o IF k.approval = None THEN <<>>
          ELSE <<Event(IF k.reused THEN "APPROVAL_REUSED" ELSE "APPROVAL_REQUESTED", k.approval)>>

\* one event at a time,
Report(c) ==
    LET said == call[c].said + 1
    IN /\ call[c].pc = "reporting"
       /\ said \in DOMAIN Announcements(call[c])
       /\ call' = [call EXCEPT ![c].said = said]
       /\ Audit(c, Announcements(call[c])[said])
       /\ UNCHANGED <<world, restarts, approvals>>

Announced(k) == k.said = Len(Announcements(k))

\* and then of every approval it superseded.
ReportSuperseded(c) ==
    /\ call[c].pc = "reporting" /\ Announced(call[c])
    /\ \E a \in call[c].superseded :
          /\ call' = [call EXCEPT ![c].superseded = @ \ {a}]
          /\ Audit(c, Event("APPROVAL_SUPERSEDED", a))
    /\ UNCHANGED <<world, restarts, approvals>>

Reported(c) ==
    call[c].pc = "reporting" /\ Announced(call[c]) /\ call[c].superseded = {}

\* Mutant: a provider that fails makes the analysis fail.
NarrateFailing(c) ==
    /\ Reported(c)
    /\ \/ /\ call' = [call EXCEPT ![c].pc = "answered"]
          /\ UNCHANGED trail
       \/ /\ world.chat
          /\ call' = [call EXCEPT ![c].pc = "failed"]
          /\ Audit(c, Event("ANALYSIS_FAILED", "LLM_UNAVAILABLE"))
    /\ UNCHANGED <<world, restarts, approvals>>

\* The answer is sent with a narrative, or without one when no provider is
\* configured, it returns blank text or, which is audited, it fails.
Narrate(c) ==
    /\ Reported(c)
    /\ call' = [call EXCEPT ![c].pc = "answered"]
    /\ \/ UNCHANGED trail
       \/ world.chat /\ Audit(c, Event("NARRATION_SKIPPED", None))
    /\ UNCHANGED <<world, restarts, approvals>>

(***************************************************************************)
(* draft_intake: the completion parses, or one of three failures.          *)
(***************************************************************************)
IntakeFailures ==
    IF world.chat THEN {"LLM_UNAVAILABLE", "INTAKE_EXTRACTION_FAILED"} ELSE {"LLM_DISABLED"}

IntakeFails(c, role, code) ==
    /\ call[c].pc = "idle"
    /\ Authorized(role, "intake")
    /\ code \in IntakeFailures
    /\ call' = [call EXCEPT ![c] = [Idle EXCEPT !.op = "intake", !.role = role, !.pc = "failed",
                                                !.outcome = [failure |-> code, case |-> None]]]
    /\ Audit(c, Event("INTAKE_FAILED", code))
    /\ UNCHANGED <<world, restarts, approvals>>

IntakeDrafted(c, role) ==
    /\ call[c].pc = "idle"
    /\ Authorized(role, "intake")
    /\ world.chat
    /\ call' = [call EXCEPT ![c] = [Idle EXCEPT !.op = "intake", !.role = role, !.pc = "answered"]]
    /\ Audit(c, Event("INTAKE_DRAFTED", None))
    /\ UNCHANGED <<world, restarts, approvals>>

(***************************************************************************)
(* ask_policy_question.  Scores only order the candidates: any TopK of     *)
(* them may be shown, and with an index the mode is "hybrid" unless the    *)
(* index or the provider fails.                                            *)
(***************************************************************************)
AskFails(c, role, date) ==
    /\ call[c].pc = "idle"
    /\ Authorized(role, "ask")
    /\ SectionCandidates(world, date, role) = {}
    /\ call' = [call EXCEPT ![c] = [Idle EXCEPT !.op = "ask", !.role = role, !.asked = date,
                     !.world = world, !.pc = "failed",
                     !.outcome = [failure |-> "APPLICABLE_POLICY_NOT_FOUND", case |-> None]]]
    /\ Audit(c, Event("POLICY_QA_FAILED", "APPLICABLE_POLICY_NOT_FOUND"))
    /\ UNCHANGED <<world, restarts, approvals>>

AskAnswered(c, role, date, mode) ==
    /\ call[c].pc = "idle"
    /\ Authorized(role, "ask")
    /\ SectionCandidates(world, date, role) # {}
    /\ mode = "hybrid" => world.index
    /\ \E n \in 0..TopK : \E ranked \in [1..n -> SectionCandidates(world, date, role)] :
          LET top == {ranked[i] : i \in 1..n}
          IN /\ call' = [call EXCEPT ![c] = [Idle EXCEPT !.op = "ask", !.role = role, !.asked = date,
                              !.world = world, !.pc = "answered", !.shown = top]]
             /\ Audit(c, Event("POLICY_QA", [mode |-> mode, sections |-> {s.section : s \in top}]))
    /\ UNCHANGED <<world, restarts, approvals>>

(***************************************************************************)
(* The rest of the system.                                                 *)
(***************************************************************************)
Ended == {"denied", "failed", "answered", "dead"}

\* A statement raises what no handler catches ("database is locked"), and the
\* user gets a 500.  What the call committed stays.
Raise(c) ==
    /\ call[c].pc \notin Ended \cup {"idle"}
    /\ call' = [call EXCEPT ![c].pc = "dead"]
    /\ UNCHANGED <<world, restarts, approvals, trail>>

\* An approval ends by a rejection or its deadline, see ApprovalStore.
Lapse(i) ==
    /\ approvals[i].live
    /\ approvals' = [approvals EXCEPT ![i].live = FALSE]
    /\ UNCHANGED <<world, restarts, call, trail>>

\* Mutant: the database is not on a volume that outlives the process.
RestartEphemeral(w) ==
    /\ restarts < MaxRestarts
    /\ restarts' = restarts + 1
    /\ world' = w
    /\ approvals' = <<>>
    /\ call' = [c \in Calls |-> IF call[c].pc \in Ended \cup {"idle"} THEN call[c]
                                ELSE [call[c] EXCEPT !.pc = "dead"]]
    /\ UNCHANGED trail

\* The process dies, with the calls it runs, and is started again.
Restart(w) ==
    /\ restarts < MaxRestarts
    /\ restarts' = restarts + 1
    /\ world' = w
    /\ call' = [c \in Calls |-> IF call[c].pc \in Ended \cup {"idle"} THEN call[c]
                                ELSE [call[c] EXCEPT !.pc = "dead"]]
    /\ UNCHANGED <<approvals, trail>>

Ask(c, role, date) ==
    \/ AskFails(c, role, date)
    \/ \E mode \in {"lexical", "hybrid"} : AskAnswered(c, role, date, mode)

Intake(c, role) ==
    \/ IntakeDrafted(c, role)
    \/ \E code \in {"LLM_DISABLED", "LLM_UNAVAILABLE", "INTAKE_EXTRACTION_FAILED"} :
          IntakeFails(c, role, code)

AnalysisNext ==
    \/ \E c \in Calls, role \in Roles :
          \/ \E op \in {"analyze", "intake", "ask"} : Deny(c, op, role)
          \/ \E q \in Inputs : Receive(c, role, q)
          \/ \E date \in {q.date : q \in Inputs} : Ask(c, role, date)
          \/ Intake(c, role)
    \/ \E c \in Calls :
          \/ Quarantine(c)
          \/ Assess(c)
          \/ Fail(c)
          \/ Claim(c)
          \/ SaveCase(c)
          \/ Report(c)
          \/ ReportSuperseded(c)
          \/ Narrate(c)
          \/ Raise(c)
    \/ \E i \in DOMAIN approvals : Lapse(i)
    \/ \E w \in Worlds : Restart(w)

AnalysisSpec == AnalysisInit /\ [][AnalysisNext]_analysisVars

(***************************************************************************)
(* Properties.                                                             *)
(***************************************************************************)
\* The variables keep their types, an approval is opened by some call, and
\* only a failure stops a call before the claim.
AnalysisTypeOK ==
    /\ world \in Worlds
    /\ restarts \in 0..MaxRestarts
    /\ DOMAIN call = Calls /\ DOMAIN trail = Calls
    /\ \A c \in Calls :
          /\ call[c].op \in {None, "analyze", "intake", "ask"}
          /\ call[c].pc \in Ended \cup {"idle", "received", "failing", "assessed", "claimed", "reporting"}
          /\ call[c].approval \in {None} \cup DOMAIN approvals
          /\ call[c].superseded \subseteq DOMAIN approvals
          /\ call[c].said \in 0..4
          /\ call[c].pc \in {"assessed", "claimed", "reporting"} => call[c].outcome.failure = None
    /\ \A a \in DOMAIN approvals : \E c \in Calls : call[c].approval = a /\ ~call[c].reused

Closing == {"AUTHORIZATION_DENIED", "ANALYSIS_FAILED", "POLICY_EVALUATED", "INTAKE_FAILED",
            "INTAKE_DRAFTED", "POLICY_QA", "POLICY_QA_FAILED"}

Written(c, types) == {e \in {trail[c][i] : i \in DOMAIN trail[c]} : e.type \in types}

Times(c, types) == Cardinality({i \in DOMAIN trail[c] : trail[c][i].type \in types})

\* A call's trace closes once, with what the user was told: a denial is all
\* of its trace, a failure comes last, with its code, and an answered
\* analysis is reported with its decision, also when the narration failed.
\* A call that died says the same, or nothing.
ClosedAsTold(c) ==
    LET k == call[c]
        last == trail[c][Len(trail[c])]
        closing == Written(c, Closing)
    IN /\ Times(c, Closing) <= 1
       /\ k.pc \in {"denied", "failed", "answered"} => Times(c, Closing) = 1
       /\ k.pc = "denied" => trail[c] = <<Event("AUTHORIZATION_DENIED", k.op)>>
       /\ k.pc = "failed" =>
             /\ last.type \in {"ANALYSIS_FAILED", "INTAKE_FAILED", "POLICY_QA_FAILED"}
             /\ last.about = k.outcome.failure
             /\ k.approval = None
       /\ k.op = "analyze" /\ k.pc # "denied" =>
             /\ trail[c][1].type = "REQUEST_RECEIVED"
             /\ closing \subseteq
                   IF k.outcome = None THEN {}
                   ELSE IF k.outcome.failure # None THEN {Event("ANALYSIS_FAILED", k.outcome.failure)}
                   ELSE {Event("POLICY_EVALUATED", k.outcome.case.decision.status)}

\* An approval was announced as requested once, unless the call that opened
\* it is still at it or died; it is reported as superseded at most once, and
\* only when it is not relied on any more.
Accounted(a) ==
    LET tellers(type) == {c \in Calls : Event(type, a) \in Written(c, {type})}
        requesters == tellers("APPROVAL_REQUESTED")
    IN /\ Cardinality(requesters) <= 1
       /\ \/ requesters # {}
          \/ \E c \in Calls : call[c].approval = a /\ call[c].pc \in {"claimed", "reporting", "dead"}
       /\ Cardinality(tellers("APPROVAL_SUPERSEDED")) <= 1
       /\ tellers("APPROVAL_SUPERSEDED") # {} => ~approvals[a].live

Received == {c \in Calls : call[c].op = "analyze" /\ call[c].pc # "denied"}

Computed == {c \in Calls : call[c].op = "analyze" /\ call[c].outcome # None}

Decided == {c \in Computed : call[c].outcome.failure = None}

\* The counters of the pilot metrics that this trail feeds.
Tally(types, about) ==
    Cardinality({e \in UNION {{c} \X DOMAIN trail[c] : c \in Calls} :
                    /\ trail[e[1]][e[2]].type \in types
                    /\ about = None \/ trail[e[1]][e[2]].about = about})

_DENIED_OR_BLOCKED ==
    {"AUTHORIZATION_DENIED", "APPROVAL_DENIED", "TOOL_EXECUTION_DENIED", "TOOL_EXECUTION_BLOCKED"}

summarize ==
    [decisions |-> [s \in {"APPROVED", "CONDITIONAL_REVIEW", "REJECTED"} |->
                       Tally({"POLICY_EVALUATED"}, s)],
     superseded |-> Tally({"APPROVAL_SUPERSEDED"}, None),
     quarantined |-> Tally({"SECURITY_CONTENT_QUARANTINED"}, None),
     denied |-> Tally(_DENIED_OR_BLOCKED, None)]

\* The metrics count every analysis that was answered, once and under what its
\* user was told, none that failed, each attachment an analysis came across, once
\* and before it decides, and no approval as superseded that is live.
MetricsTellOutcome ==
    LET metrics == summarize
        of(s) == {c \in Decided : call[c].outcome.case.decision.status = s}
        injected(S) == UNION {{c} \X Injections(call[c].world, call[c].asked.supplier) : c \in S}
    IN /\ \A s \in DOMAIN metrics.decisions :
             metrics.decisions[s] \in
                Cardinality({c \in of(s) : call[c].pc = "answered"}) .. Cardinality(of(s))
       /\ metrics.superseded <= Cardinality({a \in DOMAIN approvals : ~approvals[a].live})
       /\ metrics.quarantined \in Cardinality(injected(Computed)) .. Cardinality(injected(Received))
       /\ metrics.denied = Cardinality({c \in Calls : call[c].pc = "denied"})

\* The audit trail tells what became of every call and of every approval, and
\* so do the metrics that are derived from it.
TrailTellsOutcome ==
    /\ \A c \in Calls : ClosedAsTold(c)
    /\ \A a \in DOMAIN approvals : Accounted(a)
    /\ MetricsTellOutcome

\* Analyses that were handed the same approval, also across a restart with
\* other data, agree in everything an approver is shown, and the snapshot of
\* the case is theirs.  Only a decision that asks for a review has one.
ReuseSameEvidence ==
    \A c, d \in {e \in Calls : call[e].approval # None} :
        /\ call[c].outcome.case.decision.status = "CONDITIONAL_REVIEW"
        /\ approvals[call[c].approval].case \in {None, call[c].outcome.case}
        /\ call[c].approval = call[d].approval =>
              LET one == call[c].outcome.case
                  other == call[d].outcome.case
              IN /\ one.request = other.request /\ one.decision = other.decision
                 /\ one.supplier = other.supplier /\ one.citations = other.citations

\* Whatever a user is shown of a policy is trusted, open to the role, and in
\* force at the date; what an analysis cites could have been found by asking,
\* is never from a policy a newer one in force replaces for that reader, and
\* is one section per applied rule, from the policy the rule belongs to.
Grounded ==
    /\ \A c \in Calls : \A s \in call[c].shown : \E d \in Entries(call[c].world) :
          /\ d.id = s.document /\ s.section \in d.sections
          /\ d.trusted /\ call[c].role \in d.roles /\ d.status = "CURRENT"
          /\ d.from <= call[c].asked /\ (d.to = None \/ d.to >= call[c].asked)
    /\ \A c \in Decided :
          LET k == call[c]
              cites == k.outcome.case.citations
              rules == k.outcome.case.decision.rules
          IN /\ cites \subseteq SectionCandidates(k.world, k.asked.date, k.role)
             /\ \A x \in cites : \E d \in Entries(k.world) :
                   /\ d.id = x.document
                   /\ ~\E e \in Searchable(k.world, k.role) :
                         e.type = d.type /\ InForce(e, k.asked.date) /\ e.from > d.from
             /\ {x.section : x \in cites} =
                   IF rules = {} THEN {"4.1"} ELSE {RuleCitation[r].section : r \in rules}

\* A request that asks for more, or comes with fewer quotes, is never judged
\* more mildly: every rule that applied still applies.
StricterNeverMilder ==
    \A c, d \in Decided :
        LET one == call[c].outcome.case
            other == call[d].outcome.case
        IN /\ call[c].world = call[d].world
           /\ one.request.supplier = other.request.supplier
           /\ one.request.date = other.request.date
           /\ one.request.amount <= other.request.amount
           /\ one.request.quotes >= other.request.quotes
           => /\ one.decision.rules \subseteq other.decision.rules
              /\ one.decision.status = "REJECTED" => other.decision.status = "REJECTED"
              /\ one.decision.status = "CONDITIONAL_REVIEW" => other.decision.status # "APPROVED"

\* The data as it was known on a day: of the purchases and of the policies only
\* those of that day or before, in the places they have in the lists.  What the
\* decision computes looks at the lists only place by place.
Past(w, date) ==
    LET rows == {i \in DOMAIN w.history :
                    w.history[i].date = Malformed \/ w.history[i].date <= date}
        policies == {i \in DOMAIN w.manifest : w.manifest[i].from <= date}
    IN [suppliers |-> w.suppliers,
        history |-> [i \in rows |-> w.history[i]],
        manifest |-> [i \in policies |-> w.manifest[i]]]

WithoutFuture ==
    [w \in Worlds |-> [q \in Inputs |-> [role \in Roles |-> Outcome(Past(w, q.date), q, role)]]]

\* Purchases and policies from after the date of a request have no say in it:
\* without them it fails or is decided in the same way.
FutureHasNoSay ==
    \A c \in Computed :
        call[c].outcome = WithoutFuture[call[c].world][call[c].asked][call[c].role]
=============================================================================
