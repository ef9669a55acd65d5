--------------------------------- MODULE Page ---------------------------------
(***************************************************************************)
(* The handlers of the demo page (app/static/app.js) that share approvalId *)
(* and the three buttons.  A handler runs without interruption up to its   *)
(* next await, so what it does between two answers is one action; handlers *)
(* of other clicks run in between.  The server is the ledger of approvals, *)
(* which ApprovalStore implements; other users work with it, too.          *)
(*                                                                         *)
(* Approve and reject are enabled and disabled together everywhere, so one *)
(* variable stands for both.  Left out: the loading banner, result texts,  *)
(* metrics, policy questions, and what a form says.                        *)
(***************************************************************************)
EXTENDS Naturals, FiniteSets

CONSTANTS
    Handlers,      \* bound: handlers under way at a time
    Ids,           \* approvals
    Requests,      \* purchase requests
    None,
    MaxAnalyses    \* bound: analyses submitted

ASSUME PageAssumption ==
    /\ None \notin Ids /\ MaxAnalyses \in Nat
    /\ None \notin {"analyze", "preview", "approve", "reject", "execute", "intake", "audit",
                     "ok", "failed", "PENDING", "APPROVED", "REJECTED"}

VARIABLES
    current, granted, fate,    \* the ledger of approvals
    everGranted,    \* history: approvals that were granted at some time
    analyses,       \* analyses submitted; each has a trace id of its own
    quarantined,    \* traces with a SECURITY_CONTENT_QUARANTINED event
    page,           \* what the page shows and remembers
    run,            \* the handlers
    crossed         \* history: a submit overlapped with a button or a submit

server == <<current, granted, fate, everGranted, analyses, quarantined>>
pageVars == <<server, page, run, crossed>>

Ledger == INSTANCE ApprovalLedger

Traces == 1..MaxAnalyses
NoTrace == 0

\* approvalId, analysisTraceId; whether the approval card is visible, whether
\* the decision and execute buttons are enabled; the status the card names;
\* whose preview is on screen; whether the quarantine notice is.
Screen == [approvalId : Ids \cup {None}, traceId : Traces \cup {NoTrace},
           card : BOOLEAN, decide : BOOLEAN, execute : BOOLEAN,
           label : {"PENDING", "APPROVED", "REJECTED", None},
           preview : Ids \cup {None}, notice : BOOLEAN]

\* A handler: the request it waits for, whether it is the audit button's, the approval and the trace it works
\* on, the status the server named, the answer, and the events of an audit.
Idle == [waits |-> None, button |-> FALSE, id |-> None, status |-> None,
         trace |-> NoTrace, answer |-> None, events |-> {}]

Handler == [waits : {None, "analyze", "preview", "approve", "reject", "execute",
                     "intake", "audit"},
            button : BOOLEAN, id : Ids \cup {None},
            status : {"PENDING", "APPROVED", None}, trace : Traces \cup {NoTrace},
            answer : {"ok", "failed", None}, events : SUBSET Traces]

Fresh == [approvalId |-> None, traceId |-> NoTrace, card |-> FALSE,
          decide |-> TRUE, execute |-> FALSE, label |-> None,
          preview |-> None, notice |-> FALSE]

PageInit ==
    /\ Ledger!LedgerInit
    /\ everGranted = {}
    /\ analyses = 0
    /\ quarantined = {}
    /\ page = Fresh
    /\ run = [h \in Handlers |-> Idle]
    /\ crossed = FALSE

-----------------------------------------------------------------------------
(* Clicks                                                                  *)

Buttons == {"approve", "reject", "execute"}
Submits == {"analyze", "preview"}

Waiting(what) == \E h \in Handlers : run[h].waits \in what

Start(h, what) ==
    /\ run[h] = Idle
    /\ run' = [run EXCEPT ![h] = [Idle EXCEPT !.waits = what,
                  !.id = IF what \in Buttons THEN page.approvalId ELSE None]]

\* Nothing keeps the user from submitting the form again.
Submit(h) ==
    /\ analyses < MaxAnalyses
    /\ run[h] = Idle
    /\ run' = [run EXCEPT ![h] = [Idle EXCEPT !.waits = "analyze",
                                              !.trace = analyses + 1]]
    /\ analyses' = analyses + 1
    /\ crossed' = (crossed \/ Waiting(Buttons \cup Submits))
    /\ UNCHANGED <<current, granted, fate, everGranted, quarantined, page>>

Intake(h) ==
    /\ Start(h, "intake")
    /\ UNCHANGED <<server, page, crossed>>

ClickDecision(h, what) ==
    /\ page.card /\ page.decide
    /\ Start(h, what)
    /\ page' = [page EXCEPT !.decide = FALSE]
    /\ crossed' = (crossed \/ Waiting(Submits))
    /\ UNCHANGED server

ClickExecute(h) ==
    /\ page.card /\ page.execute
    /\ Start(h, "execute")
    /\ page' = [page EXCEPT !.execute = FALSE]
    /\ crossed' = (crossed \/ Waiting(Submits))
    /\ UNCHANGED server

\* The audit button is disabled while its own refresh is under way.
ClickAudit(h) ==
    /\ \A g \in Handlers : ~run[g].button
    /\ run[h] = Idle
    /\ run' = [run EXCEPT ![h] = [Idle EXCEPT !.waits = "audit", !.button = TRUE]]
    /\ UNCHANGED <<server, page, crossed>>

-----------------------------------------------------------------------------
(* The server                                                              *)

Answered(h, a) == run' = [run EXCEPT ![h].answer = a]

Unserved(h, what) == run[h].waits = what /\ run[h].answer = None

StatusOf(id) == IF id \in granted THEN "APPROVED" ELSE "PENDING"

\* The approval of the analysed request afterwards is named in the answer.
NamesApproval(h, r) ==
    run' = [run EXCEPT ![h].answer = "ok", ![h].id = current'[r],
                       ![h].status = IF current'[r] = None THEN None
                                     ELSE IF current'[r] \in granted'
                                          THEN "APPROVED" ELSE "PENDING"]

\* An analysis reuses the current approval, opens or replaces one, or leaves
\* the request without one.  It may find instructions in an attachment.
ServeAnalyze(h) ==
    /\ Unserved(h, "analyze")
    /\ \E r \in Requests :
          /\ \/ UNCHANGED <<current, granted, fate>>
             \/ Ledger!Close(r, "SUPERSEDED")
             \/ \E id \in Ids : Ledger!Open(r, id) \/ Ledger!Replace(r, id, "SUPERSEDED")
          /\ NamesApproval(h, r)
    /\ quarantined' \in {quarantined, quarantined \cup {run[h].trace}}
    /\ UNCHANGED <<everGranted, analyses, page, crossed>>

ServeApprove(h) ==
    /\ Unserved(h, "approve")
    /\ \E r \in Requests : current[r] = run[h].id /\ Ledger!Grant(r)
    /\ everGranted' = everGranted \cup {run[h].id}
    /\ Answered(h, "ok")
    /\ UNCHANGED <<analyses, quarantined, page, crossed>>

ServeReject(h) ==
    /\ Unserved(h, "reject")
    /\ \E r \in Requests : current[r] = run[h].id /\ Ledger!Close(r, "REJECTED")
    /\ Answered(h, "ok")
    /\ UNCHANGED <<everGranted, analyses, quarantined, page, crossed>>

ServeExecute(h) ==
    /\ Unserved(h, "execute")
    /\ run[h].id \in granted
    /\ Answered(h, "ok")
    /\ UNCHANGED <<server, page, crossed>>

ServeRead(h) ==
    /\ Unserved(h, "preview") \/ Unserved(h, "intake")
    /\ Answered(h, "ok")
    /\ UNCHANGED <<server, page, crossed>>

ServeAudit(h) ==
    /\ Unserved(h, "audit")
    /\ run' = [run EXCEPT ![h].answer = "ok", ![h].events = quarantined]
    /\ UNCHANGED <<server, page, crossed>>

\* A request is answered with an error status (a role, a status, the rate
\* limit, an unknown id), or it or its answer is lost and fetch throws; what
\* the answer said is lost with it.
Fail(h) ==
    /\ run[h].waits # None
    /\ run' = [run EXCEPT ![h] =
                  [(IF @.waits = "analyze" THEN [@ EXCEPT !.id = None, !.status = None] ELSE @)
                      EXCEPT !.answer = "failed", !.events = {}]]
    /\ UNCHANGED <<server, page, crossed>>

\* Other users analyse and decide, and approvals expire.
Others ==
    /\ Ledger!LedgerNext
    /\ everGranted' = everGranted \cup granted'
    /\ UNCHANGED <<analyses, quarantined, page, run, crossed>>

-----------------------------------------------------------------------------
(* Answers                                                                 *)

Ok(h) == run[h].answer = "ok"

Ends(h) == run' = [run EXCEPT ![h] = Idle]

\* refreshAudit, with which most handlers end.
Refreshes(h) == run' = [run EXCEPT ![h] = [Idle EXCEPT !.waits = "audit"]]

\* clearAnalysisResult
Cleared == [page EXCEPT !.approvalId = None, !.traceId = NoTrace, !.card = FALSE,
                        !.decide = FALSE, !.execute = FALSE]

\* Only an error status is followed by a refresh.
AnalysisFails(h) ==
    /\ run[h].waits = "analyze" /\ run[h].answer = "failed"
    /\ page' = Cleared
    /\ Refreshes(h) \/ Ends(h)
    /\ UNCHANGED <<server, crossed>>

\* Mutant: the notice of the last analysis stays.
AnalysisWithApprovalNoticed(h) ==
    /\ run[h].waits = "analyze" /\ Ok(h) /\ run[h].id # None
    /\ page' = [page EXCEPT !.approvalId = run[h].id, !.traceId = run[h].trace,
                            !.card = TRUE, !.label = run[h].status,
                            !.decide = FALSE, !.execute = FALSE]
    /\ run' = [run EXCEPT ![h].waits = "preview", ![h].answer = None]
    /\ UNCHANGED <<server, crossed>>

\* The approval is shown with its buttons disabled, and its preview is asked for.
AnalysisWithApproval(h) ==
    /\ run[h].waits = "analyze" /\ Ok(h) /\ run[h].id # None
    /\ page' = [page EXCEPT !.approvalId = run[h].id, !.traceId = run[h].trace,
                            !.card = TRUE, !.label = run[h].status, !.notice = FALSE,
                            !.decide = FALSE, !.execute = FALSE]
    /\ run' = [run EXCEPT ![h].waits = "preview", ![h].answer = None]
    /\ UNCHANGED <<server, crossed>>

\* Mutant: the card of the last approval stays.
AnalysisWithoutApprovalCard(h) ==
    /\ run[h].waits = "analyze" /\ Ok(h) /\ run[h].id = None
    /\ page' = [page EXCEPT !.approvalId = None, !.traceId = run[h].trace,
                            !.notice = FALSE]
    /\ Refreshes(h)
    /\ UNCHANGED <<server, crossed>>

AnalysisWithoutApproval(h) ==
    /\ run[h].waits = "analyze" /\ Ok(h) /\ run[h].id = None
    /\ page' = [page EXCEPT !.approvalId = None, !.traceId = run[h].trace,
                            !.card = FALSE, !.notice = FALSE]
    /\ Refreshes(h)
    /\ UNCHANGED <<server, crossed>>

\* Mutant: a failed preview does not keep the decision back.
PreviewAnsweredAnyhow(h) ==
    /\ run[h].waits = "preview" /\ run[h].answer # None
    /\ page' = [page EXCEPT !.preview = IF Ok(h) THEN run[h].id ELSE None,
                            !.decide = (run[h].status = "PENDING"),
                            !.execute = (run[h].status = "APPROVED")]
    /\ Refreshes(h)
    /\ UNCHANGED <<server, crossed>>

\* renderActionPreview and applyApprovalState, with the status that the
\* analysis named.
PreviewAnswered(h) ==
    /\ run[h].waits = "preview" /\ run[h].answer # None
    /\ page' = [page EXCEPT !.preview = IF Ok(h) THEN run[h].id ELSE None,
                            !.decide = (run[h].status = "PENDING" /\ Ok(h)),
                            !.execute = (run[h].status = "APPROVED")]
    /\ Refreshes(h)
    /\ UNCHANGED <<server, crossed>>

ApproveAnswered(h) ==
    /\ run[h].waits = "approve" /\ run[h].answer # None
    /\ page' = [page EXCEPT !.label = IF Ok(h) THEN "APPROVED" ELSE @,
                            !.decide = ~Ok(h), !.execute = Ok(h)]
    /\ Refreshes(h)
    /\ UNCHANGED <<server, crossed>>

\* Mutant: a rejection that failed is taken for an approval.
RejectAnsweredExecutable(h) ==
    /\ run[h].waits = "reject" /\ run[h].answer # None
    /\ page' = [page EXCEPT !.label = IF Ok(h) THEN "REJECTED" ELSE @,
                            !.decide = ~Ok(h), !.execute = ~Ok(h)]
    /\ Refreshes(h)
    /\ UNCHANGED <<server, crossed>>

RejectAnswered(h) ==
    /\ run[h].waits = "reject" /\ run[h].answer # None
    /\ page' = [page EXCEPT !.label = IF Ok(h) THEN "REJECTED" ELSE @,
                            !.decide = ~Ok(h), !.execute = FALSE]
    /\ Refreshes(h)
    /\ UNCHANGED <<server, crossed>>

\* The button is enabled again, whatever the answer.
ExecuteAnswered(h) ==
    /\ run[h].waits = "execute" /\ run[h].answer # None
    /\ page' = [page EXCEPT !.execute = TRUE]
    /\ Refreshes(h)
    /\ UNCHANGED <<server, crossed>>

IntakeAnswered(h) ==
    /\ run[h].waits = "intake" /\ run[h].answer # None
    /\ page' = IF Ok(h) THEN Cleared ELSE page
    /\ Ends(h)
    /\ UNCHANGED <<server, crossed>>

\* renderSecurityNotice compares with the trace of the moment.
AuditAnswered(h) ==
    /\ run[h].waits = "audit" /\ run[h].answer # None
    /\ page' = IF Ok(h) THEN [page EXCEPT !.notice = page.traceId \in run[h].events]
               ELSE page
    /\ Ends(h)
    /\ UNCHANGED <<server, crossed>>

\* The page is loaded anew; what is under way loses its listener.
Reload ==
    /\ page' = Fresh
    /\ run' = [h \in Handlers |-> Idle]
    /\ crossed' = FALSE
    /\ UNCHANGED server

Click(h) ==
    \/ Submit(h)
    \/ Intake(h)
    \/ ClickDecision(h, "approve")
    \/ ClickDecision(h, "reject")
    \/ ClickExecute(h)
    \/ ClickAudit(h)

Serve(h) ==
    \/ ServeAnalyze(h)
    \/ ServeApprove(h)
    \/ ServeReject(h)
    \/ ServeExecute(h)
    \/ ServeRead(h)
    \/ ServeAudit(h)
    \/ Fail(h)

Continue(h) ==
    \/ AnalysisFails(h)
    \/ AnalysisWithApproval(h)
    \/ AnalysisWithoutApproval(h)
    \/ PreviewAnswered(h)
    \/ ApproveAnswered(h)
    \/ RejectAnswered(h)
    \/ ExecuteAnswered(h)
    \/ IntakeAnswered(h)
    \/ AuditAnswered(h)

PageNext ==
    \/ \E h \in Handlers : Click(h) \/ Serve(h) \/ Continue(h)
    \/ Others
    \/ Reload

PageSpec == PageInit /\ [][PageNext]_pageVars

-----------------------------------------------------------------------------
(* Properties                                                              *)

\* The types; an approval card that is visible is the card of an approval, and
\* every request about an approval names one, whatever handlers overlap.
PageTypeOK ==
    /\ Ledger!LedgerTypeOK
    /\ everGranted \in SUBSET Ids
    /\ analyses \in 0..MaxAnalyses
    /\ quarantined \in SUBSET (1..analyses)
    /\ page \in Screen
    /\ page.card => page.approvalId # None
    /\ run \in [Handlers -> Handler]
    /\ \A h \in Handlers :
          run[h].waits \in {"preview"} \cup Buttons => run[h].id \in Ids
    /\ crossed \in BOOLEAN

\* Approve and reject can be clicked only while the preview on screen is the
\* preview of the approval they decide, as long as no submit overlaps with a
\* button or a submit.  Drafts, refreshes, reloads, failed and lost answers
\* and what others do meanwhile do not matter.
DecidesWhatIsShown ==
    ~crossed /\ page.card /\ page.decide => page.preview = page.approvalId

\* On the same condition the page says APPROVED and offers to execute only an
\* approval that was granted.  Without any condition the notice of a
\* quarantined attachment is about the analysis on screen, in whatever order
\* audits and analyses are answered.
ScreenTruthful ==
    /\ ~crossed /\ page.card /\ (page.execute \/ page.label = "APPROVED") =>
          page.approvalId \in everGranted
    /\ page.notice /\ page.traceId # NoTrace => page.traceId \in quarantined

\* "Approve and reject controls that stay disabled until the action preview
\* loads" (README.md): without the condition of DecidesWhatIsShown.
PreviewBeforeDecision ==
    page.card /\ page.decide => page.preview = page.approvalId
=============================================================================
