----------------------------- MODULE Page_proofs -----------------------------
(***************************************************************************)
(* Theorems of Page, for any number of handlers, approvals, requests and   *)
(* analyses.                                                               *)
(***************************************************************************)
EXTENDS Page, TLAPS

(***************************************************************************)
(* The invariant.  A submit that nothing crossed is alone with the buttons;*)
(* so whoever waits for a preview or a decision works on the approval of   *)
(* the card, as long as there is a card.                                   *)
(***************************************************************************)
Deciders == {"approve", "reject"}

Alone ==
    \A g, h \in Handlers :
        run[g].waits \in Submits /\ run[h].waits \in Buttons \cup Submits => g = h

AboutTheCard(h) ==
    /\ run[h].waits \in {"preview"} \cup Buttons /\ page.card => page.approvalId = run[h].id
    /\ run[h].waits \in Deciders /\ page.card => page.preview = page.approvalId

\* What a handler takes for granted was granted.
Granted(h) ==
    /\ run[h].waits \in Submits /\ run[h].status = "APPROVED" => run[h].id \in everGranted
    /\ run[h].waits = "approve" /\ run[h].answer = "ok" => run[h].id \in everGranted
    /\ run[h].waits = "execute" => run[h].id \in everGranted

OnScreen ==
    /\ page.card /\ page.decide => page.preview = page.approvalId
    /\ page.card /\ (page.execute \/ page.label = "APPROVED") => page.approvalId \in everGranted

Uncrossed ==
    ~crossed => Alone /\ OnScreen /\ \A h \in Handlers : AboutTheCard(h) /\ Granted(h)

NoticeInv ==
    /\ \A h \in Handlers : /\ run[h].events \subseteq quarantined
                           /\ run[h].waits = "analyze" => run[h].trace \in 1..analyses
    /\ page.notice /\ page.traceId # NoTrace => page.traceId \in quarantined

PageInv == PageTypeOK /\ granted \subseteq everGranted /\ NoticeInv /\ Uncrossed

LEMMA InitPage == PageInit => PageInv
<1> SUFFICES ASSUME PageInit PROVE PageInv
  OBVIOUS
<1>1. Idle \in Handler /\ Idle.waits = None /\ Idle.events = {}
  BY DEF Idle, Handler, Traces, NoTrace
<1>2. Fresh \in Screen /\ Fresh.card = FALSE /\ Fresh.notice = FALSE
  BY DEF Fresh, Screen, Traces, NoTrace
<1>3. \A h \in Handlers : run[h] = Idle
  BY DEF PageInit
<1>4. PageTypeOK
  <2>1. Ledger!LedgerTypeOK
    BY DEF PageInit, Ledger!LedgerInit, Ledger!LedgerTypeOK, Ledger!Fates
  <2>2. \A h \in Handlers : run[h].waits \notin {"preview"} \cup Buttons
    BY <1>1, <1>3, PageAssumption DEF Buttons
  <2>3. analyses \in 0..MaxAnalyses
    BY PageAssumption DEF PageInit
  <2> QED
    BY <1>1, <1>2, <2>1, <2>2, <2>3 DEF PageInit, PageTypeOK
<1>5. NoticeInv
  BY <1>1, <1>2, <1>3, PageAssumption DEF PageInit, NoticeInv
<1>6. Uncrossed
  <2>1. \A h \in Handlers : run[h].waits = None
    BY <1>1, <1>3
  <2>2. \A h \in Handlers : run[h].waits \notin Submits \cup Buttons \cup {"preview"} \cup Deciders
    BY <2>1, PageAssumption DEF Submits, Buttons, Deciders
  <2>3. page.card = FALSE
    BY <1>2 DEF PageInit
  <2> QED
    BY <2>1, <2>2, <2>3, PageAssumption DEF Uncrossed, Alone, OnScreen, AboutTheCard, Granted
<1> QED
  BY <1>4, <1>5, <1>6 DEF PageInit, Ledger!LedgerInit, PageInv

\* The ledger keeps its types, and only a grant adds to the granted ones.
LEMMA LedgerMoves ==
    ASSUME Ledger!LedgerTypeOK, NEW r \in Requests
    PROVE  /\ Ledger!Grant(r) => Ledger!LedgerTypeOK' /\ granted' = granted \cup {current[r]}
           /\ \A how \in {"REJECTED", "EXPIRED", "SUPERSEDED"} :
                 Ledger!Close(r, how) => Ledger!LedgerTypeOK' /\ granted' \subseteq granted
           /\ \A id \in Ids : Ledger!Open(r, id) => Ledger!LedgerTypeOK' /\ granted' \subseteq granted
           /\ \A id \in Ids, how \in {"EXPIRED", "SUPERSEDED"} :
                 Ledger!Replace(r, id, how) => Ledger!LedgerTypeOK' /\ granted' \subseteq granted
  BY DEF Ledger!LedgerTypeOK, Ledger!Fates, Ledger!Grant, Ledger!Close, Ledger!Open, Ledger!Replace

LEMMA LedgerSteps ==
    ASSUME Ledger!LedgerTypeOK, Ledger!LedgerNext
    PROVE  Ledger!LedgerTypeOK'
  BY LedgerMoves DEF Ledger!LedgerNext

(***************************************************************************)
(* A step of handler h, which is k afterwards.                             *)
(***************************************************************************)
\* Nobody else waits for what cannot overlap with what h waits for next.
Apart(h, k) ==
    /\ k.waits \in Submits /\ run[h].waits \notin Submits =>
          \A g \in Handlers \ {h} : run[g].waits \notin Buttons \cup Submits
    /\ k.waits \in Buttons /\ run[h].waits \notin Buttons =>
          \A g \in Handlers \ {h} : run[g].waits \notin Submits

\* The card shows what it showed, or is gone, or the step is of the submit
\* that is alone.
CardKept(h) ==
    \/ run[h].waits \in Submits
    \/ page'.card => /\ page.card /\ page'.approvalId = page.approvalId
                     /\ page'.preview = page.preview

LEMMA RunStep ==
    ASSUME PageTypeOK, NEW h \in Handlers, NEW k \in Handler, run' = [run EXCEPT ![h] = k]
    PROVE  /\ run' \in [Handlers -> Handler] /\ run'[h] = k
           /\ \A g \in Handlers \ {h} : run'[g] = run[g]
  BY DEF PageTypeOK

LEMMA TypesStep ==
    ASSUME PageInv, NEW h \in Handlers, NEW k \in Handler, run' = [run EXCEPT ![h] = k],
           Ledger!LedgerTypeOK', everGranted' \in SUBSET Ids, granted' \subseteq everGranted',
           analyses' \in 0..MaxAnalyses, analyses <= analyses',
           quarantined' \in SUBSET (1..analyses'),
           quarantined \subseteq quarantined', page' \in Screen, crossed' \in BOOLEAN,
           page'.card => page'.approvalId # None,
           k.waits \in {"preview"} \cup Buttons => k.id \in Ids,
           k.events \subseteq quarantined', k.waits = "analyze" => k.trace \in 1..analyses',
           page'.notice /\ page'.traceId # NoTrace => page'.traceId \in quarantined'
    PROVE  PageTypeOK' /\ granted' \subseteq everGranted' /\ NoticeInv'
<1>1. /\ run' \in [Handlers -> Handler] /\ run'[h] = k
      /\ \A g \in Handlers \ {h} : run'[g] = run[g]
  BY RunStep DEF PageInv
<1>2. \A g \in Handlers : run'[g].waits \in {"preview"} \cup Buttons => run'[g].id \in Ids
  BY <1>1 DEF PageInv, PageTypeOK
<1>3. \A g \in Handlers : /\ run'[g].events \subseteq quarantined'
                          /\ run'[g].waits = "analyze" => run'[g].trace \in 1..analyses'
  <2>1. \A g \in Handlers \ {h} :
           /\ run'[g].events \subseteq quarantined'
           /\ run'[g].waits = "analyze" => run'[g].trace \in 1..analyses
    BY <1>1 DEF PageInv, NoticeInv
  <2>2. 1..analyses \subseteq 1..analyses'
    BY PageAssumption DEF PageInv, PageTypeOK
  <2> QED
    BY <1>1, <2>1, <2>2
<1>4. PageTypeOK'
  BY <1>1, <1>2 DEF PageTypeOK
<1>5. NoticeInv'
  BY <1>3 DEF NoticeInv
<1> QED
  BY <1>4, <1>5

LEMMA UncrossedStep ==
    ASSUME PageInv, NEW h \in Handlers, NEW k \in Handler, run' = [run EXCEPT ![h] = k],
           everGranted \subseteq everGranted',
           ~crossed' => ~crossed /\ Apart(h, k) /\ CardKept(h) /\ OnScreen'
                                 /\ AboutTheCard(h)' /\ Granted(h)'
    PROVE  Uncrossed'
<1> SUFFICES ASSUME ~crossed'
             PROVE  Alone' /\ OnScreen' /\ \A g \in Handlers : AboutTheCard(g)' /\ Granted(g)'
  BY DEF Uncrossed
<1>1. run'[h] = k /\ \A g \in Handlers \ {h} : run'[g] = run[g]
  BY RunStep DEF PageInv
<1>2. Alone /\ \A g \in Handlers : AboutTheCard(g) /\ Granted(g)
  BY DEF PageInv, Uncrossed
<1>3. Alone'
  <2> SUFFICES ASSUME NEW a \in Handlers, NEW b \in Handlers, a # b,
                      run'[a].waits \in Submits, run'[b].waits \in Buttons \cup Submits
               PROVE  FALSE
    BY DEF Alone
  <2>1. CASE a # h /\ b # h
    BY <1>1, <1>2, <2>1 DEF Alone
  <2>2. CASE a = h
    <3>1. run'[b] = run[b]
      BY <1>1, <2>2
    <3> QED
      BY <1>1, <1>2, <2>2, <3>1 DEF Alone, Apart
  <2>3. CASE b = h
    <3>1. run'[a] = run[a]
      BY <1>1, <2>3
    <3> QED
      BY <1>1, <1>2, <2>3, <3>1 DEF Alone, Apart
  <2> QED
    BY <2>1, <2>2, <2>3
<1>4. ASSUME NEW g \in Handlers, g # h PROVE AboutTheCard(g)' /\ Granted(g)'
  <2>1. run'[g] = run[g] /\ AboutTheCard(g) /\ Granted(g)
    BY <1>1, <1>2, <1>4
  <2>2. Granted(g)'
    BY <2>1 DEF Granted
  <2>3. CASE run[h].waits \in Submits
    <3>1. run[g].waits \notin Buttons \cup Submits
      BY <1>2, <1>4, <2>3 DEF Alone
    <3> QED
      BY <2>1, <2>2, <3>1 DEF AboutTheCard, Submits, Buttons, Deciders
  <2>4. CASE run[h].waits \notin Submits
    BY <2>1, <2>2, <2>4 DEF CardKept, AboutTheCard
  <2> QED
    BY <2>3, <2>4
<1> QED
  BY <1>3, <1>4

\* A step that leaves the server alone.
LEMMA PageStep ==
    ASSUME PageInv, NEW h \in Handlers, NEW k \in Handler, run' = [run EXCEPT ![h] = k],
           UNCHANGED server, page' \in Screen, crossed' \in BOOLEAN,
           page'.card => page'.approvalId # None,
           k.waits \in {"preview"} \cup Buttons => k.id \in Ids,
           k.events \subseteq quarantined, k.waits = "analyze" => k.trace \in 1..analyses,
           page'.notice /\ page'.traceId # NoTrace => page'.traceId \in quarantined,
           ~crossed' => ~crossed /\ Apart(h, k) /\ CardKept(h) /\ OnScreen'
                                 /\ AboutTheCard(h)' /\ Granted(h)'
    PROVE  PageInv'
<1>1. /\ current' = current /\ granted' = granted /\ fate' = fate /\ everGranted' = everGranted
      /\ analyses' = analyses /\ quarantined' = quarantined
  BY DEF server
<1>2. Ledger!LedgerTypeOK'
  BY <1>1 DEF PageInv, PageTypeOK, Ledger!LedgerTypeOK
<1>3. PageTypeOK' /\ granted' \subseteq everGranted' /\ NoticeInv'
  <2>1. /\ everGranted' \in SUBSET Ids /\ granted' \subseteq everGranted'
        /\ analyses' \in 0..MaxAnalyses /\ analyses <= analyses'
        /\ quarantined' \in SUBSET (1..analyses') /\ quarantined \subseteq quarantined'
    BY <1>1, PageAssumption DEF PageInv, PageTypeOK
  <2> QED
    BY <1>1, <1>2, <2>1, TypesStep
<1>4. Uncrossed'
  BY <1>1, UncrossedStep
<1> QED
  BY <1>3, <1>4 DEF PageInv

\* The same when h waits for nothing about an approval afterwards.
LEMMA DoneStep ==
    ASSUME PageInv, NEW h \in Handlers, NEW k \in Handler, run' = [run EXCEPT ![h] = k],
           k.waits \in {None, "intake", "audit"}, k.events \subseteq quarantined,
           UNCHANGED <<server, crossed>>, page' \in Screen,
           page'.card => page'.approvalId # None,
           page'.notice /\ page'.traceId # NoTrace => page'.traceId \in quarantined,
           ~crossed => CardKept(h) /\ OnScreen'
    PROVE  PageInv'
<1>1. k.waits \notin {"preview"} \cup Buttons \cup Submits \cup Deciders
  BY PageAssumption DEF Buttons, Submits, Deciders
<1>2. run'[h] = k
  BY RunStep DEF PageInv
<1>3. AboutTheCard(h)' /\ Granted(h)'
  BY <1>1, <1>2 DEF AboutTheCard, Granted, Buttons, Submits, Deciders
<1>4. Apart(h, k)
  BY <1>1 DEF Apart
<1>5. crossed' = crossed /\ crossed \in BOOLEAN /\ UNCHANGED server
  BY DEF PageInv, PageTypeOK
<1>6. ~crossed' => ~crossed /\ Apart(h, k) /\ CardKept(h) /\ OnScreen' /\ AboutTheCard(h)' /\ Granted(h)'
  BY <1>3, <1>4, <1>5
<1>7. crossed' \in BOOLEAN
  BY <1>5
<1>8. /\ k.waits \in {"preview"} \cup Buttons => k.id \in Ids
      /\ k.waits = "analyze" => k.trace \in 1..analyses
  BY <1>1 DEF Submits
<1> QED
  BY <1>5, <1>6, <1>7, <1>8, PageStep

\* What the invariant says of one handler.
LEMMA HandlerFacts ==
    ASSUME PageInv, NEW h \in Handlers
    PROVE  /\ run[h] \in Handler /\ page \in Screen /\ Idle \in Handler /\ Idle.events = {}
           /\ run[h].waits \in {"preview"} \cup Buttons => run[h].id \in Ids
           /\ run[h].events \subseteq quarantined
           /\ run[h].waits = "analyze" => run[h].trace \in 1..analyses
           /\ page.card => page.approvalId # None
           /\ page.notice /\ page.traceId # NoTrace => page.traceId \in quarantined
           /\ ~crossed => OnScreen /\ AboutTheCard(h) /\ Granted(h)
  BY DEF PageInv, PageTypeOK, NoticeInv, Uncrossed, Idle, Handler, NoTrace

(***************************************************************************)
(* Clicks.                                                                 *)
(***************************************************************************)
LEMMA SubmitKeeps ==
    ASSUME PageInv, NEW h \in Handlers, Submit(h)
    PROVE  PageInv'
<1> DEFINE k == [Idle EXCEPT !.waits = "analyze", !.trace = analyses + 1]
<1>1. analyses + 1 \in Traces /\ analyses + 1 \in 0..MaxAnalyses /\ analyses \in Nat
  BY PageAssumption DEF Submit, PageInv, PageTypeOK, Traces
<1>2. /\ k \in Handler /\ k.waits = "analyze" /\ k.status = None /\ k.answer = None
      /\ k.events = {} /\ k.trace = analyses + 1
  BY <1>1 DEF Idle, Handler
<1> HIDE DEF k
<1>3. /\ run' = [run EXCEPT ![h] = k] /\ analyses' = analyses + 1 /\ page' = page
      /\ crossed' = (crossed \/ Waiting(Buttons \cup Submits))
      /\ UNCHANGED <<current, granted, fate, everGranted, quarantined>>
  BY DEF Submit, k
<1>4. Ledger!LedgerTypeOK'
  BY <1>3 DEF PageInv, PageTypeOK, Ledger!LedgerTypeOK
<1>5. quarantined' \in SUBSET (1..analyses') /\ analyses <= analyses'
  BY <1>1, <1>3 DEF PageInv, PageTypeOK
<1>6. run'[h] = k
  BY <1>2, <1>3, RunStep DEF PageInv
<1>7. PageTypeOK' /\ granted' \subseteq everGranted' /\ NoticeInv'
  <2>1. k.trace \in 1..analyses'
    BY <1>1, <1>2, <1>3
  <2> QED
    BY <1>1, <1>2, <1>3, <1>4, <1>5, <2>1, HandlerFacts, TypesStep DEF PageInv, PageTypeOK, Buttons
<1>8. ~crossed' => ~crossed /\ \A g \in Handlers : run[g].waits \notin Buttons \cup Submits
  BY <1>3 DEF PageInv, PageTypeOK, Waiting
<1>9. ~crossed' => /\ Apart(h, k) /\ CardKept(h) /\ OnScreen'
                   /\ AboutTheCard(h)' /\ Granted(h)'
  BY <1>2, <1>3, <1>6, <1>8, HandlerFacts, PageAssumption
  DEF Apart, CardKept, OnScreen, AboutTheCard, Granted, Buttons, Submits, Deciders
<1> QED
  BY <1>2, <1>3, <1>7, <1>8, <1>9, UncrossedStep DEF PageInv

LEMMA IntakeKeeps ==
    ASSUME PageInv, NEW h \in Handlers, Intake(h) \/ ClickAudit(h)
    PROVE  PageInv'
<1>1. PICK k \in Handler : /\ run' = [run EXCEPT ![h] = k] /\ k.waits \in {"intake", "audit"} /\ k.events = {}
                           /\ UNCHANGED <<server, page, crossed>>
  <2>1. CASE Intake(h)
    <3> DEFINE k == [Idle EXCEPT !.waits = "intake", !.id = None]
    <3>1. k \in Handler /\ k.waits = "intake" /\ k.events = {}
      BY DEF Idle, Handler, NoTrace
    <3>2. run' = [run EXCEPT ![h] = k]
      BY <2>1 DEF Intake, Start, Buttons
    <3> QED
      BY <2>1, <3>1, <3>2 DEF Intake
  <2>2. CASE ClickAudit(h)
    <3> DEFINE k == [Idle EXCEPT !.waits = "audit", !.button = TRUE]
    <3>1. k \in Handler /\ k.waits = "audit" /\ k.events = {}
      BY DEF Idle, Handler, NoTrace
    <3> QED
      BY <2>2, <3>1 DEF ClickAudit
  <2> QED
    BY <2>1, <2>2
<1>2. ~crossed => CardKept(h) /\ OnScreen'
  BY <1>1, HandlerFacts DEF CardKept, OnScreen, server
<1> QED
  BY <1>1, <1>2, HandlerFacts, DoneStep

\* A button of the card: its handler works on the approval of the card.
LEMMA ButtonKeeps ==
    ASSUME PageInv, NEW h \in Handlers, NEW what \in Buttons,
           \/ ClickDecision(h, what) /\ what \in Deciders
           \/ ClickExecute(h) /\ what = "execute"
    PROVE  PageInv'
<1> DEFINE k == [Idle EXCEPT !.waits = what, !.id = page.approvalId]
<1>1. /\ page.card /\ page.approvalId \in Ids
      /\ what \in Deciders => page.decide
      /\ what = "execute" => page.execute
  BY HandlerFacts DEF ClickDecision, ClickExecute, Screen, Deciders
<1>2. /\ k \in Handler /\ k.waits = what /\ k.id = page.approvalId /\ k.status = None
      /\ k.answer = None /\ k.events = {}
  BY <1>1 DEF Idle, Handler, NoTrace, Buttons
<1>3. run' = [run EXCEPT ![h] = k] /\ UNCHANGED server /\ crossed' = (crossed \/ Waiting(Submits))
  BY DEF ClickDecision, ClickExecute, Start
<1>4. /\ page' \in Screen /\ page'.card = page.card /\ page'.approvalId = page.approvalId
      /\ page'.preview = page.preview /\ page'.label = page.label /\ page'.notice = page.notice
      /\ page'.traceId = page.traceId /\ (page'.decide => page.decide) /\ (page'.execute => page.execute)
  BY HandlerFacts DEF ClickDecision, ClickExecute, Screen
<1> HIDE DEF k
<1>5. ~crossed' => ~crossed /\ \A g \in Handlers : run[g].waits \notin Submits
  BY <1>3 DEF PageInv, PageTypeOK, Waiting
<1>6. run'[h] = k /\ crossed' \in BOOLEAN
  BY <1>2, <1>3, RunStep DEF PageInv, PageTypeOK
<1>7. what \notin Submits
  BY DEF Buttons, Submits
<1>8. everGranted' = everGranted
  BY <1>3 DEF server
<1>9. ~crossed' => Apart(h, k) /\ CardKept(h)
  BY <1>2, <1>4, <1>5, <1>7 DEF Apart, CardKept
<1>10. ~crossed' => OnScreen'
  BY <1>4, <1>5, <1>8, HandlerFacts DEF OnScreen
<1>11. ~crossed' => AboutTheCard(h)'
  BY <1>1, <1>2, <1>4, <1>5, <1>6, HandlerFacts DEF OnScreen, AboutTheCard, Deciders
<1>12. ~crossed' => Granted(h)'
  <2>1. k.answer # "ok"
    BY <1>2, PageAssumption
  <2>2. ~crossed' /\ what = "execute" => page.approvalId \in everGranted
    BY <1>1, <1>5, HandlerFacts DEF OnScreen
  <2> QED
    BY <1>2, <1>6, <1>7, <1>8, <2>1, <2>2 DEF Granted
<1>13. ~crossed' => /\ ~crossed /\ Apart(h, k) /\ CardKept(h) /\ OnScreen'
                    /\ AboutTheCard(h)' /\ Granted(h)'
  BY <1>5, <1>9, <1>10, <1>11, <1>12
<1>14. /\ page'.card => page'.approvalId # None
       /\ k.id \in Ids /\ k.waits # "analyze" /\ k.events \subseteq quarantined
       /\ page'.notice /\ page'.traceId # NoTrace => page'.traceId \in quarantined
  BY <1>1, <1>2, <1>4, HandlerFacts DEF Buttons
<1> QED
  BY <1>2, <1>3, <1>4, <1>6, <1>13, <1>14, PageStep

(***************************************************************************)
(* The server.                                                             *)
(***************************************************************************)
\* What an analysis does to the ledger, whatever it finds.
LEMMA AnalysisMoves ==
    ASSUME PageInv, NEW r \in Requests,
           \/ UNCHANGED <<current, granted, fate>>
           \/ Ledger!Close(r, "SUPERSEDED")
           \/ \E id \in Ids : Ledger!Open(r, id) \/ Ledger!Replace(r, id, "SUPERSEDED")
    PROVE  Ledger!LedgerTypeOK' /\ granted' \subseteq granted
<1>1. Ledger!LedgerTypeOK
  BY DEF PageInv, PageTypeOK
<1>2. CASE UNCHANGED <<current, granted, fate>>
  BY <1>1, <1>2 DEF Ledger!LedgerTypeOK
<1>3. CASE Ledger!Close(r, "SUPERSEDED")
  BY <1>1, <1>3, LedgerMoves
<1>4. CASE \E id \in Ids : Ledger!Open(r, id) \/ Ledger!Replace(r, id, "SUPERSEDED")
  BY <1>1, <1>4, LedgerMoves
<1> QED
  BY <1>2, <1>3, <1>4

LEMMA ServeAnalyzeKeeps ==
    ASSUME PageInv, NEW h \in Handlers, ServeAnalyze(h)
    PROVE  PageInv'
<1>1. PICK r \in Requests :
          /\ \/ UNCHANGED <<current, granted, fate>>
             \/ Ledger!Close(r, "SUPERSEDED")
             \/ \E id \in Ids : Ledger!Open(r, id) \/ Ledger!Replace(r, id, "SUPERSEDED")
          /\ NamesApproval(h, r)
  BY DEF ServeAnalyze
<1> DEFINE status == IF current'[r] = None THEN None
                     ELSE IF current'[r] \in granted' THEN "APPROVED" ELSE "PENDING"
           k == [run[h] EXCEPT !.answer = "ok", !.id = current'[r], !.status = status]
<1>2. Ledger!LedgerTypeOK' /\ granted' \subseteq granted
  BY <1>1, AnalysisMoves
<1>3. current'[r] \in Ids \cup {None}
  BY <1>2 DEF Ledger!LedgerTypeOK
<1>4. /\ k \in Handler /\ k.waits = "analyze" /\ run[h].waits = "analyze"
      /\ k.id = current'[r] /\ k.status = status /\ k.events = run[h].events
      /\ k.trace = run[h].trace
  BY <1>3, HandlerFacts DEF Handler, ServeAnalyze, Unserved
<1>5. run' = [run EXCEPT ![h] = k]
  BY <1>1, HandlerFacts DEF NamesApproval, Handler, PageInv, PageTypeOK
<1>6. status = "APPROVED" => current'[r] \in granted'
  BY PageAssumption
<1> HIDE DEF k, status
<1>7. /\ UNCHANGED <<everGranted, analyses, page, crossed>>
      /\ quarantined' \in {quarantined, quarantined \cup {run[h].trace}}
  BY DEF ServeAnalyze
<1>8. quarantined \subseteq quarantined'
  BY <1>7
<1>9. quarantined' \in SUBSET (1..analyses') /\ analyses <= analyses'
  BY <1>4, <1>7, PageAssumption, HandlerFacts DEF PageInv, PageTypeOK
<1>10. granted' \subseteq everGranted'
  BY <1>2, <1>7 DEF PageInv
<1>11. PageTypeOK' /\ granted' \subseteq everGranted' /\ NoticeInv'
  BY <1>2, <1>4, <1>5, <1>7, <1>8, <1>9, <1>10, HandlerFacts, TypesStep
  DEF PageInv, PageTypeOK, Buttons
<1>12. run'[h] = k
  BY <1>4, <1>5, RunStep DEF PageInv
<1>13. ~crossed' => /\ ~crossed /\ Apart(h, k) /\ CardKept(h) /\ OnScreen'
                    /\ AboutTheCard(h)' /\ Granted(h)'
  BY <1>4, <1>6, <1>7, <1>10, <1>12, HandlerFacts
  DEF Apart, CardKept, OnScreen, AboutTheCard, Granted, Buttons, Submits, Deciders
<1>14. Uncrossed'
  BY <1>4, <1>5, <1>7, <1>13, UncrossedStep
<1> QED
  BY <1>11, <1>14 DEF PageInv

\* An answer to h changes neither what h waits for nor, but for an analysis,
\* the approval it works on.
LEMMA AnsweredStep ==
    ASSUME PageInv, NEW h \in Handlers, NEW k \in Handler, run' = [run EXCEPT ![h] = k],
           k.waits = run[h].waits, k.trace = run[h].trace,
           run[h].waits # "analyze" => k.id = run[h].id,
           k.events \subseteq quarantined, UNCHANGED <<analyses, quarantined, page, crossed>>,
           Ledger!LedgerTypeOK', everGranted' \in SUBSET Ids,
           everGranted \subseteq everGranted', granted' \subseteq everGranted',
           ~crossed => Granted(h)'
    PROVE  PageInv'
<1>1. run'[h] = k
  BY RunStep DEF PageInv
<1>2. PageTypeOK' /\ granted' \subseteq everGranted' /\ NoticeInv'
  <2>1. /\ analyses' \in 0..MaxAnalyses /\ analyses <= analyses'
        /\ quarantined' \in SUBSET (1..analyses') /\ quarantined \subseteq quarantined'
        /\ page' \in Screen /\ crossed' \in BOOLEAN
    BY PageAssumption DEF PageInv, PageTypeOK
  <2>2. k.waits \in {"preview"} \cup Buttons => k.id \in Ids
    BY HandlerFacts DEF Buttons
  <2>3. k.waits = "analyze" => k.trace \in 1..analyses'
    BY HandlerFacts
  <2> QED
    BY <2>1, <2>2, <2>3, HandlerFacts, TypesStep
<1>3. ~crossed' => /\ ~crossed /\ Apart(h, k) /\ CardKept(h) /\ OnScreen'
                   /\ AboutTheCard(h)' /\ Granted(h)'
  BY <1>1, HandlerFacts DEF Apart, CardKept, OnScreen, AboutTheCard, Buttons, Submits, Deciders
<1> QED
  BY <1>2, <1>3, UncrossedStep DEF PageInv

LEMMA ServeDecisionKeeps ==
    ASSUME PageInv, NEW h \in Handlers, ServeApprove(h) \/ ServeReject(h)
    PROVE  PageInv'
<1> DEFINE k == [run[h] EXCEPT !.answer = "ok"]
<1>1. /\ k \in Handler /\ k.waits = run[h].waits /\ k.id = run[h].id /\ k.trace = run[h].trace
      /\ k.events = run[h].events /\ k.status = run[h].status
  BY HandlerFacts DEF Handler
<1>2. run' = [run EXCEPT ![h] = k] /\ UNCHANGED <<analyses, quarantined, page, crossed>>
  BY DEF ServeApprove, ServeReject, Answered
<1> HIDE DEF k
<1>3. run'[h] = k
  BY <1>1, <1>2, RunStep DEF PageInv
<1>4. PICK r \in Requests : /\ current[r] = run[h].id
                            /\ \/ ServeApprove(h) /\ Ledger!Grant(r)
                               \/ ServeReject(h) /\ Ledger!Close(r, "REJECTED")
  BY DEF ServeApprove, ServeReject
<1>5. Ledger!LedgerTypeOK
  BY DEF PageInv, PageTypeOK
<1>6. CASE ServeApprove(h) /\ Ledger!Grant(r)
  <2>1. run[h].waits = "approve" /\ everGranted' = everGranted \cup {run[h].id}
    BY <1>6 DEF ServeApprove, Unserved
  <2>2. Ledger!LedgerTypeOK' /\ granted' = granted \cup {run[h].id}
    BY <1>4, <1>5, <1>6, LedgerMoves
  <2>3. run[h].id \in Ids
    BY <2>1, HandlerFacts DEF Buttons
  <2>4. /\ everGranted' \in SUBSET Ids /\ everGranted \subseteq everGranted'
        /\ granted' \subseteq everGranted' /\ run[h].id \in everGranted'
    BY <2>1, <2>2, <2>3 DEF PageInv, PageTypeOK
  <2>5. Granted(h)'
    BY <1>1, <1>3, <2>1, <2>4 DEF Granted, Submits
  <2> QED
    BY <1>1, <1>2, <2>2, <2>4, <2>5, HandlerFacts, AnsweredStep
<1>7. CASE ServeReject(h) /\ Ledger!Close(r, "REJECTED")
  <2>1. run[h].waits = "reject" /\ everGranted' = everGranted
    BY <1>7 DEF ServeReject, Unserved
  <2>2. Ledger!LedgerTypeOK' /\ granted' \subseteq granted
    BY <1>5, <1>7, LedgerMoves
  <2>3. /\ everGranted' \in SUBSET Ids /\ everGranted \subseteq everGranted'
        /\ granted' \subseteq everGranted'
    BY <2>1, <2>2 DEF PageInv, PageTypeOK
  <2>4. Granted(h)'
    BY <1>1, <1>3, <2>1 DEF Granted, Submits
  <2> QED
    BY <1>1, <1>2, <2>2, <2>3, <2>4, HandlerFacts, AnsweredStep
<1> QED
  BY <1>4, <1>6, <1>7

LEMMA ServeReadKeeps ==
    ASSUME PageInv, NEW h \in Handlers,
           ServeExecute(h) \/ ServeRead(h) \/ ServeAudit(h) \/ Fail(h)
    PROVE  PageInv'
<1>1. PICK k \in Handler :
          /\ run' = [run EXCEPT ![h] = k] /\ k.waits = run[h].waits /\ k.trace = run[h].trace
          /\ k.events \subseteq quarantined
          /\ run[h].waits # "analyze" => k.id = run[h].id /\ k.status = run[h].status
          /\ run[h].waits = "analyze" => k.status = None
          /\ run[h].waits = "approve" => k.answer # "ok"
          /\ run[h].waits = "execute" => k.id = run[h].id
  <2>1. CASE ServeExecute(h) \/ ServeRead(h)
    <3> DEFINE k == [run[h] EXCEPT !.answer = "ok"]
    <3>1. /\ k \in Handler /\ k.waits = run[h].waits /\ k.id = run[h].id /\ k.trace = run[h].trace
          /\ k.events = run[h].events /\ k.status = run[h].status
      BY HandlerFacts DEF Handler
    <3>2. run' = [run EXCEPT ![h] = k] /\ run[h].waits \in {"execute", "preview", "intake"}
      BY <2>1 DEF ServeExecute, ServeRead, Answered, Unserved
    <3> QED
      BY <3>1, <3>2, HandlerFacts
  <2>2. CASE ServeAudit(h)
    <3> DEFINE k == [run[h] EXCEPT !.answer = "ok", !.events = quarantined]
    <3>1. quarantined \in SUBSET Traces
      BY PageAssumption DEF PageInv, PageTypeOK, Traces
    <3>2. /\ k \in Handler /\ k.waits = run[h].waits /\ k.id = run[h].id /\ k.trace = run[h].trace
          /\ k.events = quarantined /\ k.status = run[h].status
      BY <3>1, HandlerFacts DEF Handler
    <3>3. run' = [run EXCEPT ![h] = k] /\ run[h].waits = "audit"
      BY <2>2, HandlerFacts DEF ServeAudit, Unserved, PageInv, PageTypeOK, Handler
    <3> QED
      BY <3>2, <3>3
  <2>3. CASE Fail(h)
    <3> DEFINE j == IF run[h].waits = "analyze" THEN [run[h] EXCEPT !.id = None, !.status = None]
                    ELSE run[h]
               k == [j EXCEPT !.answer = "failed", !.events = {}]
    <3>1. /\ j \in Handler /\ j.waits = run[h].waits /\ j.trace = run[h].trace
          /\ run[h].waits # "analyze" => j.id = run[h].id /\ j.status = run[h].status
          /\ run[h].waits = "analyze" => j.status = None
      BY HandlerFacts DEF Handler
    <3>2. run' = [run EXCEPT ![h] = k]
      BY <2>3, HandlerFacts DEF Fail, PageInv, PageTypeOK
    <3> HIDE DEF j
    <3>3. /\ k \in Handler /\ k.waits = j.waits /\ k.id = j.id /\ k.trace = j.trace
          /\ k.events = {} /\ k.status = j.status /\ k.answer = "failed"
      BY <3>1 DEF Handler
    <3> QED
      BY <3>1, <3>2, <3>3
  <2> QED
    BY <2>1, <2>2, <2>3
<1>2. UNCHANGED <<server, page, crossed>>
  BY DEF ServeExecute, ServeRead, ServeAudit, Fail
<1>3. /\ current' = current /\ granted' = granted /\ fate' = fate /\ everGranted' = everGranted
      /\ analyses' = analyses /\ quarantined' = quarantined
  BY <1>2 DEF server
<1>4. /\ Ledger!LedgerTypeOK' /\ everGranted' \in SUBSET Ids /\ granted' \subseteq everGranted'
      /\ everGranted \subseteq everGranted'
  BY <1>3 DEF PageInv, PageTypeOK, Ledger!LedgerTypeOK
<1>5. ~crossed => Granted(h)'
  <2>1. run'[h] = k
    BY <1>1, RunStep DEF PageInv
  <2> QED
    BY <1>1, <1>3, <2>1, HandlerFacts, PageAssumption DEF Granted, Submits
<1> QED
  BY <1>1, <1>2, <1>3, <1>4, <1>5, AnsweredStep

LEMMA OthersKeep ==
    ASSUME PageInv, Others
    PROVE  PageInv'
<1>1. /\ UNCHANGED <<analyses, quarantined, page, run, crossed>>
      /\ everGranted' = everGranted \cup granted'
  BY DEF Others
<1>2. Ledger!LedgerTypeOK'
  BY LedgerSteps DEF Others, PageInv, PageTypeOK
<1>3. PageTypeOK'
  BY <1>1, <1>2 DEF PageInv, PageTypeOK, Ledger!LedgerTypeOK
<1>4. NoticeInv'
  BY <1>1 DEF PageInv, NoticeInv
<1>5. Uncrossed'
  <2> SUFFICES ASSUME ~crossed'
               PROVE  Alone' /\ OnScreen' /\ \A h \in Handlers : AboutTheCard(h)' /\ Granted(h)'
    BY DEF Uncrossed
  <2>1. Alone /\ OnScreen /\ \A h \in Handlers : AboutTheCard(h) /\ Granted(h)
    BY <1>1 DEF PageInv, Uncrossed
  <2>2. Alone' /\ OnScreen'
    BY <1>1, <2>1 DEF Alone, OnScreen
  <2>3. \A h \in Handlers : AboutTheCard(h)' /\ Granted(h)'
    BY <1>1, <2>1 DEF AboutTheCard, Granted
  <2> QED
    BY <2>2, <2>3
<1> QED
  BY <1>1, <1>3, <1>4, <1>5 DEF PageInv

(***************************************************************************)
(* Answers.                                                                *)
(***************************************************************************)
\* How a handler goes on that does not ask for a preview.
LEMMA GoesOn ==
    ASSUME PageInv, NEW h \in Handlers, Refreshes(h) \/ Ends(h)
    PROVE  \E k \in Handler : /\ run' = [run EXCEPT ![h] = k]
                              /\ k.waits \in {None, "intake", "audit"} /\ k.events = {}
<1>1. CASE Ends(h)
  BY <1>1, HandlerFacts DEF Ends, Idle
<1>2. CASE Refreshes(h)
  <2> DEFINE k == [Idle EXCEPT !.waits = "audit"]
  <2>1. k \in Handler /\ k.waits = "audit" /\ k.events = {}
    BY DEF Idle, Handler, NoTrace
  <2> QED
    BY <1>2, <2>1 DEF Refreshes
<1> QED
  BY <1>1, <1>2

\* A handler that ends, or refreshes the audit, after its answer.
LEMMA EndKeeps ==
    ASSUME PageInv, NEW h \in Handlers, Refreshes(h) \/ Ends(h), UNCHANGED <<server, crossed>>,
           page' \in Screen, page'.card => page'.approvalId # None,
           page'.notice /\ page'.traceId # NoTrace => page'.traceId \in quarantined,
           ~crossed => CardKept(h) /\ OnScreen'
    PROVE  PageInv'
<1>1. PICK k \in Handler : /\ run' = [run EXCEPT ![h] = k]
                           /\ k.waits \in {None, "intake", "audit"} /\ k.events = {}
  BY GoesOn
<1> QED
  BY <1>1, DoneStep

\* A page without a card promises nothing.
LEMMA CardGone ==
    ASSUME PageInv, NEW h \in Handlers, page'.card = FALSE
    PROVE  CardKept(h) /\ OnScreen'
  BY DEF CardKept, OnScreen

LEMMA AnalysisKeeps ==
    ASSUME PageInv, NEW h \in Handlers, AnalysisFails(h) \/ AnalysisWithoutApproval(h)
    PROVE  PageInv'
<1>1. CASE AnalysisFails(h)
  <2>1. page' \in Screen /\ page'.card = FALSE /\ page'.traceId = NoTrace
    BY <1>1, HandlerFacts DEF AnalysisFails, Cleared, Screen
  <2> QED
    BY <1>1, <2>1, CardGone, EndKeeps DEF AnalysisFails
<1>2. CASE AnalysisWithoutApproval(h)
  <2>1. page' \in Screen /\ page'.card = FALSE /\ page'.notice = FALSE
    BY <1>2, HandlerFacts DEF AnalysisWithoutApproval, Screen, Handler
  <2> QED
    BY <1>2, <2>1, CardGone, EndKeeps DEF AnalysisWithoutApproval
<1> QED
  BY <1>1, <1>2

\* The card changes hands; nobody else works on an approval.
LEMMA AnalysisWithApprovalKeeps ==
    ASSUME PageInv, NEW h \in Handlers, AnalysisWithApproval(h)
    PROVE  PageInv'
<1> DEFINE k == [run[h] EXCEPT !.waits = "preview", !.answer = None]
<1>1. run[h].waits = "analyze" /\ run[h].id \in Ids /\ run[h].id # None
  BY HandlerFacts DEF AnalysisWithApproval, Handler
<1>2. /\ k \in Handler /\ k.waits = "preview" /\ k.id = run[h].id /\ k.events = run[h].events
      /\ k.status = run[h].status
  BY HandlerFacts DEF Handler
<1>3. run' = [run EXCEPT ![h] = k] /\ UNCHANGED <<server, crossed>>
  BY HandlerFacts DEF AnalysisWithApproval, PageInv, PageTypeOK, Handler
<1>4. /\ page' \in Screen /\ page'.card /\ page'.approvalId = run[h].id
      /\ page'.label = run[h].status /\ page'.decide = FALSE /\ page'.execute = FALSE
      /\ page'.notice = FALSE
  BY HandlerFacts DEF AnalysisWithApproval, Screen, Handler
<1> HIDE DEF k
<1>5. run'[h] = k /\ crossed' = crossed /\ everGranted' = everGranted /\ crossed \in BOOLEAN
  BY <1>2, <1>3, RunStep DEF PageInv, PageTypeOK, server
<1>6. Apart(h, k) /\ CardKept(h)
  BY <1>1, <1>2 DEF Apart, CardKept, Submits, Buttons
<1>7. ~crossed => OnScreen' /\ Granted(h)'
  BY <1>1, <1>2, <1>4, <1>5, HandlerFacts DEF OnScreen, Granted, Submits
<1>8. AboutTheCard(h)'
  BY <1>2, <1>4, <1>5 DEF AboutTheCard, Deciders
<1>9. ~crossed' => /\ ~crossed /\ Apart(h, k) /\ CardKept(h) /\ OnScreen'
                   /\ AboutTheCard(h)' /\ Granted(h)'
  BY <1>5, <1>6, <1>7, <1>8
<1>10. k.id \in Ids /\ k.waits # "analyze" /\ k.events \subseteq quarantined
  BY <1>1, <1>2, HandlerFacts
<1> QED
  BY <1>1, <1>2, <1>3, <1>4, <1>5, <1>9, <1>10, PageStep

\* The answer about the approval of the card.
LEMMA CardAnswered ==
    ASSUME PageInv, NEW h \in Handlers,
           \/ PreviewAnswered(h)
           \/ ApproveAnswered(h)
           \/ RejectAnswered(h)
           \/ ExecuteAnswered(h)
    PROVE  PageInv'
<1>1. Refreshes(h) /\ UNCHANGED <<server, crossed>>
  BY DEF PreviewAnswered, ApproveAnswered, RejectAnswered, ExecuteAnswered
<1>2. run[h].waits \in {"preview"} \cup Buttons /\ run[h].id \in Ids
  BY HandlerFacts DEF PreviewAnswered, ApproveAnswered, RejectAnswered, ExecuteAnswered, Buttons
<1>3. /\ page' \in Screen /\ page'.card = page.card /\ page'.approvalId = page.approvalId
      /\ page'.notice = page.notice /\ page'.traceId = page.traceId
  <2>1. CASE PreviewAnswered(h)
    BY <1>2, <2>1, HandlerFacts DEF PreviewAnswered, Screen
  <2>2. CASE ApproveAnswered(h) \/ RejectAnswered(h) \/ ExecuteAnswered(h)
    BY <2>2, HandlerFacts DEF ApproveAnswered, RejectAnswered, ExecuteAnswered, Ok, Screen
  <2> QED
    BY <2>1, <2>2
<1>4. everGranted' = everGranted
  BY <1>1 DEF server
<1>5. ~crossed => CardKept(h) /\ OnScreen'
  <2> SUFFICES ASSUME ~crossed PROVE CardKept(h) /\ OnScreen'
    OBVIOUS
  <2>1. OnScreen /\ AboutTheCard(h) /\ Granted(h)
    BY HandlerFacts
  <2>2. page.card => page.approvalId = run[h].id
    BY <1>2, <2>1 DEF AboutTheCard
  <2>3. CASE PreviewAnswered(h)
    <3>1. CardKept(h)
      BY <2>3 DEF PreviewAnswered, CardKept, Submits
    <3>2. page'.decide => page'.preview = run[h].id
      BY <2>3, HandlerFacts DEF PreviewAnswered, Screen, Ok
    <3>3. /\ page'.execute => run[h].id \in everGranted
          /\ page'.label = page.label
      BY <2>1, <2>3, HandlerFacts DEF PreviewAnswered, Screen, Granted, Submits
    <3> QED
      BY <1>3, <1>4, <2>1, <2>2, <3>1, <3>2, <3>3 DEF OnScreen
  <2>4. CASE ApproveAnswered(h) \/ RejectAnswered(h) \/ ExecuteAnswered(h)
    <3>1. page'.preview = page.preview
      BY <2>4, HandlerFacts DEF ApproveAnswered, RejectAnswered, ExecuteAnswered, Screen
    <3>2. CardKept(h)
      BY <1>3, <3>1, HandlerFacts DEF CardKept, Screen
    <3>3. page.card /\ page'.decide => page.preview = page.approvalId
      BY <2>1, <2>4, HandlerFacts
      DEF ApproveAnswered, RejectAnswered, ExecuteAnswered, Screen, OnScreen, AboutTheCard, Deciders
    <3>4. page.card /\ (page'.execute \/ page'.label = "APPROVED") =>
             page.approvalId \in everGranted
      <4>1. CASE ApproveAnswered(h)
        BY <2>1, <2>2, <4>1, HandlerFacts DEF ApproveAnswered, Screen, OnScreen, Granted, Ok
      <4>2. CASE RejectAnswered(h)
        BY <2>1, <4>2, HandlerFacts DEF RejectAnswered, Screen, OnScreen
      <4>3. CASE ExecuteAnswered(h)
        BY <2>1, <2>2, <4>3, HandlerFacts DEF ExecuteAnswered, Screen, OnScreen, Granted
      <4> QED
        BY <2>4, <4>1, <4>2, <4>3
    <3> QED
      BY <1>3, <1>4, <3>1, <3>2, <3>3, <3>4 DEF OnScreen
  <2> QED
    BY <2>3, <2>4, <1>1
<1> QED
  BY <1>1, <1>3, <1>5, HandlerFacts, EndKeeps

LEMMA OtherAnswers ==
    ASSUME PageInv, NEW h \in Handlers, IntakeAnswered(h) \/ AuditAnswered(h)
    PROVE  PageInv'
<1>1. Ends(h) /\ UNCHANGED <<server, crossed>>
  BY DEF IntakeAnswered, AuditAnswered
<1>2. everGranted' = everGranted
  BY <1>1 DEF server
<1>3. CASE page' = page
  <2>1. ~crossed => CardKept(h) /\ OnScreen'
    BY <1>2, <1>3, HandlerFacts DEF CardKept, OnScreen
  <2> QED
    BY <1>1, <1>3, <2>1, HandlerFacts, EndKeeps
<1>4. CASE page' = Cleared
  <2>1. page' \in Screen /\ page'.card = FALSE /\ page'.traceId = NoTrace
    BY <1>4, HandlerFacts DEF Cleared, Screen
  <2> QED
    BY <1>1, <2>1, CardGone, EndKeeps
<1>5. CASE page' = [page EXCEPT !.notice = page.traceId \in run[h].events]
  <2> DEFINE noticed == page.traceId \in run[h].events
  <2>0. noticed \in BOOLEAN /\ page' = [page EXCEPT !.notice = noticed]
    BY <1>5
  <2> HIDE DEF noticed
  <2>1. /\ page' \in Screen /\ page'.card = page.card /\ page'.approvalId = page.approvalId
        /\ page'.preview = page.preview /\ page'.decide = page.decide
        /\ page'.execute = page.execute /\ page'.label = page.label
        /\ page'.traceId = page.traceId /\ page'.notice = noticed
    BY <2>0, HandlerFacts DEF Screen
  <2>2. ~crossed => CardKept(h) /\ OnScreen'
    BY <1>2, <2>1, HandlerFacts DEF CardKept, OnScreen
  <2>3. page'.notice => page'.traceId \in quarantined
    BY <2>1, HandlerFacts DEF noticed
  <2> QED
    BY <1>1, <2>1, <2>2, <2>3, HandlerFacts, EndKeeps
<1> QED
  BY <1>3, <1>4, <1>5 DEF IntakeAnswered, AuditAnswered

(***************************************************************************)
(* Every step.                                                             *)
(***************************************************************************)
\* A page that is loaded anew waits for nothing and shows nothing.
LEMMA ReloadKeeps ==
    ASSUME PageInv, Reload
    PROVE  PageInv'
<1>1. UNCHANGED server /\ page' = Fresh /\ run' = [h \in Handlers |-> Idle] /\ crossed' = FALSE
  BY DEF Reload
<1>2. Idle \in Handler /\ Idle.waits = None /\ Idle.events = {}
  BY DEF Idle, Handler, Traces, NoTrace
<1>3. Fresh \in Screen /\ Fresh.card = FALSE /\ Fresh.notice = FALSE
  BY DEF Fresh, Screen, Traces, NoTrace
<1>4. \A h \in Handlers : /\ run'[h].waits = None /\ run'[h].events = {}
                          /\ run'[h].waits \notin Submits \cup Buttons \cup {"preview", "analyze"}
                          /\ run'[h].waits \notin Deciders
  BY <1>1, <1>2, PageAssumption DEF Submits, Buttons, Deciders
<1>5. /\ current' = current /\ granted' = granted /\ fate' = fate /\ everGranted' = everGranted
      /\ analyses' = analyses /\ quarantined' = quarantined
  BY <1>1 DEF server
<1>6. Ledger!LedgerTypeOK'
  BY <1>5 DEF PageInv, PageTypeOK, Ledger!LedgerTypeOK
<1>7. PageTypeOK'
  <2>1. run' \in [Handlers -> Handler]
    BY <1>1, <1>2
  <2>2. page' \in Screen /\ page'.card = FALSE
    BY <1>1, <1>3
  <2>3. crossed' \in BOOLEAN
    BY <1>1
  <2> QED
    BY <1>4, <1>5, <1>6, <2>1, <2>2, <2>3 DEF PageInv, PageTypeOK
<1>8. NoticeInv'
  BY <1>1, <1>3, <1>4 DEF NoticeInv
<1>9. Uncrossed'
  <2>1. page'.card = FALSE
    BY <1>1, <1>3
  <2> QED
    BY <1>4, <2>1 DEF Uncrossed, Alone, OnScreen, AboutTheCard, Granted, Submits, Buttons
<1> QED
  BY <1>5, <1>7, <1>8, <1>9 DEF PageInv

LEMMA StepPage == PageInv /\ [PageNext]_pageVars => PageInv'
<1> SUFFICES ASSUME PageInv, [PageNext]_pageVars PROVE PageInv'
  OBVIOUS
<1>1. ASSUME NEW h \in Handlers, Click(h) PROVE PageInv'
  <2>1. /\ "approve" \in Buttons /\ "reject" \in Buttons /\ "execute" \in Buttons
        /\ "approve" \in Deciders /\ "reject" \in Deciders
    BY DEF Buttons, Deciders
  <2>2. CASE Submit(h)
    BY <2>2, SubmitKeeps
  <2>3. CASE Intake(h) \/ ClickAudit(h)
    BY <2>3, IntakeKeeps
  <2>4. CASE ClickDecision(h, "approve")
    BY <2>1, <2>4, ButtonKeeps
  <2>5. CASE ClickDecision(h, "reject")
    BY <2>1, <2>5, ButtonKeeps
  <2>6. CASE ClickExecute(h)
    BY <2>1, <2>6, ButtonKeeps
  <2> QED
    BY <1>1, <2>2, <2>3, <2>4, <2>5, <2>6 DEF Click
<1>2. ASSUME NEW h \in Handlers, Serve(h) PROVE PageInv'
  BY <1>2, ServeAnalyzeKeeps, ServeDecisionKeeps, ServeReadKeeps DEF Serve
<1>3. ASSUME NEW h \in Handlers, Continue(h) PROVE PageInv'
  BY <1>3, AnalysisKeeps, AnalysisWithApprovalKeeps, CardAnswered, OtherAnswers DEF Continue
<1>4. CASE UNCHANGED pageVars
  BY <1>4 DEF pageVars, server, PageInv, PageTypeOK, Ledger!LedgerTypeOK, NoticeInv, Uncrossed,
              Alone, OnScreen, AboutTheCard, Granted
<1> QED
  BY <1>1, <1>2, <1>3, <1>4, OthersKeep, ReloadKeeps DEF PageNext

THEOREM PageInvariant == PageSpec => []PageInv
<1> QED
  BY InitPage, StepPage, PTL DEF PageSpec

\* The types, and: a visible card is the card of an approval, and every
\* request about an approval names one, whatever handlers overlap.
THEOREM PageTypes == PageSpec => []PageTypeOK
<1>1. PageInv => PageTypeOK
  BY DEF PageInv
<1> QED
  BY <1>1, PageInvariant, PTL

\* Approve and reject can be clicked only while the preview on screen is that
\* of the approval they decide, unless a submit overlapped with a button or a
\* submit.
THEOREM DecisionsOnWhatIsShown == PageSpec => []DecidesWhatIsShown
<1>1. PageInv => DecidesWhatIsShown
  BY DEF PageInv, Uncrossed, OnScreen, DecidesWhatIsShown
<1> QED
  BY <1>1, PageInvariant, PTL

\* On the same condition the page offers to execute only what was granted; and
\* the notice of a quarantined attachment is about the analysis on screen.
THEOREM ScreenTellsTruth == PageSpec => []ScreenTruthful
<1>1. PageInv => ScreenTruthful
  BY DEF PageInv, Uncrossed, OnScreen, NoticeInv, ScreenTruthful
<1> QED
  BY <1>1, PageInvariant, PTL
=============================================================================
