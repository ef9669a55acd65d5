# ValueBridge procurement: TLA+ models, checks and proofs

ValueBridge analyses a purchase request with deterministic rules, opens an
approval for a finance approver when a rule blocks it, and creates a ticket in
MockDesk, an external system, once the approval was granted.  Every step is
written to an audit trail from which the pilot metrics are derived.  This
directory models the part of the repository in which things can go wrong in an
order nobody tested: worker threads that share a SQLite file, a deadline, crashes
between transactions, and an unreliable network with retries.

## 1. Inventory

| Part | Code | State | Operations | What is hard |
|---|---|---|---|---|
| approvals table | `app/store.py`, `app/approvals.py` | rows of `approvals` | `reconcile_approval`, `approve`, `reject`, `get_approval`, `require_approved`, `create_approval`, expiry | one connection per call, no lock between calls, the clock is read before the lock is waited for, audit after commit |
| cases, audit trail | `app/store.py` | rows of `cases`, `audit_events` | `save_case`, `load_case`, `add_audit`, `list_audit` | each insert is a transaction of its own |
| handlers | `app/service.py` | none of their own | `analyze`, `approve`, `reject`, `action_preview`, `execute`, `draft_intake`, `ask_policy_question` | a handler is a sequence of calls, others run in between; error paths call the store again |
| gateway | `app/mockdesk_client.py` | the attempt it is at | `create_ticket` | timeouts of requests that were carried out, bounded retry, late requests |
| MockDesk | `mockdesk/*.py` | rows of `tickets` | `create_ticket` | idempotency by key and payload hash, legacy rows |
| HTTP API | `app/main.py`, `app/errors.py` | the lazily created service | `resolve_service`, one route per handler, error mapping | the first requests may all make the service |
| store start-up | `SQLiteStore._initialize` | the columns of `approvals` | create tables, add and fill columns | several statements, each a transaction; other starts and crashes in between |
| roles, injection rules | `app/security.py` | none | `authorize`, `matched_injection_rule` | none (pure) |
| rate limiter | `app/rate_limit.py` | a token bucket per client | `consume` | floating-point refills, rounding of Retry-After, refill against capacity |
| page | `app/static/app.js` | `approvalId`, `analysisTraceId`, buttons, banners | one asynchronous handler per button | handlers overlap and read `approvalId` at different times |
| decision pipeline | `app/policy_engine.py`, `app/analysis.py`, `app/retrieval.py`, `app/data.py` | the data it was deployed with | `evaluate`, `analyze_purchase_history`, `current_policy` | dates and thresholds, several versions of a policy, data that changes under live approvals |
| policy questions, intake | `app/policy_qa.py`, `app/llm.py` | none | `ask`, `complete`, `embed` | degradation when a provider fails |
| metrics | `app/metrics.py` | none | `summarize` | what an event stands for |
| deployment | `docker-compose.yml` | the volumes | start, stop, crash of a container | the database outlives the process |
| offline tools | `app/evaluation.py`, `app/llm_benchmark.py`, `scripts/` | files | run once | none |

The parts interact through calls only.  A request runs in a worker thread of the
API and calls a handler; the handler calls the store, the gateway and the store
again; the gateway calls MockDesk over HTTP.  What they share is the SQLite file,
and the MockDesk table.  `PROJECT.json` lists the hazards line by line.

What makes the parts correct:

* **Approvals.** A purchase request has at most one live approval; an approval is
  decided at most once, expires only after its deadline, and never leaves a
  terminal status; every expiry and supersession is reported, once, by whoever
  caused it.
* **Handlers.** MockDesk only ever holds tickets of granted approvals with the
  content that was granted, as far as the approval has a fingerprint of it; the audit trail reports nothing that did not happen
  and omits nothing that did.
* **Gateway and MockDesk.** One ticket per key, kept as issued; a call ends; an
  answer is about the ticket of the caller's key and payload; a pause is one that can be
  slept, near to what the desk asked for.
* **Start-up.** Whoever is served finds a complete table; a deadline, once set, is not
  moved by a start; colliding first requests end with a service.
* **Decisions and questions.** What is decided, cited or shown rests on trusted data in
  force at the date, and on nothing later; an approval is reused only for the evidence it
  was opened for; the model provider never changes an outcome; every trace is closed once, and
  the metrics counted from the traces tell the same.  The rules engine agrees with the oracle of
  the evaluation exactly when the files the two read agree.
* **Rate limiter.** No interval grants more than capacity and refill; a client that waits as
  long as it was told to is admitted, or told to wait one second more, and then admitted.

## 2. Modules

| Module | Models | Extends / instantiates |
|---|---|---|
| `ApprovalLedger` | what the approvals table promises: per request one current approval, granted at most once, closed or replaced | |
| `ApprovalStore` | the approvals table with threads, transactions, clock, crashes | instantiates `ApprovalLedger` (refinement) |
| `TicketLedger` | what a caller of `create_ticket` may rely on | |
| `TicketGateway` | the retry loop, the network and the ticket table | instantiates `TicketLedger` (refinement) |
| `Workflow` | the handlers, composed with the store and the desk | extends `ApprovalStore`, instantiates `TicketLedger` |
| `Decision` | what an analysis computes: history, policy in force, rules, citations, failures | |
| `Analysis` | `analyze`, `draft_intake` and `ask_policy_question` with their audit traces, approvals and restarts | extends `Decision` |
| `Page` | the handlers of the browser page that share the approval on screen | instantiates `ApprovalLedger` (as the server) |
| `RateLimiter` | the token bucket of the public demo | |
| `Startup` | how a process comes to its service, with the migration of the approvals table | |
| `MCApprovalStore`, `MCWorkflow`, `MCPage`, `MCAnalysis`, `MCTicketGateway` | symmetry for TLC; requests and data of `Analysis`; values of Retry-After | |
| `ApprovalStore_proofs`, `ApprovalLedger_proofs`, `Workflow_proofs`, `TicketGateway_proofs`, `Analysis_proofs`, `Startup_proofs`, `Page_proofs`, `RateLimiter_proofs` | theorems | extend the module they are about and TLAPS |

### ApprovalStore

`approvals` is the table, `call[t]` the store call of thread `t`: the method, its
arguments, `now` (the clock it sampled), what it still has to audit (`todo`), what
it superseded, and its outcome.  A `BEGIN IMMEDIATE` transaction is one action
(`ReconcileTx`, `DecisionTx`, `ExpireWins`/`ExpireLoses`), because the write lock is
held from its first read to its commit.  Before it is the action that samples the
clock (`StartReconcile`, `StartDecision`, `ReadOverdue`), after it one action per
audited expiry (`AuditExpiry`) and the reads that follow (`ReadRow`, `Reread`).
`Abort` is a crash or an exception of SQLite at any of these points: committed rows
stay.  `Tick` is the clock; it never runs backwards, as `datetime.now(UTC)` is taken
not to.  With `Upgraded` the table comes from an earlier version: its open rows have the empty
fingerprint that `_initialize` gives them (`MigratedRow`, `None` here), and nothing is assumed of
how many there are for a request.  `approved_by`, `requested_by` and timestamps that no guard reads are left
out.  Two branches of the code have no action because they cannot run: the role
check inside the transaction (all rows require `finance_approver`, and `authorize`
has refused everyone else before) and `rowcount != 1` of a decision (the lock is
held since the row was read).

### TicketGateway

`gw[c]` is the caller's side of call `c`, `net` the requests on their way, `replies`
the answers, `rows` the table of MockDesk.  `ServeNew`, `ServeReplay` and
`ServeConflict` are the three ways through `MockDeskStore.create_ticket`; `ServeError`
is any non-retryable error status; `Lose` is a lost request or a 429, 503 or 504,
which the caller notices as `AttemptFails`.  A reply is only kept while its attempt is
waited for: the HTTP client closes the connection.  `ReceiveUnreadable` is a
success whose body is no ticket: the call fails although the ticket is there.  `made` is a
history variable, the calls whose request inserted the row.  The refinement shows that all this looks to the
caller like `TicketLedger`: `OPEN` goes only to an order that issued the ticket,
`CONFLICT` only means another payload, and `FAILED` means nothing, the ticket may have
been issued or may still be issued later.

`asked` is what the failed attempt's `Retry-After` comes to, in half seconds from now: seconds
and dates come to a number, which may be negative, and `None` stands for no header, one that
neither parser reads, and one that is not finite.  `RetryDelay` is `_retry_delay` on that.

### Workflow

A handler is a session of a thread, `sess[t]`; `pc` names the last call that
returned.  The store actions are those of `ApprovalStore`, unchanged, and a session
takes their outcome from `call[t]`.  `cases[id]` is the fingerprint of the stored
snapshot, `trail[id]` the kinds of event audited for the approval, `told` the ids that
users have seen in an answer, `granted` a history variable.  The desk is
`TicketLedger`, which `TicketGateway` implements.  `EditCase` is what
`tests/test_approval_context.py` does to a snapshot.  Not in the model: the steps of
`analyze` before `reconcile_approval` (they compute the fingerprint and whether an
approval is needed, both arbitrary here, and audit events without an approval id),
refusals of `analyze` and `action_preview` (no state changes), and decisions and
executions of ids that were never handed out by users who may decide and execute (404 by
the first read, without a trace).  Refusals of a role are audited for any id (`Decide`,
`DecisionDenied`, `ExecuteDenied`).

`SnapshotFits` is the comparison of `execute`, which the code makes only if the approval has a
fingerprint.  A migrated row has none: what was granted is then not recorded anywhere, and
`TicketNeedsGrant` says of its ticket what there is to say, that it has the content of the case
as it is or as it was edited to.

### Decision and Analysis

`Workflow` takes the fingerprint of a case and its need for an approval as arbitrary;
`Decision` says what they are.  A world is the data a process is deployed with: suppliers,
purchase history, policy manifest, and which providers are configured.  `Outcome` is the case
an analysis computes, or the failure that the code meets first.  The median is kept doubled
and the variance in units of 0.0001 %, so all numbers are whole; `HalfUp` is the rounding of
`quantize`.  `Before` is the sort of `current_policy`, which is stable: the manifest's order
decides between equals.  Two simplifications rest on the shipped data: purchases have a
positive price (a zero median would raise an exception of `decimal` that `analyze` does not
audit), and `suppliers.csv` parses.

`call[c]` is one request to the API, `trail[c]` the events under its trace id, in order.
Each `add_audit` is a transaction of its own, so each event is a step of its own: `Receive`,
`Quarantine` for one attachment of the supplier that matches a rule, `Fail`, `Report` for one of
the announcements, `ReportSuperseded` for one superseded approval, `Narrate`.  Between them are
`Assess`, which computes and writes nothing, `Claim`, the transaction of `reconcile_approval`, and
`SaveCase`.  `Raise` is a statement that fails with an error no handler catches, after which the
user gets a 500, and `Restart` the death of the process: both can come between any two of these
steps, and what the call committed stays.  `draft_intake` and `ask_policy_question` share nothing
before their one event and are one action each.  Scores only order candidates, so any `TopK` of
them can be shown; the text of answers and drafts is left out.  `Lapse` stands for the ways an
approval ends that `ApprovalStore` models.  `Restart` may bring another world, the database being
on a volume of its own.  `Past(w, date)` is a world without the purchases and policies of later
days; what stays keeps its place.

`summarize` has the counters of `metrics.py` that these traces feed: decisions, superseded
approvals, quarantined attachments, denials.  `MetricsTellOutcome`, a part of
`TrailTellsOutcome`, compares them with what users were told.  A call that is cut off leaves the
events it has written, so two counters have bounds and no value: a decision is counted for
every analysis that was answered and for none that did not decide; an attachment, once
for every analysis that came as far as the computation and at most once for one that did not.

`PolicyOracle` is the second implementation of the rules, which `app/evaluation.py` compares with
the engine over its frozen cases.  It reads `evals/policy_oracle.yaml` and not the
engine's `data/policy_rules.yaml`, and has two switches the engine does not look at; its file is
the constant `Oracle`, apart from the engine's constants.  The theorem `EngineMatchesOracle` says,
for every request and supplier, that the two agree if and only if the files do (`FilesAgree`).

### Startup

`start[t]` is a request on its way to the service: `create`, `inspect`, `migrate` and `fill` are
the places between the statements of `_initialize`, each of which is a transaction, the
connection being in autocommit mode; `seen` is the set of columns that `PRAGMA table_info` showed
or this start added.  `deadline[id]` is what the `expires_at` of an approval is: no row, `NULL`
(which `_record_from_row` cannot read), filled by the migration, or written with the row.
`LoseRace` is the duplicate column of a slower start, answered with 500.  `Raise` and `Crash` stop
one start or all of them at any point; `cut` is a history variable that remembers whether one fell
between the `ALTER TABLE` and its `UPDATE`.  `UnreadableOnlyIfCut` says that only then a row stays
without a deadline.  Such a row is not repaired by a later start, which finds the column there:
that is what the code does, see section 5.

### Page

`page` is what the script remembers and shows: `approvalId`, `analysisTraceId`, whether the
approval card is visible, whether its buttons are enabled (approve and reject always
together), the status it names, whose preview is on screen, and the quarantine notice.
`run[h]` is a handler at one of its awaits.  `Click` is what a handler does up to its first
request, `Serve` what the server does with it, `Continue` what the handler does with the
answer up to the next request.  The server is `ApprovalLedger`, which `ApprovalStore`
implements: `ServeAnalyze`, `ServeApprove` and `ServeReject` are steps of the ledger, and
`Others` is any step of it (other users, other tabs, the deadline).  An answer can be an
error or get lost after the request was carried out (`Fail`), and what it said is lost with it;
the script treats both alike except after an analysis.  `crossed` is a history variable: a submit was under way together
with a button or with another submit since the page was loaded.

### RateLimiter

Time is counted in ticks and tokens in units (`Token` of them are a token, a tick refills
`Rate`), so that all amounts are whole numbers.  The code uses floating point, and both properties
of Retry-After lie where that shows: at 6 requests a minute ten refills of a second make
0.9999999999999999 tokens, at 40 a minute `ceil` makes two seconds of 1.0000000000000002.  So what a
call computes may be `Slip` units off, either way: `Refills` and `RetryAfters` are the sets of what
may come out, and each call of `consume` that refills anything is rounded anew, which is why
polling can lose more than waiting.  Two operations are exact in the code and here: taking a token
of the at least one that is there, and a refill for no time.  `RoundingAssumption` bounds what all
errors of a pause add up to by the refill of a second; with doubles and a clock of
nanoseconds it does so by about four orders of magnitude for the deployed limits (30 tokens, 30 a
minute), and still does for 1 a minute and a capacity of some hundreds.

`bucket[c]` is the pair of `_buckets`; a client that was never seen counts as one with a full
bucket, which is what `get(client, (capacity, now))` makes of it.  `watched` and `promised` are
history variables: what a client was granted since an instant that can be chosen at any time, and
until when it was told to wait.

## 3. Runs

| Run | Instance | Result |
|---|---|---|
| `store_safety` | 2 threads, 3 approvals, 1 request, 2 fingerprints, TTL 0, clock to 1, calls may die | all safety properties of the store hold and it implements `ApprovalLedger` |
| `store_live` | 2 threads, 2 approvals, TTL 0, clock to 1, `create_approval` used, nothing dies, fairness | every call returns, every expiry is audited |
| `desk` | 2 calls, 2 keys, 2 payloads, 2 attempts, a legacy row, unreadable successes, four kinds of Retry-After | one ticket per key, truthful answers, calls end, bounded pauses, `TicketLedger` is implemented |
| `workflow` | 2 threads, 2 approvals, of which one may be from an earlier version, 2 fingerprints; analyze, approve, execute; crashes and edited cases | tickets need grants and say what was granted, as far as that is recorded; a ticket is reported as created at most once |
| `workflow_trail` | the same, with reject and preview and a deadline that passes, nothing dies | the trail is truthful and names every supersession |
| `page` | 2 handlers, 2 approvals, 1 request, 2 analyses, any step of other users, failures, reloads | with no overlapping submit the buttons and the card are about the previewed, truthfully labelled approval; requests always name one; notices are never about another analysis |
| `analysis` | 2 calls of any kind, 5 requests, 4 worlds, 4 roles, 1 restart, errors between any two steps | decisions, citations and answers are grounded, later data has no say, stricter requests are not judged more mildly, approvals are reused for the same evidence only, traces, approvals and metrics are accounted for |
| `limiter` | 2 clients, 2 tokens of 13 units, 6 units a tick, 1 tick a second, 1 unit of rounding, clock to 4 | admissions are bounded in every interval, Retry-After is at most one second too short and one too long |
| `startup` | 3 threads, 2 approvals, any older table, 2 crashes or failing statements, fairness | who is served finds all columns, deadlines stand, only a cut migration leaves a row without one, the service comes |
| `preview_stale` | the instance of `page` | counterexample, section 5 |
| `grant_unaudited`, `ticket_superseded` | small instances of `Workflow` | counterexamples, section 5 |

Bounds.  Two threads are enough for every race on one row: a call has at most one
transaction that writes rows, so a third party adds a further call of the same kind,
which the first thread can make after its first one returned.  Three approvals let one be
superseded, one expire and one stay live.  With TTL 0 and two instants a call can sample
an instant before the deadline (0, for a row of instant 1), the deadline itself or one after
it, and act later.  `IdsLeft` keeps an id for every
reconcile under way, so that no call blocks for want of ids.  Two attempts instead of three
give the three situations of the loop (first, between, last) with one retry; `MaxAttempts` is
a parameter.  `MCHeaders` has a date that is past, a time within the cap, one beyond it, and
none; the delays at the first and at the second attempt differ.  In `startup` three starts let one
be ahead, one collide with it and one come late, and two faults a crash during the repair of a
crash; `StartupInit` has every table an earlier version can have left.  In
`analysis` the amounts 1, 2 and 3 lie below, between and above the thresholds 1 and 2 (2 lies
on the strict one), the dates 1 and 2 before and on the day of a new policy and a new
purchase, and each world has one kind of trouble: rows and policies of the future, an attachment that
looks like a policy; a newer policy for one role; gaps in the policies and no early purchase; an
unreadable row and no policy in force.  In `page` two handlers
suffice for an overlap of any two clicks, and two analyses for a late answer of the first;
a handler that only refreshes the audit trail also takes one of the two places.  In
`limiter` a token is not a whole number of seconds of refill (13 units against 6 a second), a
unit more or less decides between two pauses, and the errors of a pause add up to nearly what a
second refills, about the most `RoundingAssumption` allows.  In `workflow` one fingerprint is that of
edited cases and one is not, so that a ticket with an edited content can be told from one of
another approval; `MigratedSpec` is `FlowSpec` with at most one migrated row, the other
approval being opened by a handler.  `Offered` and `Recorded` bound which handlers users call and which kinds of
event are kept; an event that is not kept still is a step.  Deadlock is not checked:
when ids, calls and clock are used up and every call has returned, the instance is done.

Fairness.  `FairSpec` assumes that a thread inside a store call goes on
(`WF(StoreStep(t))`): threads are scheduled, and a write transaction gets the lock within
the busy timeout of 30 s (`store.py:37-40`), transactions being a handful of statements.
Entering calls, returning to the caller, crashes and the clock get none.
`GatewayFairSpec` assumes only the timers of the client: its 5 s timeout fires and its
pause ends.  Nothing is assumed of the network or MockDesk.  `StartupFairSpec` assumes that a
thread inside `_initialize` goes on (`WF(StartStep(t))`), for the reason given for the store; that
users ask is not assumed, and a start may raise or die as often as `MaxFaults` allows.

`FlowSpec`, `AnalysisSpec`, `PageSpec` and `LimiterSpec` state no fairness: their properties are safety
properties.  `fetch` has no timeout in the page, so nothing there has to end.

## 4. Proofs

The theorems hold for any number of threads, ids, requests, fingerprints, keys, any TTL
and any clock, from the named assumptions of the modules: `None` is no id, fingerprint, key, answer,
status or outcome, the numbers are naturals, the oracle's file has the fields the code reads
(`OracleAssumption`), the rounding errors of a pause stay below the refill of a second
(`RoundingAssumption`), the calls of `Analysis` are finitely many, and a policy
manifest is a sequence with integer dates and versions.

* `TypeCorrect`: by one lemma per action; `TypeStep` is reused everywhere.
* `LifecycleHolds`: the table changes only in `ReconcileTx`, `DecisionExpires`,
  `DecisionCommits`, `ExpireWins` and `CreateApproval`; `RowSteps` says how, row by row.
* `OneLiveApproval`: `SingleLive` is inductive with the types, given that
  `create_approval` is not used and the table is not one of an earlier version (`~Upgraded`);
  `StoreImplementsLedger` and `FlowOneLiveApproval` assume the same.
* `ExpiryAuditedOnce`: strengthened to `ExpiryInv`: whoever has an id in `todo` has
  expired it, no two calls have the same one, and such an id has no event yet.
* `ExpiryNeverEarly`: strengthened with `NowPast`: no call has sampled a later clock than the
  current one.
* `StoreImplementsLedger`: `RowsOwned` (only rows of real requests are live) and
  `SingleLive` make the mapping well defined; a decision, an expiry and each branch of
  `ReconcileTx` maps to one ledger action or a stutter.
* `HandlersUseStore`, `FlowTypes`, `FlowOneLiveApproval`: a step of the handlers is a
  step of the store or leaves it alone, so what is proved of the store carries over.
* `TicketsNeedGrants`: the invariant `GrantInv` follows the grant along the handler: a row
  that is APPROVED is in `granted`; what a call has seen as APPROVED was granted; the
  call of an execute reads the approval of its session; what is ordered, on
  its way or issued is covered by a grant with that fingerprint.  Without a fingerprint the
  content is that of the case or an edit (`Says`): the case of such a row is never saved again,
  because a call that saves a case created its row with a fingerprint (`CallsCreated`).

* `AdmissionsBounded`: strengthened to `Budget`: what was admitted since the chosen instant and
  what is left do not exceed a full bucket and the refill, rounded up in every tick, up to the last
  count.
* `PromisesKept`, `PromisesTight`: the invariant `Pauses` says, for a client that was told to wait,
  between which bounds the tokens of its last count lie, given what each count in between may have
  lost or gained; `RoundsUp` is the lemma about the rounding of `ceil`.  What is promised is
  one second weaker either way than exact arithmetic would allow, because the program is.

* `TicketsUnique`, `AnswersNameTickets`: from `GatewayInv`, which adds to the types that
  a row has no hash or that of its payload, that one row has the highest number (so `NextNumber`
  is new), that every successful reply on its way names the row of its call's key and payload, and
  that an attempt is one of the loop.  Rows are only added, and a replay changes nothing but
  the hash of a legacy row.
* `EngineMatchesOracle` and the lemma `StricterAppliesMore` are about `Evaluate` alone, for all
  numbers; the oracle's three blocks are the three rules beside the supplier's status.  That the
  files must agree is shown by requests on which the two differ if they do not, one for each
  field: an amount between two thresholds, a number of quotes between two minima, an inactive
  supplier, an expired certificate.
* `AnalysisTypes`, `ReuseNeedsSameEvidence`, `StricterJudged`: the invariant `AnalysisInv` says
  that a call that computed a case computed it from the data of its own process (`Founded`), that
  an approval it was handed has the fingerprint of that case, and that a snapshot is the
  fingerprint of its approval.  `Honest` is local to a call, so that `CallStep` reduces a step to
  the call that takes it; `RestartKeeps` shows that what is left in the database stays right under
  other data.
* `StartupTypes`, `UnreadableExplained`, `DeadlinesStand`: from `StartupInv`, which adds that a
  start has seen only columns that are there, so that whoever has seen all of them finds a complete
  table, and that before there is a table no row is without a deadline.
* `PageTypes`, `DecisionsOnWhatIsShown`, `ScreenTellsTruth`: from `PageInv`.  A submit that nothing
  crossed is alone with the buttons (`Alone`), so whoever waits for a preview or a decision works on
  the approval of the card (`AboutTheCard`), and what a handler takes for granted was granted
  (`Granted`); none of this is claimed once a submit was crossed.  `UncrossedStep` reduces a step
  to the handler that takes it.  For the notice, the events of an answer are a subset of what is
  quarantined, and an analysis under way has a trace that was given out.

* `DecidersToldOnce`: `DecisionInv` says that a call that is about to return a decision has
  written it and that the row still has it or was changed by a later analysis, and that at most one
  call has decided an id; `SupersededReportedOnce` says the same of what a `reconcile` superseded.
* `TrailIsTruthful`: `OwnsDecision` ties a handler that will audit a decision to the store call
  that took it, and `TrailInv` adds that whoever won an approval granted it, and that what is
  still to be audited as superseded is superseded.
* `TicketReportedOnce`: at most one order under way created the ticket of its key, and none once the trail
  says so (`CreatedOk`); an order belongs to the execute that placed it (`OrdersOwned`).
* `SupersessionsReachTrail` is stated for processes that do not die (`~CanAbort`) and a trail that
  keeps the event (`"SUPERSEDED" \in Recorded`), the constants of `workflow_trail`: a death between
  the commit and the audit loses the event, as the hazards say.  `ReportInv` says that a superseded
  approval has its event or a handler still owes it.
* `GatewayImplementsLedger`: `ticketOf`, `orderOf` and `lateOf` map rows, calls and requests under
  way to the ledger.  `AnswersInv` says what a reply on its way means for the ledger: `OPEN` goes to
  the one call that created the row, and a conflict names another payload.  Each action then is one
  of the ledger or a stutter.
* `PausesBounded`: from `AttemptsInv` (no pause after the last attempt) and `PowerOfTwo`.  The
  provers know nothing of `2 ^ n`, and induction needs an operator parameter; the lemma counts the
  subsets of `1..n` instead (`FS_SUBSET`).
* `AnswersGrounded`: `ShowsInv` says what a call shows is from the data it read; `NewestIsTaken`
  shows that `Before` has a first element on every finite manifest, so that the `CHOOSE` of
  `CurrentPolicy` has a policy in force that no other replaces.
* `FutureIsIgnored`: `PastOutcome` goes through `Outcome` operator by operator and shows
  that each reads only places that `Past` keeps.
* `TrailTellsEveryOutcome`: `ToldInv` says, place by place, what the trail of a call holds at every
  point of its handler, between any two of its events too, where an error or a restart may end it; `OwnersInv`, that an approval is opened by one call and
  superseded by at most one.  The counters are compared by maps between events and calls that are
  one to one and onto, with the library's facts about cardinality.
* `MedianOfCounted` is about the helpers alone: the amounts `Ranked` chooses exist and have their rank.
  The proof finds them as the least amount with enough rows up to it.

Of the properties of the passing runs every invariant, action property and refinement
is stated by a theorem.  Only model-checked are the liveness properties `CallsReturn`,
`ExpiryAudited`, `CallEnds` and `ServiceComes`, because fairness and `ENABLED` are beyond the
prover.  The runs that expect a violation are counterexamples and need no proof.

## 5. Findings

1. **A decision without its preview** (`preview_stale`).  The form can be submitted again
   while an analysis is under way.  The preview of the first approval, answered late, enables
   approve and reject for the second, whose preview has not loaded.
2. **A grant without an event** (`grant_unaudited`).  `approve` commits first and
   loads the case snapshot afterwards.  A second, identical analysis can hand out an
   approval whose snapshot the first one has not saved; approved in that window, the
   approval is granted, the answer is 404 and `APPROVAL_GRANTED` is never written.  If
   the first analysis dies in the window the approval stays in that state: it is reused by
   every identical analysis and can never be executed.
3. **A ticket of a superseded approval** (`ticket_superseded`).  `execute` checks the
   status once; a corrected analysis may supersede the approval before the ticket is
   created.  The ticket is one that was granted, but not one that is.

Observations that no run checks, because no document of the repository says otherwise in
terms a model can refute, or because the remedy is a matter of operations:

* If the answer to the attempt that created a ticket is lost, its retry is answered
  `ALREADY_PROCESSED` (`mockdesk_client.py:91`); the metrics count a prevented duplicate, no
  creation and no cycle time (`metrics.py:42`).
* An approval that was migrated from a version without fingerprints (`store.py:92-96`) skips the
  comparison of `execute` (`service.py:590`): for these approvals, and only for them, an edited
  case is sent as it is.  `ApprovalContextChangedError` and its test are about approvals that
  have one.
* The engine never reads `comparison` and `must_be_valid_on_request_date` of its own
  `data/policy_rules.yaml` (lines 4 and 12); the oracle honours both in its file.  With the
  shipped files it makes no difference; an edit of the engine's file would have no effect, and
  the evaluation would not notice, because it reads the other file.
* Retry-After can be a second too long or, for a client that polls meanwhile, a second too short:
  floating point, see `RateLimiter`.  The deployed rate, half a token a second, is exact at whole
  seconds.
* A start that is stopped between `ALTER TABLE` and `UPDATE` (`store.py:81`, `:83`) leaves
  approvals without a deadline for good.  `UnreadableOnlyIfCut` shows that nothing else does.

## 6. Plan

Done, in the order of importance: approvals table, gateway and MockDesk, handlers and
their theorems, rate limiter and its theorems, browser page, decisions and questions, start-up,
theorems of the gateway, of the analyses, of the start-up and of the page, then a theorem
for every remaining safety property, the refinement of `TicketLedger` among them.  Next:

1. `TicketGateway` under the handlers: that `Workflow` with `TicketGateway` in the place of
   its ledger keeps `TicketNeedsGrant`.
2. `HalfUp` and the displayed variance: that rounding twice is off by at most what
   the two steps allow.
3. The safety half of the liveness properties: that no reachable state of a call is without a
   next step.

## 7. Not modelled

* The scores of `policy_qa` (BM25, cosine and their mixture are floating point over text): any
  few of the candidates may be shown, so what is proved and checked holds for every scoring.
* The texts of a model provider, a draft, an answer or an explanation: they are display only.
* The cycle time of the metrics, a median of wall-clock times, and the order in which events of
  equal time are listed.
* Error bodies, headers, the status card and its probe of MockDesk, the home page: formatting of
  answers, without state.
* The patterns of the injection rules and the parsing of CSV, YAML and policy files.
* The offline tools beside the oracle (benchmark, fixture recording, verification scripts): they
  run the service once over fixtures and write reports.
