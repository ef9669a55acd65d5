---------------------------- MODULE TicketGateway ----------------------------
(***************************************************************************)
(* HttpMockDeskGateway.create_ticket (app/mockdesk_client.py) calling      *)
(* MockDeskStore.create_ticket (mockdesk/store.py) over a network that     *)
(* loses and delays requests and replies.  A request whose caller timed    *)
(* out may still reach the desk, after the retry or after the caller gave  *)
(* up altogether.                                                          *)
(***************************************************************************)
EXTENDS Integers, FiniteSets

CONSTANTS
    Calls,         \* calls of create_ticket; each is used once
    Keys,          \* idempotency keys
    Payloads,      \* canonical payloads; equal hashes mean equal payloads
    None,
    MaxAttempts,   \* _MAX_ATTEMPTS
    Base, Cap,     \* _BACKOFF_BASE_SECONDS, _BACKOFF_CAP_SECONDS, in half seconds
    Headers,       \* what a Retry-After comes to, in half seconds from now, and
                   \* None: there is none, or it is unreadable or not finite
    LegacyKeys     \* keys that may own a row from before payload_hash existed

Results == {"OPEN", "ALREADY_PROCESSED", "CONFLICT", "FAILED"}

ASSUME GatewayAssumption ==
    /\ MaxAttempts \in Nat \ {0}
    /\ Base \in Nat /\ Cap \in Nat
    /\ Headers \subseteq Int \cup {None}
    /\ None \in Headers
    /\ LegacyKeys \subseteq Keys
    /\ None \notin Payloads \cup Keys \cup Results

VARIABLES
    rows,      \* the tickets table
    net,       \* requests on their way: <<call, attempt>>
    replies,   \* replies on their way to a caller that waits for them
    gw,        \* the caller's side of each call
    made       \* calls whose request inserted the row while they waited

gatewayVars == <<rows, net, replies, gw, made>>

Attempts == 1..MaxAttempts

TicketRow == [key : Keys, number : Nat, payload : Payloads, hash : Payloads \cup {None}]
Reply == [call : Calls, result : Results, number : Nat]
GatewayCall == [pc : {"idle", "waiting", "backoff", "done", "dead"},
                key : Keys \cup {None}, payload : Payloads \cup {None},
                attempt : Nat, asked : Headers, outcome : Results \cup {None}, number : Nat]

Unused == [pc |-> "idle", key |-> None, payload |-> None, attempt |-> 0,
           asked |-> None, outcome |-> None, number |-> 0]

\* The table is empty, or holds one row that was written before the
\* payload_hash column was added.
GatewayInit ==
    /\ \/ rows = {}
       \/ \E k \in LegacyKeys, p \in Payloads :
             rows = {[key |-> k, number |-> 1001, payload |-> p, hash |-> None]}
    /\ net = {}
    /\ replies = {}
    /\ gw = [c \in Calls |-> Unused]
    /\ made = {}

Waits(c) == gw[c].pc \in {"waiting", "backoff"}

-----------------------------------------------------------------------------
(* The desk: one write transaction per request.                            *)

RowsOf(k) == {row \in rows : row.key = k}

\* COALESCE(MAX(number), 1000) + 1
NextNumber ==
    1 + (IF rows = {} THEN 1000
         ELSE CHOOSE n \in {row.number : row \in rows} :
                 \A row \in rows : n >= row.number)

StoredHash(row) == IF row.hash = None THEN row.payload ELSE row.hash

\* The desk answers attempt n of call c and the request is consumed.  A reply
\* to an earlier attempt finds its connection closed.
Replied(c, n, result, number) ==
    /\ net' = net \ {<<c, n>>}
    /\ replies' =
          IF gw[c].pc = "waiting" /\ gw[c].attempt = n
          THEN replies \cup {[call |-> c, result |-> result, number |-> number]}
          ELSE replies
    /\ UNCHANGED gw

\* Mutant: the row is inserted without looking for one that has the key.
ServeNewUnchecked(c, n) ==
    /\ <<c, n>> \in net
    /\ rows' = rows \cup {[key |-> gw[c].key, number |-> NextNumber,
                           payload |-> gw[c].payload, hash |-> gw[c].payload]}
    /\ made' = IF Waits(c) THEN made \cup {c} ELSE made
    /\ Replied(c, n, "OPEN", NextNumber)

ServeNew(c, n) ==
    /\ <<c, n>> \in net
    /\ RowsOf(gw[c].key) = {}
    /\ rows' = rows \cup {[key |-> gw[c].key, number |-> NextNumber,
                           payload |-> gw[c].payload, hash |-> gw[c].payload]}
    /\ made' = IF Waits(c) THEN made \cup {c} ELSE made
    /\ Replied(c, n, "OPEN", NextNumber)

\* Mutant: a key that was used before is answered without comparing hashes.
ServeReplayUnchecked(c, n) ==
    /\ <<c, n>> \in net
    /\ \E row \in RowsOf(gw[c].key) :
          /\ rows' = (rows \ {row}) \cup {[row EXCEPT !.hash = StoredHash(row)]}
          /\ Replied(c, n, "ALREADY_PROCESSED", row.number)
    /\ UNCHANGED made

\* Mutant: a replay is answered like a new ticket.
ServeReplayAsOpen(c, n) ==
    /\ <<c, n>> \in net
    /\ \E row \in RowsOf(gw[c].key) :
          /\ StoredHash(row) = gw[c].payload
          /\ rows' = (rows \ {row}) \cup {[row EXCEPT !.hash = StoredHash(row)]}
          /\ Replied(c, n, "OPEN", row.number)
    /\ UNCHANGED made

\* The key was used for the same payload: the stored ticket is returned, and
\* a legacy row gets its hash.
ServeReplay(c, n) ==
    /\ <<c, n>> \in net
    /\ \E row \in RowsOf(gw[c].key) :
          /\ StoredHash(row) = gw[c].payload
          /\ rows' = (rows \ {row}) \cup {[row EXCEPT !.hash = StoredHash(row)]}
          /\ Replied(c, n, "ALREADY_PROCESSED", row.number)
    /\ UNCHANGED made

ServeConflict(c, n) ==
    /\ <<c, n>> \in net
    /\ \E row \in RowsOf(gw[c].key) : StoredHash(row) # gw[c].payload
    /\ Replied(c, n, "CONFLICT", 0)
    /\ UNCHANGED <<rows, made>>

\* The desk, or a proxy before it, answers an error that is not worth a retry,
\* without touching the table.
ServeError(c, n) ==
    /\ <<c, n>> \in net
    /\ Replied(c, n, "FAILED", 0)
    /\ UNCHANGED <<rows, made>>

\* The request is lost, or turned away with 429, 503 or 504: to the caller
\* that is an attempt that fails.
Lose(c, n) ==
    /\ <<c, n>> \in net
    /\ net' = net \ {<<c, n>>}
    /\ UNCHANGED <<rows, replies, gw, made>>

-----------------------------------------------------------------------------
(* The caller: up to MaxAttempts posts of the same request.                *)

Start(c, k, p) ==
    /\ gw[c].pc = "idle"
    /\ gw' = [gw EXCEPT ![c] = [Unused EXCEPT
                 !.pc = "waiting", !.key = k, !.payload = p, !.attempt = 1]]
    /\ net' = net \cup {<<c, 1>>}
    /\ UNCHANGED <<rows, replies, made>>

End(c, outcome, number) ==
    gw' = [gw EXCEPT ![c].pc = "done", ![c].outcome = outcome, ![c].number = number]

RepliesTo(c) == {r \in replies : r.call = c}

Receive(c) ==
    /\ gw[c].pc = "waiting"
    /\ \E r \in RepliesTo(c) : End(c, r.result, r.number)
    /\ replies' = replies \ RepliesTo(c)
    /\ UNCHANGED <<rows, net, made>>

\* A success that cannot be read, or names another request, is an error that is
\* not worth a retry, although there is a ticket.
ReceiveUnreadable(c) ==
    /\ gw[c].pc = "waiting"
    /\ \E r \in RepliesTo(c) : r.result \in {"OPEN", "ALREADY_PROCESSED"}
    /\ End(c, "FAILED", 0)
    /\ replies' = replies \ RepliesTo(c)
    /\ UNCHANGED <<rows, net, made>>

\* Mutants: the last attempt is repeated instead of giving up; the loop makes
\* one attempt too many.
AttemptFailsForever(c) ==
    /\ gw[c].pc = "waiting"
    /\ gw' = [gw EXCEPT ![c].pc = "backoff",
                        ![c].attempt = IF @ < MaxAttempts THEN @ ELSE @ - 1]
    /\ replies' = replies \ RepliesTo(c)
    /\ UNCHANGED <<rows, net, made>>
AttemptFailsOnceMore(c) ==
    /\ gw[c].pc = "waiting"
    /\ IF gw[c].attempt <= MaxAttempts
       THEN gw' = [gw EXCEPT ![c].pc = "backoff"]
       ELSE End(c, "FAILED", 0)
    /\ replies' = replies \ RepliesTo(c)
    /\ UNCHANGED <<rows, net, made>>

\* A timeout, a broken connection or a retryable status, which may say when to
\* retry; a reply that is under way is lost.  The last attempt ends with
\* MockDeskUnavailableError.
AttemptFails(c) ==
    /\ gw[c].pc = "waiting"
    /\ IF gw[c].attempt < MaxAttempts
       THEN \E asked \in Headers :
               gw' = [gw EXCEPT ![c].pc = "backoff", ![c].asked = asked]
       ELSE End(c, "FAILED", 0)
    /\ replies' = replies \ RepliesTo(c)
    /\ UNCHANGED <<rows, net, made>>

Least(m, n) == IF m < n THEN m ELSE n
Greatest(m, n) == IF m < n THEN n ELSE m

\* Mutant: a time that is past is not brought up to now.
RetryDelaySigned(attempt, asked) ==
    Least(IF asked = None THEN Base * 2 ^ (attempt - 1) ELSE asked, Cap)

\* _retry_delay: how long to sleep before the next attempt.
RetryDelay(attempt, asked) ==
    IF asked = None THEN Least(Base * 2 ^ (attempt - 1), Cap)
    ELSE Least(Greatest(asked, 0), Cap)

\* The sleep has ended.
Resend(c) ==
    /\ gw[c].pc = "backoff"
    /\ gw' = [gw EXCEPT ![c].pc = "waiting", ![c].attempt = @ + 1, ![c].asked = None]
    /\ net' = net \cup {<<c, gw[c].attempt + 1>>}
    /\ UNCHANGED <<rows, replies, made>>

\* The application dies while it waits.
Die(c) ==
    /\ Waits(c)
    /\ gw' = [gw EXCEPT ![c].pc = "dead", ![c].asked = None]
    /\ replies' = replies \ RepliesTo(c)
    /\ UNCHANGED <<rows, net, made>>

GatewayNext ==
    \E c \in Calls :
          \/ \E k \in Keys, p \in Payloads : Start(c, k, p)
          \/ Receive(c)
          \/ ReceiveUnreadable(c)
          \/ AttemptFails(c)
          \/ Resend(c)
          \/ Die(c)
          \/ \E n \in Attempts :
                \/ ServeNew(c, n)
                \/ ServeReplay(c, n)
                \/ ServeConflict(c, n)
                \/ ServeError(c, n)
                \/ Lose(c, n)

GatewaySpec == GatewayInit /\ [][GatewayNext]_gatewayVars

\* The client's timeout fires and its sleep ends; nothing is assumed of the
\* network or of the desk.
GatewayFairSpec ==
    GatewaySpec /\ \A c \in Calls :
        WF_gatewayVars(Receive(c) \/ ReceiveUnreadable(c) \/ AttemptFails(c)) /\ WF_gatewayVars(Resend(c))

-----------------------------------------------------------------------------
(* Properties                                                              *)

\* The types; a request on its way belongs to a call that was started.
GatewayTypeOK ==
    /\ rows \in SUBSET TicketRow
    /\ net \in SUBSET (Calls \X Attempts)
    /\ replies \in SUBSET Reply
    /\ gw \in [Calls -> GatewayCall]
    /\ made \in SUBSET Calls
    /\ \A c \in Calls : gw[c].pc # "idle" => gw[c].key \in Keys /\ gw[c].payload \in Payloads
    /\ \A m \in net : gw[m[1]].pc # "idle"

\* However many calls, retries and late requests use a key, it gets one
\* ticket, and no two keys share a ticket number.
UniqueTickets ==
    \A row, other \in rows :
        row.key = other.key \/ row.number = other.number => row = other

\* A call that succeeded was given the number of the one ticket that carries
\* its key and its payload, although another attempt, or another call, may
\* have created it.
AnswerNamesTicket ==
    \A c \in Calls :
        gw[c].outcome \in {"OPEN", "ALREADY_PROCESSED"} =>
            \E row \in rows : /\ row.key = gw[c].key
                              /\ row.payload = gw[c].payload
                              /\ row.number = gw[c].number

\* Whatever Retry-After says, a caller sleeps for a time that can be slept and
\* is at most Cap, as near to the time asked for as that allows; a desk that
\* does not say is left alone for a while.
Pause(c) == RetryDelay(gw[c].attempt, gw[c].asked)
Distance(m, n) == Greatest(m - n, n - m)
PauseBounded ==
    \A c \in Calls : gw[c].pc = "backoff" =>
        /\ Pause(c) \in 0..Cap
        /\ IF gw[c].asked = None THEN Pause(c) >= Least(Base, Cap)
           ELSE \A d \in 0..Cap : Distance(gw[c].asked, Pause(c)) <= Distance(gw[c].asked, d)

\* A call ends after at most MaxAttempts attempts, whatever the network does.
CallEnds == \A c \in Calls : Waits(c) ~> gw[c].pc \in {"done", "dead"}

-----------------------------------------------------------------------------
(* The ticket ledger the gateway and the desk implement together.          *)

ticketOf ==
    [k \in Keys |-> IF RowsOf(k) = {} THEN None ELSE (CHOOSE row \in RowsOf(k) : TRUE).payload]

orderOf ==
    [c \in Calls |->
        [phase |-> IF Waits(c) THEN "open" ELSE IF gw[c].pc = "done" THEN "done" ELSE "idle",
         key |-> IF gw[c].pc = "dead" THEN None ELSE gw[c].key,
         payload |-> IF gw[c].pc = "dead" THEN None ELSE gw[c].payload,
         created |-> gw[c].pc # "dead" /\ c \in made,
         answer |-> gw[c].outcome]]

lateOf ==
    {<<gw[c].key, gw[c].payload>> :
        c \in {d \in Calls : ~Waits(d) /\ \E n \in Attempts : <<d, n>> \in net}}

Ledger == INSTANCE TicketLedger
            WITH Callers <- Calls, ticket <- ticketOf, order <- orderOf, late <- lateOf

\* Retries, lost replies and late requests show only as what the ledger
\* allows: one ticket per key, OPEN only to the call that created it,
\* CONFLICT only for another payload.
ImplementsTicketLedger == Ledger!TicketSpec
=============================================================================
