----------------------------- MODULE TicketLedger -----------------------------
(***************************************************************************)
(* What a caller of MockDeskGateway.create_ticket may rely on, without the *)
(* network, the retries or the desk's table: one ticket per idempotency    *)
(* key, and a failed order may still be carried out later, or never.       *)
(***************************************************************************)
CONSTANTS
    Callers,    \* who may have an order open
    Keys,       \* idempotency keys
    Payloads,   \* ticket contents
    None

VARIABLES
    ticket,     \* what the ticket of a key says, None before it is issued
    order,      \* the order a caller has open
    late        \* orders given up by their caller, still on their way

ticketVars == <<ticket, order, late>>

Answers == {"OPEN", "ALREADY_PROCESSED", "CONFLICT", "FAILED"}

Order == [phase : {"idle", "open", "done"}, key : Keys \cup {None},
          payload : Payloads \cup {None}, created : BOOLEAN,
          answer : Answers \cup {None}]

NoOrder == [phase |-> "idle", key |-> None, payload |-> None, created |-> FALSE,
            answer |-> None]

TicketTypeOK ==
    /\ ticket \in [Keys -> Payloads \cup {None}]
    /\ order \in [Callers -> Order]
    /\ \A c \in Callers :
          /\ order[c].phase = "open" => order[c].key \in Keys /\ order[c].payload \in Payloads
          /\ order[c].phase = "done" => order[c].answer \in Answers
    /\ late \in SUBSET (Keys \X Payloads)

TicketInit ==
    /\ ticket \in [Keys -> Payloads \cup {None}]
    /\ order = [c \in Callers |-> NoOrder]
    /\ late = {}

Contents(c) == <<order[c].key, order[c].payload>>

Place(c, k, p) ==
    /\ order[c].phase = "idle"
    /\ order' = [order EXCEPT ![c] = [NoOrder EXCEPT
                    !.phase = "open", !.key = k, !.payload = p]]
    /\ UNCHANGED <<ticket, late>>

\* The desk issues the ticket of an open order.
Issue(c) ==
    /\ order[c].phase = "open"
    /\ ticket[order[c].key] = None
    /\ ticket' = [ticket EXCEPT ![order[c].key] = order[c].payload]
    /\ order' = [order EXCEPT ![c].created = TRUE]
    /\ UNCHANGED late

\* The desk issues the ticket of an order nobody waits for any more.
IssueLate(k, p) ==
    /\ <<k, p>> \in late
    /\ ticket[k] = None
    /\ ticket' = [ticket EXCEPT ![k] = p]
    /\ late' \in {late, late \ {<<k, p>>}}
    /\ UNCHANGED order

\* A request that is still on its way is lost.
Forget(k, p) ==
    /\ <<k, p>> \in late
    /\ late' = late \ {<<k, p>>}
    /\ UNCHANGED <<ticket, order>>

\* What the order may be answered: OPEN only to the order that issued the
\* ticket, CONFLICT only if the key belongs to another content, and FAILED
\* whatever happened.
MayAnswer(c, a) ==
    LET issued == ticket[order[c].key]
    IN \/ a = "OPEN" /\ order[c].created /\ issued = order[c].payload
       \/ a = "ALREADY_PROCESSED" /\ issued = order[c].payload
       \/ a = "CONFLICT" /\ issued \notin {None, order[c].payload}
       \/ a = "FAILED"

\* Requests of earlier attempts may outlive the answer.
Answer(c, a) ==
    /\ order[c].phase = "open"
    /\ MayAnswer(c, a)
    /\ order' = [order EXCEPT ![c].phase = "done", ![c].answer = a]
    /\ late' \in {late, late \cup {Contents(c)}}
    /\ UNCHANGED ticket

Collect(c) ==
    /\ order[c].phase = "done"
    /\ order' = [order EXCEPT ![c] = NoOrder]
    /\ UNCHANGED <<ticket, late>>

\* The caller dies with the order open.
Abandon(c) ==
    /\ order[c].phase = "open"
    /\ order' = [order EXCEPT ![c] = NoOrder]
    /\ late' \in {late, late \cup {Contents(c)}}
    /\ UNCHANGED ticket

TicketNext ==
    \/ \E c \in Callers :
          \/ \E k \in Keys, p \in Payloads : Place(c, k, p)
          \/ Issue(c)
          \/ \E a \in Answers : Answer(c, a)
          \/ Collect(c)
          \/ Abandon(c)
    \/ \E k \in Keys, p \in Payloads : IssueLate(k, p) \/ Forget(k, p)

TicketSpec == TicketInit /\ [][TicketNext]_ticketVars
=============================================================================
