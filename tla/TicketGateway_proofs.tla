------------------------- MODULE TicketGateway_proofs -------------------------
(***************************************************************************)
(* Theorems of TicketGateway, for any number of calls, keys and attempts,  *)
(* whatever the network loses, delays or delivers late: the tickets, the   *)
(* refinement of the ledger, and the pauses between attempts.              *)
(***************************************************************************)
EXTENDS TicketGateway, FiniteSetTheorems, TLAPS

Succeeded == {"OPEN", "ALREADY_PROCESSED"}

\* A row stores the hash of its payload, or none, and one row has the highest
\* number, from which the next one is counted.
RowsInv ==
    /\ \A row \in rows : row.hash \in {None, row.payload}
    /\ rows # {} => \E top \in rows : \A row \in rows : row.number <= top.number

Named(c, number) ==
    \E row \in rows : row.key = gw[c].key /\ row.payload = gw[c].payload /\ row.number = number

\* A reply is on its way only to a call that waits, and names its ticket.
RepliesInv ==
    \A r \in replies : gw[r.call].pc # "idle" /\ (r.result \in Succeeded => Named(r.call, r.number))

\* An attempt is one of the loop, and another follows only before the last.
AttemptsInv ==
    \A c \in Calls :
        /\ gw[c].pc = "waiting" => gw[c].attempt \in Attempts
        /\ gw[c].pc = "backoff" => gw[c].attempt \in 1..(MaxAttempts - 1)

GatewayInv ==
    /\ GatewayTypeOK /\ UniqueTickets /\ AnswerNamesTicket
    /\ RowsInv /\ RepliesInv /\ AttemptsInv

\* The next number is higher than every number in use.
LEMMA NextIsNew ==
    ASSUME GatewayTypeOK, RowsInv
    PROVE  NextNumber \in Nat /\ \A row \in rows : row.number < NextNumber
<1>1. \A row \in rows : row.number \in Nat
  BY DEF GatewayTypeOK, TicketRow
<1>2. CASE rows = {}
  BY <1>2 DEF NextNumber
<1>3. CASE rows # {}
  <2> DEFINE Numbers == {row.number : row \in rows}
             highest == CHOOSE n \in Numbers : \A row \in rows : n >= row.number
  <2>1. \E n \in Numbers : \A row \in rows : n >= row.number
    BY <1>1, <1>3 DEF RowsInv
  <2>2. highest \in Numbers /\ \A row \in rows : highest >= row.number
    BY <2>1
  <2>3. NextNumber = 1 + highest
    BY <1>3 DEF NextNumber
  <2> HIDE DEF highest
  <2> QED
    BY <1>1, <2>2, <2>3
<1> QED
  BY <1>2, <1>3

LEMMA InitGateway == GatewayInit => GatewayInv
<1> SUFFICES ASSUME GatewayInit PROVE GatewayInv
  OBVIOUS
<1>1. gw \in [Calls -> GatewayCall] /\ \A c \in Calls : gw[c].pc = "idle" /\ gw[c].outcome = None
  BY GatewayAssumption DEF GatewayInit, GatewayCall, Unused
<1>2. /\ rows \in SUBSET TicketRow
      /\ \A row, other \in rows : row = other
      /\ \A row \in rows : row.hash = None /\ row.number \in Nat
  BY GatewayAssumption DEF GatewayInit, TicketRow
<1>3. net = {} /\ replies = {} /\ made = {}
  BY DEF GatewayInit
<1>4. GatewayTypeOK
  BY <1>1, <1>2, <1>3 DEF GatewayTypeOK
<1>5. UniqueTickets /\ RowsInv /\ RepliesInv /\ AttemptsInv
  BY <1>1, <1>2, <1>3 DEF UniqueTickets, RowsInv, RepliesInv, AttemptsInv
<1>6. AnswerNamesTicket
  BY <1>1, GatewayAssumption DEF AnswerNamesTicket, Results
<1> QED
  BY <1>4, <1>5, <1>6 DEF GatewayInv

\* What every step may rely on, without the names of the invariants.
LEMMA GatewayFacts ==
    ASSUME GatewayInv
    PROVE  /\ rows \subseteq TicketRow /\ net \subseteq Calls \X Attempts
           /\ replies \subseteq Reply /\ made \subseteq Calls /\ gw \in [Calls -> GatewayCall]
           /\ \A c \in Calls : gw[c].pc # "idle" => gw[c].key \in Keys /\ gw[c].payload \in Payloads
           /\ \A m \in net : m[1] \in Calls /\ gw[m[1]].pc # "idle"
  BY DEF GatewayInv, GatewayTypeOK

\* The caller's side changed, the table did not: it is enough to look at the
\* call c, if it was started and keeps its key and payload.
LEMMA CallerStep ==
    ASSUME GatewayInv, NEW c \in Calls, NEW next \in GatewayCall,
           gw' = [gw EXCEPT ![c] = next], rows' = rows, made' = made,
           gw[c].pc # "idle", next.pc # "idle", next.key = gw[c].key, next.payload = gw[c].payload,
           net' \in SUBSET (net \cup {<<c, n>> : n \in Attempts}), replies' \subseteq replies,
           next.pc = "waiting" => next.attempt \in Attempts,
           next.pc = "backoff" => next.attempt \in 1..(MaxAttempts - 1),
           next.outcome \in Succeeded => Named(c, next.number)
    PROVE  GatewayInv'
<1>1. gw' \in [Calls -> GatewayCall] /\ gw'[c] = next /\ \A d \in Calls \ {c} : gw'[d] = gw[d]
  BY GatewayFacts
<1>2. \A d \in Calls : /\ gw[d].pc # "idle" => gw'[d].pc # "idle"
                        /\ gw'[d].key = gw[d].key /\ gw'[d].payload = gw[d].payload
  BY <1>1
<1>3. net' \subseteq Calls \X Attempts /\ \A m \in net' : gw'[m[1]].pc # "idle"
  BY <1>1, <1>2, GatewayFacts
<1>4. \A r \in replies' : r \in Reply /\ r.call \in Calls
  BY GatewayFacts DEF Reply
<1>5. GatewayTypeOK'
  BY <1>1, <1>2, <1>3, <1>4, GatewayFacts DEF GatewayTypeOK
<1>6. UniqueTickets' /\ RowsInv'
  BY DEF GatewayInv, UniqueTickets, RowsInv
<1>7. AnswerNamesTicket'
  BY <1>1, <1>2 DEF GatewayInv, AnswerNamesTicket, Named, Succeeded
<1>8. RepliesInv'
  BY <1>2, <1>4 DEF GatewayInv, RepliesInv, Named
<1>9. AttemptsInv'
  BY <1>1 DEF GatewayInv, AttemptsInv, Attempts
<1> QED
  BY <1>5, <1>6, <1>7, <1>8, <1>9 DEF GatewayInv

\* The desk served a request: it is enough to look at the table and the reply,
\* if every row keeps its key, payload and number.
LEMMA DeskStep ==
    ASSUME GatewayInv, NEW c \in Calls, NEW n \in Attempts, <<c, n>> \in net,
           NEW result \in Results, NEW number \in Nat, Replied(c, n, result, number),
           rows' \subseteq TicketRow, made' \subseteq Calls,
           \A row \in rows : \E new \in rows' :
               new.key = row.key /\ new.payload = row.payload /\ new.number = row.number,
           UniqueTickets', RowsInv',
           result \in Succeeded => \E row \in rows' : /\ row.key = gw[c].key
                                                     /\ row.payload = gw[c].payload
                                                     /\ row.number = number
    PROVE  GatewayInv'
<1>1. gw' = gw /\ net' \subseteq net
  BY DEF Replied
<1>2. \A r \in replies' :
         r \in replies \/ r = [call |-> c, result |-> result, number |-> number]
  BY DEF Replied
<1>3. gw[c].pc # "idle"
  BY GatewayFacts
<1>4. replies' \subseteq Reply
  BY <1>2, GatewayFacts DEF Reply
<1>5. GatewayTypeOK'
  BY <1>1, <1>4, GatewayFacts DEF GatewayTypeOK
<1>6. AnswerNamesTicket'
  BY <1>1 DEF GatewayInv, AnswerNamesTicket
<1>7. RepliesInv'
  BY <1>1, <1>2, <1>3 DEF GatewayInv, RepliesInv, Named
<1>8. AttemptsInv'
  BY <1>1 DEF GatewayInv, AttemptsInv
<1> QED
  BY <1>5, <1>6, <1>7, <1>8 DEF GatewayInv

LEMMA StartKeeps ==
    ASSUME GatewayInv, NEW c \in Calls, NEW k \in Keys, NEW p \in Payloads, Start(c, k, p)
    PROVE  GatewayInv'
<1> DEFINE next == [Unused EXCEPT !.pc = "waiting", !.key = k, !.payload = p, !.attempt = 1]
<1>1. next \in GatewayCall /\ next.pc = "waiting" /\ next.attempt = 1 /\ next.outcome = None
      /\ next.key = k /\ next.payload = p
  BY GatewayAssumption DEF Unused, GatewayCall
<1> HIDE DEF next
<1>2. gw[c].pc = "idle" /\ gw' = [gw EXCEPT ![c] = next] /\ net' = net \cup {<<c, 1>>}
      /\ rows' = rows /\ replies' = replies /\ made' = made
  BY DEF Start, next
<1>3. gw' \in [Calls -> GatewayCall] /\ gw'[c] = next /\ \A d \in Calls \ {c} : gw'[d] = gw[d]
  BY <1>1, <1>2, GatewayFacts
<1>4. 1 \in Attempts
  BY GatewayAssumption DEF Attempts
<1>5. GatewayTypeOK'
  BY <1>1, <1>2, <1>3, <1>4, GatewayFacts DEF GatewayTypeOK
<1>6. UniqueTickets' /\ RowsInv'
  BY <1>2 DEF GatewayInv, UniqueTickets, RowsInv
<1>7. AnswerNamesTicket'
  BY <1>1, <1>2, <1>3, GatewayAssumption DEF GatewayInv, AnswerNamesTicket, Results
<1>8. \A r \in replies : r.call \in Calls /\ r.call # c
  BY <1>2, GatewayFacts DEF GatewayInv, RepliesInv, Reply
<1>9. RepliesInv'
  BY <1>2, <1>3, <1>8 DEF GatewayInv, RepliesInv, Named
<1>10. AttemptsInv'
  BY <1>1, <1>3, <1>4 DEF GatewayInv, AttemptsInv
<1> QED
  BY <1>5, <1>6, <1>7, <1>9, <1>10 DEF GatewayInv

LEMMA ReceiveKeeps ==
    ASSUME GatewayInv, NEW c \in Calls, Receive(c)
    PROVE  GatewayInv'
<1>1. PICK r \in RepliesTo(c) : End(c, r.result, r.number)
  BY DEF Receive
<1>2. r \in replies /\ r.call = c /\ r.result \in Results /\ r.number \in Nat
  BY <1>1, GatewayFacts DEF RepliesTo, Reply
<1> DEFINE next == [gw[c] EXCEPT !.pc = "done", !.outcome = r.result, !.number = r.number]
<1>3. gw[c] \in GatewayCall /\ gw[c].pc = "waiting"
  BY GatewayFacts DEF Receive
<1>4. next \in GatewayCall /\ next.pc = "done" /\ next.outcome = r.result /\ next.number = r.number
      /\ next.key = gw[c].key /\ next.payload = gw[c].payload
  BY <1>2, <1>3 DEF GatewayCall
<1> HIDE DEF next
<1>5. gw' = [gw EXCEPT ![c] = next]
  BY <1>1 DEF End, next
<1>6. next.outcome \in Succeeded => Named(c, next.number)
  BY <1>2, <1>4 DEF GatewayInv, RepliesInv
<1>7. rows' = rows /\ made' = made /\ net' = net /\ replies' \subseteq replies
  BY DEF Receive
<1> QED
  BY <1>3, <1>4, <1>5, <1>6, <1>7, CallerStep

LEMMA UnreadableKeeps ==
    ASSUME GatewayInv, NEW c \in Calls, ReceiveUnreadable(c)
    PROVE  GatewayInv'
<1> DEFINE next == [gw[c] EXCEPT !.pc = "done", !.outcome = "FAILED", !.number = 0]
<1>1. gw[c] \in GatewayCall /\ gw[c].pc = "waiting"
  BY GatewayFacts DEF ReceiveUnreadable
<1>2. rows' = rows /\ made' = made /\ net' = net /\ replies' \subseteq replies
  BY DEF ReceiveUnreadable
<1>3. next \in GatewayCall /\ next.pc = "done" /\ next.outcome = "FAILED"
      /\ next.key = gw[c].key /\ next.payload = gw[c].payload
  BY <1>1 DEF GatewayCall, Results
<1>4. gw' = [gw EXCEPT ![c] = next]
  BY DEF ReceiveUnreadable, End
<1> HIDE DEF next
<1> QED
  BY <1>1, <1>2, <1>3, <1>4, CallerStep DEF Succeeded

LEMMA AttemptFailsKeeps ==
    ASSUME GatewayInv, NEW c \in Calls, AttemptFails(c)
    PROVE  GatewayInv'
<1>1. gw[c] \in GatewayCall /\ gw[c].pc = "waiting" /\ gw[c].attempt \in Attempts
  BY GatewayFacts DEF AttemptFails, GatewayInv, AttemptsInv
<1>2. rows' = rows /\ made' = made /\ net' = net /\ replies' \subseteq replies
  BY DEF AttemptFails
<1>3. ~(gw[c].outcome \in Succeeded) \/ Named(c, gw[c].number)
  BY DEF GatewayInv, AnswerNamesTicket, Named, Succeeded
<1>4. CASE gw[c].attempt < MaxAttempts
  <2>1. PICK asked \in Headers : gw' = [gw EXCEPT ![c].pc = "backoff", ![c].asked = asked]
    BY <1>4 DEF AttemptFails
  <2> DEFINE next == [gw[c] EXCEPT !.pc = "backoff", !.asked = asked]
  <2>2. next \in GatewayCall /\ next.pc = "backoff" /\ next.outcome = gw[c].outcome
        /\ next.number = gw[c].number /\ next.attempt = gw[c].attempt
        /\ next.key = gw[c].key /\ next.payload = gw[c].payload
    BY <1>1 DEF GatewayCall
  <2> HIDE DEF next
  <2>3. gw' = [gw EXCEPT ![c] = next]
    BY <2>1 DEF next
  <2>4. next.attempt \in 1..(MaxAttempts - 1)
    BY <1>1, <1>4, <2>2, GatewayAssumption DEF Attempts
  <2> QED
    BY <1>1, <1>2, <1>3, <2>2, <2>3, <2>4, CallerStep
<1>5. CASE ~(gw[c].attempt < MaxAttempts)
  <2> DEFINE next == [gw[c] EXCEPT !.pc = "done", !.outcome = "FAILED", !.number = 0]
  <2>1. next \in GatewayCall /\ next.pc = "done" /\ next.outcome = "FAILED"
        /\ next.key = gw[c].key /\ next.payload = gw[c].payload
    BY <1>1 DEF GatewayCall, Results
  <2> HIDE DEF next
  <2>2. gw' = [gw EXCEPT ![c] = next]
    BY <1>5 DEF AttemptFails, End, next
  <2> QED
    BY <1>1, <1>2, <2>1, <2>2, CallerStep DEF Succeeded
<1> QED
  BY <1>4, <1>5

LEMMA ResendKeeps ==
    ASSUME GatewayInv, NEW c \in Calls, Resend(c)
    PROVE  GatewayInv'
<1> DEFINE later == gw[c].attempt + 1
           next == [gw[c] EXCEPT !.pc = "waiting", !.attempt = later, !.asked = None]
<1>1. gw[c] \in GatewayCall
  BY GatewayFacts
<1>2. gw[c].pc = "backoff" /\ later \in Attempts /\ later \in Nat
  BY GatewayAssumption DEF Resend, GatewayInv, AttemptsInv, Attempts
<1> HIDE DEF later
<1>3. next \in GatewayCall /\ next.pc = "waiting" /\ next.attempt = later
      /\ next.outcome = gw[c].outcome /\ next.number = gw[c].number
      /\ next.key = gw[c].key /\ next.payload = gw[c].payload
  BY <1>1, <1>2, GatewayAssumption DEF GatewayCall
<1> HIDE DEF next
<1>4. gw' = [gw EXCEPT ![c] = next]
  BY DEF Resend, next, later
<1>5. ~(gw[c].outcome \in Succeeded) \/ Named(c, gw[c].number)
  BY DEF GatewayInv, AnswerNamesTicket, Named, Succeeded
<1>6. rows' = rows /\ made' = made /\ replies' = replies /\ net' = net \cup {<<c, later>>}
  BY DEF Resend, later
<1> QED
  BY <1>1, <1>2, <1>3, <1>4, <1>5, <1>6, CallerStep

LEMMA DieKeeps ==
    ASSUME GatewayInv, NEW c \in Calls, Die(c)
    PROVE  GatewayInv'
<1> DEFINE next == [gw[c] EXCEPT !.pc = "dead", !.asked = None]
<1>1. gw[c] \in GatewayCall /\ gw[c].pc # "idle"
  BY GatewayFacts DEF Die, Waits
<1>2. next \in GatewayCall /\ next.pc = "dead" /\ next.outcome = gw[c].outcome
      /\ next.number = gw[c].number /\ next.key = gw[c].key /\ next.payload = gw[c].payload
  BY <1>1, GatewayAssumption DEF GatewayCall
<1> HIDE DEF next
<1>3. gw' = [gw EXCEPT ![c] = next]
  BY DEF Die, next
<1>4. ~(gw[c].outcome \in Succeeded) \/ Named(c, gw[c].number)
  BY DEF GatewayInv, AnswerNamesTicket, Named, Succeeded
<1>5. rows' = rows /\ made' = made /\ net' = net /\ replies' \subseteq replies
  BY DEF Die
<1> QED
  BY <1>1, <1>2, <1>3, <1>4, <1>5, CallerStep

LEMMA ServeNewKeeps ==
    ASSUME GatewayInv, NEW c \in Calls, NEW n \in Attempts, ServeNew(c, n)
    PROVE  GatewayInv'
<1> DEFINE new == [key |-> gw[c].key, number |-> NextNumber,
                   payload |-> gw[c].payload, hash |-> gw[c].payload]
<1>1. NextNumber \in Nat /\ \A row \in rows : row.number < NextNumber
  BY NextIsNew DEF GatewayInv
<1>2. <<c, n>> \in net /\ gw[c].key \in Keys /\ gw[c].payload \in Payloads /\ gw' = gw
  BY GatewayFacts DEF ServeNew, Replied
<1> DEFINE number == NextNumber
<1> HIDE DEF number
<1>3. new \in TicketRow /\ new.number = number /\ new.key = gw[c].key
      /\ new.payload = gw[c].payload /\ new.hash = new.payload
  BY <1>1, <1>2 DEF TicketRow, number
<1>4. number \in Nat /\ \A row \in rows : row.number \in Nat /\ row.number < number /\ row.key # gw[c].key
  BY <1>1, GatewayFacts DEF ServeNew, RowsOf, TicketRow, number
<1> HIDE DEF new
<1>5. rows' = rows \cup {new}
  BY DEF ServeNew, new
<1>6. UniqueTickets'
  BY <1>3, <1>4, <1>5 DEF GatewayInv, UniqueTickets
<1>7. RowsInv'
  <2>1. \A row \in rows' : row.number <= new.number
    BY <1>3, <1>4, <1>5
  <2> QED
    BY <1>3, <1>5, <2>1 DEF GatewayInv, RowsInv
<1>8. \E row \in rows' : /\ row.key = gw[c].key
                         /\ row.payload = gw[c].payload
                         /\ row.number = number
  BY <1>3, <1>5
<1>9. made' \subseteq Calls /\ rows' \subseteq TicketRow
  BY <1>3, <1>5, GatewayFacts DEF ServeNew
<1>10. Replied(c, n, "OPEN", number) /\ "OPEN" \in Results
  BY DEF ServeNew, number, Results
<1> QED
  BY <1>2, <1>4, <1>5, <1>6, <1>7, <1>8, <1>9, <1>10, DeskStep

LEMMA ServeReplayKeeps ==
    ASSUME GatewayInv, NEW c \in Calls, NEW n \in Attempts, ServeReplay(c, n)
    PROVE  GatewayInv'
<1>1. PICK row \in RowsOf(gw[c].key) :
         /\ StoredHash(row) = gw[c].payload
         /\ rows' = (rows \ {row}) \cup {[row EXCEPT !.hash = StoredHash(row)]}
         /\ Replied(c, n, "ALREADY_PROCESSED", row.number)
  BY DEF ServeReplay
<1> DEFINE new == [row EXCEPT !.hash = StoredHash(row)]
<1>2. row \in rows /\ row \in TicketRow /\ row.key = gw[c].key
  BY <1>1, GatewayFacts DEF RowsOf
<1>3. StoredHash(row) = row.payload
  BY <1>2 DEF GatewayInv, RowsInv, StoredHash
<1>4. new \in TicketRow /\ new.key = row.key /\ new.number = row.number
      /\ new.payload = row.payload /\ new.hash = row.payload
  BY <1>2, <1>3 DEF TicketRow
<1> HIDE DEF new
<1>5. rows' = (rows \ {row}) \cup {new} /\ gw' = gw
  BY <1>1 DEF new, Replied
<1>6. UniqueTickets'
  BY <1>2, <1>4, <1>5 DEF GatewayInv, UniqueTickets
<1>7. RowsInv'
  <2>1. PICK top \in rows : \A r \in rows : r.number <= top.number
    BY <1>2 DEF GatewayInv, RowsInv
  <2>2. \A r \in rows' : \E old \in rows : r.number = old.number
    BY <1>2, <1>4, <1>5
  <2>3. \E best \in rows' : best.number = top.number
    BY <1>4, <1>5
  <2>4. \A r \in rows' : r.number <= top.number
    BY <2>1, <2>2
  <2>5. \A r \in rows' : r.hash \in {None, r.payload}
    BY <1>4, <1>5 DEF GatewayInv, RowsInv
  <2> QED
    BY <2>3, <2>4, <2>5 DEF RowsInv
<1>8. \E kept \in rows' : /\ kept.key = gw[c].key
                          /\ kept.payload = gw[c].payload
                          /\ kept.number = row.number
  BY <1>1, <1>2, <1>3, <1>4, <1>5
<1>9. made' \subseteq Calls /\ rows' \subseteq TicketRow /\ <<c, n>> \in net
  BY <1>4, <1>5, GatewayFacts DEF ServeReplay
<1>10. \A r \in rows : \E kept \in rows' :
          kept.key = r.key /\ kept.payload = r.payload /\ kept.number = r.number
  BY <1>4, <1>5
<1>11. row.number \in Nat /\ "ALREADY_PROCESSED" \in Results
  BY <1>2 DEF TicketRow, Results
<1> QED
  BY <1>1, <1>6, <1>7, <1>8, <1>9, <1>10, <1>11, DeskStep

\* An answer that leaves the table alone and is no success.
LEMMA OtherAnswerKeeps ==
    ASSUME GatewayInv, NEW c \in Calls, NEW n \in Attempts, <<c, n>> \in net,
           NEW result \in {"CONFLICT", "FAILED"}, Replied(c, n, result, 0),
           UNCHANGED <<rows, made>>
    PROVE  GatewayInv'
<1>1. UniqueTickets' /\ RowsInv'
  BY DEF GatewayInv, UniqueTickets, RowsInv
<1>2. result \in Results /\ result \notin Succeeded
  BY DEF Results, Succeeded
<1> QED
  BY <1>1, <1>2, GatewayFacts, DeskStep

LEMMA LoseKeeps ==
    ASSUME GatewayInv, UNCHANGED <<rows, replies, gw, made>>, net' \subseteq net
    PROVE  GatewayInv'
  BY DEF GatewayInv, GatewayTypeOK, UniqueTickets, AnswerNamesTicket, RowsInv, RepliesInv,
     AttemptsInv, Named

LEMMA StepGateway == GatewayInv /\ [GatewayNext]_gatewayVars => GatewayInv'
<1> SUFFICES ASSUME GatewayInv, [GatewayNext]_gatewayVars PROVE GatewayInv'
  OBVIOUS
<1>1. ASSUME NEW c \in Calls, NEW n \in Attempts, ServeConflict(c, n) PROVE GatewayInv'
  BY <1>1, OtherAnswerKeeps DEF ServeConflict
<1>2. ASSUME NEW c \in Calls, NEW n \in Attempts, ServeError(c, n) PROVE GatewayInv'
  BY <1>2, OtherAnswerKeeps DEF ServeError
<1>3. ASSUME NEW c \in Calls, NEW n \in Attempts, Lose(c, n) PROVE GatewayInv'
  BY <1>3, LoseKeeps DEF Lose
<1>4. ASSUME UNCHANGED gatewayVars PROVE GatewayInv'
  BY <1>4, LoseKeeps DEF gatewayVars
<1> QED
  BY <1>1, <1>2, <1>3, <1>4, StartKeeps, ReceiveKeeps, UnreadableKeeps, AttemptFailsKeeps, ResendKeeps,
     DieKeeps, ServeNewKeeps, ServeReplayKeeps DEF GatewayNext

LEMMA GatewayInvariant == GatewaySpec => []GatewayInv
  BY InitGateway, StepGateway, PTL DEF GatewaySpec

\* The table, the requests, the replies and the calls keep their types, and no
\* call makes an attempt beyond MaxAttempts.
THEOREM GatewayTypes == GatewaySpec => []GatewayTypeOK
  BY GatewayInvariant, PTL DEF GatewayInv

\* A key has one ticket and a number belongs to one key, for any number of
\* calls and retries and however late their requests arrive.
THEOREM TicketsUnique == GatewaySpec => []UniqueTickets
  BY GatewayInvariant, PTL DEF GatewayInv

\* A call that succeeded was given the number of the ticket that MockDesk holds
\* under its key, for its payload.
THEOREM AnswersNameTickets == GatewaySpec => []AnswerNamesTicket
  BY GatewayInvariant, PTL DEF GatewayInv

-----------------------------------------------------------------------------
(* The gateway and the desk implement the ticket ledger.                   *)
(*                                                                         *)
(* A post and its retries are one order; the desk issues the ticket when   *)
(* the first of its requests is served.  A request whose call is over is   *)
(* a late one.                                                             *)

\* What a reply claims: OPEN goes to the call that made the ticket, CONFLICT
\* means that the key carries another payload.
AnswersInv ==
    /\ \A c \in made : gw[c].pc # "idle"
    /\ \A c \in Calls : gw[c].pc # "done" => gw[c].outcome = None
    /\ \A r \in replies :
          /\ r.result = "OPEN" => r.call \in made
          /\ r.result = "CONFLICT" =>
                \E row \in rows : row.key = gw[r.call].key /\ row.payload # gw[r.call].payload

\* The tickets that a table shows to the ledger.
TicketsIn(table) ==
    [k \in Keys |->
        IF {row \in table : row.key = k} = {} THEN None
        ELSE (CHOOSE row \in {r \in table : r.key = k} : TRUE).payload]

LEMMA TicketsInFacts ==
    ASSUME NEW table, \A row, other \in table : row.key = other.key => row = other,
           NEW k \in Keys
    PROVE  /\ \A row \in table : row.key = k => TicketsIn(table)[k] = row.payload
           /\ (\A row \in table : row.key # k) => TicketsIn(table)[k] = None
<1> DEFINE those == {row \in table : row.key = k}
<1>1. TicketsIn(table)[k] = IF those = {} THEN None ELSE (CHOOSE row \in those : TRUE).payload
  BY DEF TicketsIn
<1>2. ASSUME NEW row \in table, row.key = k PROVE TicketsIn(table)[k] = row.payload
  <2>1. those = {row}
    BY <1>2
  <2> QED
    BY <1>1, <2>1
<1>3. ASSUME \A row \in table : row.key # k PROVE TicketsIn(table)[k] = None
  BY <1>1, <1>3
<1> QED
  BY <1>2, <1>3

LEMMA TicketOfRows == ticketOf = TicketsIn(rows) /\ ticketOf' = TicketsIn(rows')
  BY DEF ticketOf, TicketsIn, RowsOf

\* The order that a call of the gateway is to the ledger.
Created(c) == gw[c].pc # "dead" /\ c \in made

OrderFor(call, created) ==
    [phase |-> IF call.pc \in {"waiting", "backoff"} THEN "open"
               ELSE IF call.pc = "done" THEN "done" ELSE "idle",
     key |-> IF call.pc = "dead" THEN None ELSE call.key,
     payload |-> IF call.pc = "dead" THEN None ELSE call.payload,
     created |-> created,
     answer |-> call.outcome]

LEMMA OrderOfCalls ==
    /\ orderOf = [c \in Calls |-> OrderFor(gw[c], Created(c))]
    /\ orderOf' = [c \in Calls |-> OrderFor(gw'[c], Created(c)')]
  BY DEF orderOf, OrderFor, Created, Waits

LEMMA OrderForType ==
    ASSUME NEW call \in GatewayCall, NEW created \in BOOLEAN
    PROVE  OrderFor(call, created) \in Ledger!Order
  BY DEF OrderFor, GatewayCall, Ledger!Order, Ledger!Answers, Results

\* Orders are equal if their fields are.
LEMMA SameOrder ==
    ASSUME NEW o \in Ledger!Order, NEW other \in Ledger!Order,
           o.phase = other.phase, o.key = other.key, o.payload = other.payload,
           o.created = other.created, o.answer = other.answer
    PROVE  o = other
  BY DEF Ledger!Order

LEMMA OrderSteps ==
    ASSUME NEW c \in Calls,
           \A d \in Calls \ {c} : gw'[d] = gw[d] /\ (d \in made' <=> d \in made)
    PROVE  orderOf' = [orderOf EXCEPT ![c] = OrderFor(gw'[c], Created(c)')]
<1>1. \A d \in Calls \ {c} : Created(d)' = Created(d)
  BY DEF Created
<1> QED
  BY <1>1, OrderOfCalls

LEMMA OrdersStay ==
    ASSUME gw' = gw, made' = made
    PROVE  orderOf' = orderOf
  BY DEF orderOf, Waits

\* A call that is over while a request of it is on its way.
LateCall(d) == ~Waits(d) /\ \E n \in Attempts : <<d, n>> \in net

LEMMA LateFacts ==
    /\ \A x : x \in lateOf <=> \E d \in Calls : LateCall(d) /\ x = <<gw[d].key, gw[d].payload>>
    /\ \A x : x \in lateOf' <=> \E d \in Calls : LateCall(d)' /\ x = <<gw'[d].key, gw'[d].payload>>
  BY DEF lateOf, LateCall

\* The calls that are late stay so, and no other becomes late.
LEMMA LateStays ==
    ASSUME \A d \in Calls : LateCall(d)' <=> LateCall(d),
           \A d \in Calls : LateCall(d) => gw'[d].key = gw[d].key /\ gw'[d].payload = gw[d].payload
    PROVE  lateOf' = lateOf
<1>1. \A x : x \in lateOf' <=> x \in lateOf
  BY LateFacts
<1> QED
  BY <1>1

\* A call ends: its requests, if there are any, become late ones.
LEMMA LateGrows ==
    ASSUME NEW c \in Calls, Waits(c), ~Waits(c)', net' = net,
           gw'[c].key = gw[c].key, gw'[c].payload = gw[c].payload,
           \A d \in Calls \ {c} : gw'[d] = gw[d]
    PROVE  lateOf' \in {lateOf, lateOf \cup {<<gw[c].key, gw[c].payload>>}}
<1>1. \A d \in Calls \ {c} : LateCall(d)' <=> LateCall(d)
  BY DEF LateCall, Waits
<1>2. ~LateCall(c)
  BY DEF LateCall
<1>3. CASE LateCall(c)'
  <2>1. \A x : x \in lateOf' <=> x \in lateOf \/ x = <<gw[c].key, gw[c].payload>>
    BY <1>1, <1>2, <1>3, LateFacts
  <2> QED
    BY <2>1
<1>4. CASE ~LateCall(c)'
  <2>1. \A x : x \in lateOf' <=> x \in lateOf
    BY <1>1, <1>2, <1>4, LateFacts
  <2> QED
    BY <2>1
<1> QED
  BY <1>3, <1>4

\* A request is consumed: if its call is over, that may have been the last
\* late one of its key and payload.
LEMMA LateShrinks ==
    ASSUME NEW c \in Calls, NEW n \in Attempts, <<c, n>> \in net, net' = net \ {<<c, n>>}, gw' = gw
    PROVE  /\ Waits(c) => lateOf' = lateOf
           /\ ~Waits(c) => /\ <<gw[c].key, gw[c].payload>> \in lateOf
                           /\ lateOf' \in {lateOf, lateOf \ {<<gw[c].key, gw[c].payload>>}}
<1>1. \A d \in Calls \ {c} : LateCall(d)' <=> LateCall(d)
  BY DEF LateCall, Waits
<1>2. LateCall(c)' => LateCall(c)
  BY DEF LateCall, Waits
<1>3. ASSUME Waits(c) PROVE lateOf' = lateOf
  <2>1. \A d \in Calls : LateCall(d)' <=> LateCall(d)
    BY <1>1, <1>2, <1>3 DEF LateCall
  <2> QED
    BY <2>1, LateStays
<1>4. ASSUME ~Waits(c)
      PROVE  /\ <<gw[c].key, gw[c].payload>> \in lateOf
             /\ lateOf' \in {lateOf, lateOf \ {<<gw[c].key, gw[c].payload>>}}
  <2>1. LateCall(c)
    BY <1>4 DEF LateCall
  <2>2. <<gw[c].key, gw[c].payload>> \in lateOf
    BY <2>1, LateFacts
  <2>3. \A x : x \in lateOf' => x \in lateOf
    BY <1>1, <1>2, LateFacts
  <2>4. \A x : x \in lateOf /\ x # <<gw[c].key, gw[c].payload>> => x \in lateOf'
    BY <1>1, LateFacts
  <2> QED
    BY <2>2, <2>3, <2>4
<1> QED
  BY <1>3, <1>4

LEMMA AnswersStep ==
    ASSUME GatewayInv, AnswersInv, [GatewayNext]_gatewayVars
    PROVE  AnswersInv'
<1>0. /\ rows \subseteq TicketRow /\ net \subseteq Calls \X Attempts
      /\ replies \subseteq Reply /\ made \subseteq Calls /\ gw \in [Calls -> GatewayCall]
      /\ \A m \in net : m[1] \in Calls /\ gw[m[1]].pc # "idle"
      /\ \A r \in replies : r.call \in Calls /\ gw[r.call].pc # "idle"
  BY GatewayFacts DEF GatewayInv, RepliesInv, Reply
\* The caller's side of c moves on, and no reply is new.
<1>c. ASSUME NEW c \in Calls, NEW next, gw' = [gw EXCEPT ![c] = next],
             gw[c].pc # "idle" => next.key = gw[c].key /\ next.payload = gw[c].payload,
             next.pc # "idle", next.pc # "done" => next.outcome = None,
             rows' = rows, made' = made, replies' \subseteq replies
      PROVE  AnswersInv'
  <2>1. gw'[c] = next /\ \A d \in Calls \ {c} : gw'[d] = gw[d]
    BY <1>0, <1>c
  <2>2. \A d \in Calls : gw[d].pc # "idle" => gw'[d].key = gw[d].key /\ gw'[d].payload = gw[d].payload
    BY <1>c, <2>1
  <2>3. \A d \in made' : gw'[d].pc # "idle"
    BY <1>0, <1>c, <2>1 DEF AnswersInv
  <2>4. \A d \in Calls : gw'[d].pc # "done" => gw'[d].outcome = None
    BY <1>c, <2>1 DEF AnswersInv
  <2>5. \A r \in replies' :
          /\ r.result = "OPEN" => r.call \in made'
          /\ r.result = "CONFLICT" =>
                \E row \in rows' : row.key = gw'[r.call].key /\ row.payload # gw'[r.call].payload
    BY <1>0, <1>c, <2>2 DEF AnswersInv
  <2> QED
    BY <2>3, <2>4, <2>5 DEF AnswersInv
\* The desk answers c, and every row keeps its key and payload.
<1>s. ASSUME NEW c \in Calls, NEW n \in Attempts, <<c, n>> \in net, NEW result, NEW number,
             Replied(c, n, result, number), made' \in {made, made \cup {c}},
             \A row \in rows : \E new \in rows' : new.key = row.key /\ new.payload = row.payload,
             result = "OPEN" => (Waits(c) => c \in made'),
             result = "CONFLICT" => \E row \in rows : row.key = gw[c].key /\ row.payload # gw[c].payload
      PROVE  AnswersInv'
  <2>1. gw' = gw /\ gw[c].pc # "idle"
    BY <1>0, <1>s DEF Replied
  <2>2. \A r \in replies' : \/ r \in replies
                            \/ r.call = c /\ r.result = result /\ Waits(c)
    BY <1>s DEF Replied, Waits
  <2>3. \A k, p : (\E row \in rows : row.key = k /\ row.payload # p) =>
                     \E row \in rows' : row.key = k /\ row.payload # p
    BY <1>s
  <2>4. ASSUME NEW r \in replies'
        PROVE  /\ r.result = "OPEN" => r.call \in made'
               /\ r.result = "CONFLICT" =>
                     \E row \in rows' : row.key = gw'[r.call].key /\ row.payload # gw'[r.call].payload
    <3>1. CASE r \in replies
      BY <1>s, <2>1, <2>3, <3>1 DEF AnswersInv
    <3>2. CASE r.call = c /\ r.result = result /\ Waits(c)
      BY <1>s, <2>1, <2>3, <3>2
    <3> QED
      BY <2>2, <3>1, <3>2
  <2>5. \A d \in made' : gw'[d].pc # "idle"
    BY <1>s, <2>1 DEF AnswersInv
  <2> QED
    BY <2>1, <2>4, <2>5 DEF AnswersInv
<1>1. ASSUME NEW c \in Calls, NEW k \in Keys, NEW p \in Payloads, Start(c, k, p) PROVE AnswersInv'
  <2> DEFINE next == [Unused EXCEPT !.pc = "waiting", !.key = k, !.payload = p, !.attempt = 1]
  <2>1. gw[c].pc = "idle" /\ gw' = [gw EXCEPT ![c] = next] /\ rows' = rows /\ made' = made
        /\ replies' = replies
    BY <1>1 DEF Start
  <2>2. next.pc = "waiting" /\ next.outcome = None
    BY DEF Unused
  <2> HIDE DEF next
  <2> QED
    BY <2>1, <2>2, <1>c
<1>2. ASSUME NEW c \in Calls, Receive(c) PROVE AnswersInv'
  <2>1. PICK r \in RepliesTo(c) : End(c, r.result, r.number)
    BY <1>2 DEF Receive
  <2> DEFINE next == [gw[c] EXCEPT !.pc = "done", !.outcome = r.result, !.number = r.number]
  <2>2. gw' = [gw EXCEPT ![c] = next] /\ rows' = rows /\ made' = made /\ replies' \subseteq replies
    BY <1>2, <2>1 DEF End, Receive
  <2>3. next.pc = "done" /\ next.key = gw[c].key /\ next.payload = gw[c].payload
    BY <1>0 DEF GatewayCall
  <2> HIDE DEF next
  <2> QED
    BY <2>2, <2>3, <1>c
<1>2a. ASSUME NEW c \in Calls, ReceiveUnreadable(c) PROVE AnswersInv'
  <2> DEFINE next == [gw[c] EXCEPT !.pc = "done", !.outcome = "FAILED", !.number = 0]
  <2>1. gw' = [gw EXCEPT ![c] = next] /\ rows' = rows /\ made' = made /\ replies' \subseteq replies
    BY <1>2a DEF End, ReceiveUnreadable
  <2>2. next.pc = "done" /\ next.key = gw[c].key /\ next.payload = gw[c].payload
    BY <1>0 DEF GatewayCall
  <2> HIDE DEF next
  <2> QED
    BY <2>1, <2>2, <1>c
<1>3. ASSUME NEW c \in Calls, AttemptFails(c) PROVE AnswersInv'
  <2>0. /\ rows' = rows /\ made' = made /\ replies' \subseteq replies
        /\ gw[c].pc = "waiting" /\ gw[c].outcome = None /\ gw[c] \in GatewayCall
    BY <1>0, <1>3 DEF AttemptFails, AnswersInv
  <2>1. CASE gw[c].attempt < MaxAttempts
    <3>1. PICK asked \in Headers : gw' = [gw EXCEPT ![c].pc = "backoff", ![c].asked = asked]
      BY <1>3, <2>1 DEF AttemptFails
    <3> DEFINE next == [gw[c] EXCEPT !.pc = "backoff", !.asked = asked]
    <3>2. gw' = [gw EXCEPT ![c] = next]
      BY <3>1
    <3>3. /\ next.pc = "backoff" /\ next.outcome = gw[c].outcome
          /\ next.key = gw[c].key /\ next.payload = gw[c].payload
      BY <2>0 DEF GatewayCall
    <3> HIDE DEF next
    <3> QED
      BY <2>0, <3>2, <3>3, <1>c
  <2>2. CASE ~(gw[c].attempt < MaxAttempts)
    <3> DEFINE next == [gw[c] EXCEPT !.pc = "done", !.outcome = "FAILED", !.number = 0]
    <3>1. gw' = [gw EXCEPT ![c] = next]
      BY <1>3, <2>2 DEF AttemptFails, End
    <3>2. next.pc = "done" /\ next.key = gw[c].key /\ next.payload = gw[c].payload
      BY <2>0 DEF GatewayCall
    <3> HIDE DEF next
    <3> QED
      BY <2>0, <3>1, <3>2, <1>c
  <2> QED
    BY <2>1, <2>2
<1>4. ASSUME NEW c \in Calls, Resend(c) \/ Die(c) PROVE AnswersInv'
  <2>0. /\ rows' = rows /\ made' = made /\ replies' \subseteq replies
        /\ gw[c].pc # "done" /\ gw[c].outcome = None /\ gw[c] \in GatewayCall
    BY <1>0, <1>4 DEF Resend, Die, Waits, AnswersInv
  <2>1. \E next : /\ gw' = [gw EXCEPT ![c] = next] /\ next.pc \in {"waiting", "dead"}
                  /\ next.outcome = gw[c].outcome
                  /\ next.key = gw[c].key /\ next.payload = gw[c].payload
    <3>1. CASE Resend(c)
      <4> DEFINE next == [gw[c] EXCEPT !.pc = "waiting", !.attempt = @ + 1, !.asked = None]
      <4>1. gw' = [gw EXCEPT ![c] = next]
        BY <3>1 DEF Resend
      <4>2. /\ next.pc = "waiting" /\ next.outcome = gw[c].outcome
            /\ next.key = gw[c].key /\ next.payload = gw[c].payload
        BY <2>0 DEF GatewayCall
      <4> HIDE DEF next
      <4> QED
        BY <4>1, <4>2
    <3>2. CASE Die(c)
      <4> DEFINE next == [gw[c] EXCEPT !.pc = "dead", !.asked = None]
      <4>1. gw' = [gw EXCEPT ![c] = next]
        BY <3>2 DEF Die
      <4>2. /\ next.pc = "dead" /\ next.outcome = gw[c].outcome
            /\ next.key = gw[c].key /\ next.payload = gw[c].payload
        BY <2>0 DEF GatewayCall
      <4> HIDE DEF next
      <4> QED
        BY <4>1, <4>2
    <3> QED
      BY <1>4, <3>1, <3>2
  <2> QED
    BY <2>0, <2>1, <1>c
<1>5. ASSUME NEW c \in Calls, NEW n \in Attempts, ServeNew(c, n) PROVE AnswersInv'
  <2>1. /\ <<c, n>> \in net /\ rows \subseteq rows' /\ Replied(c, n, "OPEN", NextNumber)
        /\ made' = IF Waits(c) THEN made \cup {c} ELSE made
    BY <1>5 DEF ServeNew
  <2> QED
    BY <2>1, <1>s
<1>6. ASSUME NEW c \in Calls, NEW n \in Attempts, ServeReplay(c, n) PROVE AnswersInv'
  <2>1. PICK row \in RowsOf(gw[c].key) :
          /\ rows' = (rows \ {row}) \cup {[row EXCEPT !.hash = StoredHash(row)]}
          /\ Replied(c, n, "ALREADY_PROCESSED", row.number)
    BY <1>6 DEF ServeReplay
  <2> DEFINE new == [row EXCEPT !.hash = StoredHash(row)]
  <2>2. row \in TicketRow
    BY <1>0, <2>1 DEF RowsOf
  <2>3. new.key = row.key /\ new.payload = row.payload
    BY <2>2 DEF TicketRow
  <2>4. rows' = (rows \ {row}) \cup {new}
    BY <2>1
  <2> HIDE DEF new
  <2>5. \A old \in rows : \E r \in rows' : r.key = old.key /\ r.payload = old.payload
    BY <2>3, <2>4
  <2>6. <<c, n>> \in net /\ made' = made
    BY <1>6 DEF ServeReplay
  <2> QED
    BY <2>1, <2>5, <2>6, <1>s
<1>7. ASSUME NEW c \in Calls, NEW n \in Attempts, ServeConflict(c, n) PROVE AnswersInv'
  <2>1. /\ <<c, n>> \in net /\ rows' = rows /\ made' = made /\ Replied(c, n, "CONFLICT", 0)
    BY <1>7 DEF ServeConflict
  <2>2. \E row \in rows : row.key = gw[c].key /\ row.payload # gw[c].payload
    BY <1>7 DEF ServeConflict, RowsOf, StoredHash, GatewayInv, RowsInv
  <2> QED
    BY <2>1, <2>2, <1>s
<1>8. ASSUME NEW c \in Calls, NEW n \in Attempts, ServeError(c, n) PROVE AnswersInv'
  <2>1. /\ <<c, n>> \in net /\ rows' = rows /\ made' = made /\ Replied(c, n, "FAILED", 0)
    BY <1>8 DEF ServeError
  <2> QED
    BY <2>1, <1>s
<1>9. ASSUME UNCHANGED <<rows, replies, gw, made>> PROVE AnswersInv'
  BY <1>9 DEF AnswersInv
<1> QED
  BY <1>1, <1>2, <1>2a, <1>3, <1>4, <1>5, <1>6, <1>7, <1>8, <1>9 DEF GatewayNext, Lose, gatewayVars

\* The tickets stay what they are while every row keeps its key and payload.
LEMMA TicketsStay ==
    ASSUME UniqueTickets, UniqueTickets',
           \A row \in rows : \E new \in rows' : new.key = row.key /\ new.payload = row.payload,
           \A new \in rows' : \E row \in rows : new.key = row.key /\ new.payload = row.payload
    PROVE  ticketOf' = ticketOf
<1>0. /\ \A row, other \in rows : row.key = other.key => row = other
      /\ \A row, other \in rows' : row.key = other.key => row = other
  BY DEF UniqueTickets
<1>1. ASSUME NEW k \in Keys PROVE TicketsIn(rows')[k] = TicketsIn(rows)[k]
  <2>1. CASE \E row \in rows : row.key = k
    <3>1. PICK row \in rows : row.key = k
      BY <2>1
    <3>2. PICK new \in rows' : new.key = k /\ new.payload = row.payload
      BY <3>1
    <3>3. TicketsIn(rows)[k] = row.payload
      BY <1>0, <3>1, TicketsInFacts
    <3>4. TicketsIn(rows')[k] = new.payload
      BY <1>0, <3>2, TicketsInFacts
    <3> QED
      BY <3>2, <3>3, <3>4
  <2>2. CASE \A row \in rows : row.key # k
    <3>1. \A new \in rows' : new.key # k
      BY <2>2
    <3>2. TicketsIn(rows)[k] = None
      BY <1>0, <2>2, TicketsInFacts
    <3>3. TicketsIn(rows')[k] = None
      BY <1>0, <3>1, TicketsInFacts
    <3> QED
      BY <3>2, <3>3
  <2> QED
    BY <2>1, <2>2
<1>2. TicketsIn(rows') = TicketsIn(rows)
  BY <1>1 DEF TicketsIn
<1> QED
  BY <1>2, TicketOfRows

\* The ticket a row is to the ledger.
LEMMA TicketOfRow ==
    ASSUME GatewayInv, NEW row \in rows
    PROVE  row.key \in Keys /\ row.payload \in Payloads /\ ticketOf[row.key] = row.payload
<1>1. row.key \in Keys /\ row.payload \in Payloads
  BY DEF GatewayInv, GatewayTypeOK, TicketRow
<1>2. \A r, other \in rows : r.key = other.key => r = other
  BY DEF GatewayInv, UniqueTickets
<1> QED
  BY <1>1, <1>2, TicketOfRows, TicketsInFacts

LEMMA StartRefines ==
    ASSUME GatewayInv, AnswersInv, NEW c \in Calls, NEW k \in Keys, NEW p \in Payloads,
           Start(c, k, p)
    PROVE  Ledger!Place(c, k, p)
<1> DEFINE next == [Unused EXCEPT !.pc = "waiting", !.key = k, !.payload = p, !.attempt = 1]
           o == [Ledger!NoOrder EXCEPT !.phase = "open", !.key = k, !.payload = p]
<1>0. gw \in [Calls -> GatewayCall] /\ \A m \in net : m[1] \in Calls /\ gw[m[1]].pc # "idle"
  BY GatewayFacts
<1>1. /\ gw[c].pc = "idle" /\ gw' = [gw EXCEPT ![c] = next] /\ rows' = rows /\ made' = made
      /\ net' = net \cup {<<c, 1>>}
  BY DEF Start
<1>2. gw'[c] = next /\ \A d \in Calls \ {c} : gw'[d] = gw[d]
  BY <1>0, <1>1
<1>3. c \notin made
  BY <1>1 DEF AnswersInv
<1>4. /\ next.pc = "waiting" /\ next.key = k /\ next.payload = p /\ next.outcome = None
  BY DEF Unused
<1>5. OrderFor(next, Created(c)') = o
  <2>1. Created(c)' = FALSE
    BY <1>1, <1>3 DEF Created
  <2>2. next \in GatewayCall
    BY GatewayAssumption DEF Unused, GatewayCall
  <2>3. o \in Ledger!Order
    BY DEF Ledger!NoOrder, Ledger!Order
  <2>4. /\ o.phase = "open" /\ o.key = k /\ o.payload = p
        /\ o.created = FALSE /\ o.answer = None
    BY DEF Ledger!NoOrder
  <2> HIDE DEF next, o
  <2> DEFINE other == OrderFor(next, FALSE)
  <2>5. other \in Ledger!Order
    BY <2>2, OrderForType
  <2>6. /\ other.phase = "open" /\ other.key = k /\ other.payload = p
        /\ other.created = FALSE /\ other.answer = None
    BY <1>4 DEF OrderFor
  <2> HIDE DEF other
  <2>7. other = o
    BY <2>3, <2>4, <2>5, <2>6, SameOrder
  <2> QED
    BY <2>1, <2>7 DEF other
<1> HIDE DEF next
<1>6. orderOf' = [orderOf EXCEPT ![c] = o]
  BY <1>1, <1>2, <1>5, OrderSteps
<1>7. orderOf[c].phase = "idle"
  BY <1>1, OrderOfCalls DEF OrderFor
<1>8. ticketOf' = ticketOf
  BY <1>1 DEF ticketOf, RowsOf
<1>9. lateOf' = lateOf
  <2>1. ASSUME NEW d \in Calls
        PROVE  /\ LateCall(d)' <=> LateCall(d)
               /\ LateCall(d) => gw'[d].key = gw[d].key /\ gw'[d].payload = gw[d].payload
    <3>1. CASE d = c
      BY <1>0, <1>1, <1>2, <1>4, <3>1 DEF LateCall, Waits
    <3>2. CASE d # c
      BY <1>1, <1>2, <3>2 DEF LateCall, Waits
    <3> QED
      BY <3>1, <3>2
  <2> QED
    BY <2>1, LateStays
<1> QED
  BY <1>6, <1>7, <1>8, <1>9 DEF Ledger!Place

\* A call that waited ends with an answer the ledger allows.
LEMMA EndRefines ==
    ASSUME GatewayInv, NEW c \in Calls, NEW result \in Results, NEW number \in Nat,
           gw[c].pc = "waiting", End(c, result, number), UNCHANGED <<rows, net, made>>,
           Ledger!MayAnswer(c, result)
    PROVE  Ledger!Answer(c, result)
<1>0. gw \in [Calls -> GatewayCall] /\ gw[c] \in GatewayCall
  BY GatewayFacts
<1> DEFINE next == [gw[c] EXCEPT !.pc = "done", !.outcome = result, !.number = number]
           o == [orderOf[c] EXCEPT !.phase = "done", !.answer = result]
<1>1. gw' = [gw EXCEPT ![c] = next]
  BY DEF End
<1>2. gw'[c] = next /\ \A d \in Calls \ {c} : gw'[d] = gw[d]
  BY <1>0, <1>1
<1>3. /\ next.pc = "done" /\ next.key = gw[c].key /\ next.payload = gw[c].payload
      /\ next.outcome = result
  BY <1>0 DEF GatewayCall
<1>4. orderOf[c] = OrderFor(gw[c], Created(c))
  BY OrderOfCalls
<1>5. orderOf[c].phase = "open" /\ orderOf[c].key = gw[c].key /\ orderOf[c].payload = gw[c].payload
  BY <1>4 DEF OrderFor
<1>6. OrderFor(next, Created(c)') = o
  <2> DEFINE was == Created(c)
             other == OrderFor(next, was)
  <2>1. Created(c)' = was /\ was \in BOOLEAN
    BY <1>2, <1>3 DEF Created
  <2>2. next \in GatewayCall /\ result \in Ledger!Answers
    BY <1>0, <1>3 DEF GatewayCall, Results, Ledger!Answers
  <2> HIDE DEF next, was
  <2>3. other \in Ledger!Order
    BY <2>1, <2>2, OrderForType
  <2>4. orderOf[c] \in Ledger!Order /\ orderOf[c].created = was
    BY <1>0, <1>4, <2>1, OrderForType DEF was, OrderFor
  <2>5. o \in Ledger!Order
    BY <2>2, <2>4 DEF Ledger!Order
  <2>6. /\ o.phase = "done" /\ o.key = gw[c].key /\ o.payload = gw[c].payload
        /\ o.created = was /\ o.answer = result
    BY <1>5, <2>4 DEF Ledger!Order
  <2>7. /\ other.phase = "done" /\ other.key = gw[c].key /\ other.payload = gw[c].payload
        /\ other.created = was /\ other.answer = result
    BY <1>3 DEF OrderFor
  <2> HIDE DEF other, o
  <2>8. other = o
    BY <2>3, <2>5, <2>6, <2>7, SameOrder
  <2> QED
    BY <2>1, <2>8 DEF other
<1> HIDE DEF next
<1>7. orderOf' = [orderOf EXCEPT ![c] = o]
  BY <1>2, <1>6, OrderSteps
<1>8. orderOf' = [orderOf EXCEPT ![c].phase = "done", ![c].answer = result]
  BY <1>7, OrderOfCalls
<1>9. ticketOf' = ticketOf
  BY DEF ticketOf, RowsOf
<1>10. lateOf' \in {lateOf, lateOf \cup {Ledger!Contents(c)}}
  <2>1. Waits(c) /\ ~Waits(c)'
    BY <1>2, <1>3 DEF Waits
  <2>2. lateOf' \in {lateOf, lateOf \cup {<<gw[c].key, gw[c].payload>>}}
    BY <1>2, <1>3, <2>1, LateGrows
  <2> QED
    BY <2>2, <1>5 DEF Ledger!Contents
<1> QED
  BY <1>5, <1>8, <1>9, <1>10 DEF Ledger!Answer

\* The reply of the desk says of the ticket what is true.
LEMMA ReceiveRefines ==
    ASSUME GatewayInv, AnswersInv, NEW c \in Calls, Receive(c)
    PROVE  \E result \in Ledger!Answers : Ledger!Answer(c, result)
<1>1. PICK r \in RepliesTo(c) : End(c, r.result, r.number)
  BY DEF Receive
<1>2. /\ r \in replies /\ r.call = c /\ r.result \in Results /\ r.number \in Nat
      /\ gw[c].pc = "waiting"
  BY <1>1, GatewayFacts DEF RepliesTo, Reply, Receive
<1>3. /\ orderOf[c].key = gw[c].key /\ orderOf[c].payload = gw[c].payload
      /\ c \in made => orderOf[c].created
      /\ gw[c].payload \in Payloads
  BY <1>2, OrderOfCalls, GatewayFacts DEF OrderFor, Created
<1>4. r.result \in Succeeded => ticketOf[gw[c].key] = gw[c].payload
  BY <1>2, TicketOfRow DEF GatewayInv, RepliesInv, Named
<1>5. r.result = "OPEN" => c \in made
  BY <1>2 DEF AnswersInv
<1>6. r.result = "CONFLICT" => ticketOf[gw[c].key] \notin {None, gw[c].payload}
  BY <1>2, TicketOfRow, GatewayAssumption DEF AnswersInv
<1>7. Ledger!MayAnswer(c, r.result)
  BY <1>2, <1>3, <1>4, <1>5, <1>6 DEF Ledger!MayAnswer, Results, Succeeded
<1>8. UNCHANGED <<rows, net, made>>
  BY DEF Receive
<1>9. Ledger!Answer(c, r.result)
  BY <1>1, <1>2, <1>7, <1>8, EndRefines
<1> QED
  BY <1>2, <1>9 DEF Results, Ledger!Answers

\* To the ledger a success that cannot be read is a failure like any other.
LEMMA UnreadableRefines ==
    ASSUME GatewayInv, NEW c \in Calls, ReceiveUnreadable(c)
    PROVE  \E result \in Ledger!Answers : Ledger!Answer(c, result)
<1>1. gw[c].pc = "waiting" /\ End(c, "FAILED", 0) /\ UNCHANGED <<rows, net, made>>
  BY DEF ReceiveUnreadable
<1>2. Ledger!MayAnswer(c, "FAILED")
  BY DEF Ledger!MayAnswer
<1>3. Ledger!Answer(c, "FAILED")
  BY <1>1, <1>2, EndRefines DEF Results
<1> QED
  BY <1>3 DEF Ledger!Answers

\* A call goes on waiting: the ledger does not see which attempt it is at.
LEMMA SameWait ==
    ASSUME GatewayInv, NEW c \in Calls, gw[c].pc \in {"waiting", "backoff"},
           gw'[c].pc \in {"waiting", "backoff"}, gw'[c].key = gw[c].key,
           gw'[c].payload = gw[c].payload, gw'[c].outcome = gw[c].outcome,
           \A d \in Calls \ {c} : gw'[d] = gw[d],
           \A d \in Calls \ {c} : \A n \in Attempts : <<d, n>> \in net' <=> <<d, n>> \in net,
           UNCHANGED <<rows, made>>
    PROVE  UNCHANGED <<ticketOf, orderOf, lateOf>>
<1>1. ticketOf' = ticketOf
  BY DEF ticketOf, RowsOf
<1>2. orderOf' = orderOf
  <2>1. OrderFor(gw'[c], Created(c)') = OrderFor(gw[c], Created(c))
    <3>1. Created(c)' = Created(c)
      BY DEF Created
    <3> DEFINE was == Created(c)
    <3> HIDE DEF was
    <3>2. OrderFor(gw'[c], was) = OrderFor(gw[c], was)
      BY DEF OrderFor
    <3> QED
      BY <3>1, <3>2 DEF was
  <2>2. \A d \in Calls \ {c} : OrderFor(gw'[d], Created(d)') = OrderFor(gw[d], Created(d))
    BY DEF Created
  <2> QED
    BY <2>1, <2>2, OrderOfCalls
<1>3. lateOf' = lateOf
  <2>1. ASSUME NEW d \in Calls
        PROVE  /\ LateCall(d)' <=> LateCall(d)
               /\ LateCall(d) => gw'[d].key = gw[d].key /\ gw'[d].payload = gw[d].payload
    BY DEF LateCall, Waits
  <2> QED
    BY <2>1, LateStays
<1> QED
  BY <1>1, <1>2, <1>3

\* An attempt that fails shows only if it is the last.
LEMMA AttemptFailsRefines ==
    ASSUME GatewayInv, NEW c \in Calls, AttemptFails(c)
    PROVE  \/ UNCHANGED <<ticketOf, orderOf, lateOf>>
           \/ \E result \in Ledger!Answers : Ledger!Answer(c, result)
<1>0. /\ gw \in [Calls -> GatewayCall] /\ gw[c] \in GatewayCall /\ gw[c].pc = "waiting"
      /\ UNCHANGED <<rows, net, made>>
  BY GatewayFacts DEF AttemptFails
<1>1. CASE gw[c].attempt < MaxAttempts
  <2>1. PICK asked \in Headers : gw' = [gw EXCEPT ![c].pc = "backoff", ![c].asked = asked]
    BY <1>1 DEF AttemptFails
  <2>2. /\ gw'[c].pc = "backoff" /\ gw'[c].key = gw[c].key /\ gw'[c].payload = gw[c].payload
        /\ gw'[c].outcome = gw[c].outcome
        /\ \A d \in Calls \ {c} : gw'[d] = gw[d]
    BY <1>0, <2>1 DEF GatewayCall
  <2> QED
    BY <1>0, <2>2, SameWait
<1>2. CASE ~(gw[c].attempt < MaxAttempts)
  <2>1. End(c, "FAILED", 0)
    BY <1>2 DEF AttemptFails
  <2>2. Ledger!MayAnswer(c, "FAILED")
    BY DEF Ledger!MayAnswer
  <2>3. Ledger!Answer(c, "FAILED")
    BY <1>0, <2>1, <2>2, EndRefines DEF Results
  <2> QED
    BY <2>3 DEF Ledger!Answers
<1> QED
  BY <1>1, <1>2

LEMMA ResendRefines ==
    ASSUME GatewayInv, NEW c \in Calls, Resend(c)
    PROVE  UNCHANGED <<ticketOf, orderOf, lateOf>>
<1>0. gw \in [Calls -> GatewayCall] /\ gw[c] \in GatewayCall
  BY GatewayFacts
<1>1. /\ gw[c].pc = "backoff" /\ UNCHANGED <<rows, made>>
      /\ gw' = [gw EXCEPT ![c].pc = "waiting", ![c].attempt = @ + 1, ![c].asked = None]
      /\ net' = net \cup {<<c, gw[c].attempt + 1>>}
  BY DEF Resend
<1>2. /\ gw'[c].pc = "waiting" /\ gw'[c].key = gw[c].key /\ gw'[c].payload = gw[c].payload
      /\ gw'[c].outcome = gw[c].outcome
      /\ \A d \in Calls \ {c} : gw'[d] = gw[d]
  BY <1>0, <1>1 DEF GatewayCall
<1>3. \A d \in Calls \ {c} : \A n \in Attempts : <<d, n>> \in net' <=> <<d, n>> \in net
  BY <1>1
<1> QED
  BY <1>1, <1>2, <1>3, SameWait

\* A caller that dies abandons its order.
LEMMA DieRefines ==
    ASSUME GatewayInv, AnswersInv, NEW c \in Calls, Die(c)
    PROVE  Ledger!Abandon(c)
<1>0. gw \in [Calls -> GatewayCall] /\ gw[c] \in GatewayCall
  BY GatewayFacts
<1> DEFINE next == [gw[c] EXCEPT !.pc = "dead", !.asked = None]
<1>1. gw' = [gw EXCEPT ![c] = next] /\ UNCHANGED <<rows, net, made>> /\ Waits(c)
  BY DEF Die
<1>2. gw'[c] = next /\ \A d \in Calls \ {c} : gw'[d] = gw[d]
  BY <1>0, <1>1
<1>3. /\ next.pc = "dead" /\ next.key = gw[c].key /\ next.payload = gw[c].payload
      /\ next.outcome = None
  BY <1>0, <1>1 DEF GatewayCall, Waits, AnswersInv
<1>4. OrderFor(next, Created(c)') = Ledger!NoOrder
  <2>1. Created(c)' = FALSE
    BY <1>2, <1>3 DEF Created
  <2>2. next \in GatewayCall
    BY <1>0, GatewayAssumption DEF GatewayCall
  <2> HIDE DEF next
  <2> DEFINE other == OrderFor(next, FALSE)
  <2>3. other \in Ledger!Order
    BY <2>2, OrderForType
  <2>4. /\ other.phase = "idle" /\ other.key = None /\ other.payload = None
        /\ other.created = FALSE /\ other.answer = None
    BY <1>3 DEF OrderFor
  <2>5. Ledger!NoOrder \in Ledger!Order
    BY DEF Ledger!NoOrder, Ledger!Order
  <2>6. /\ Ledger!NoOrder.phase = "idle" /\ Ledger!NoOrder.key = None
        /\ Ledger!NoOrder.payload = None /\ Ledger!NoOrder.created = FALSE
        /\ Ledger!NoOrder.answer = None
    BY DEF Ledger!NoOrder
  <2> HIDE DEF other
  <2>7. other = Ledger!NoOrder
    BY <2>3, <2>4, <2>5, <2>6, SameOrder
  <2> QED
    BY <2>1, <2>7 DEF other
<1> HIDE DEF next
<1>5. orderOf' = [orderOf EXCEPT ![c] = Ledger!NoOrder]
  BY <1>1, <1>2, <1>4, OrderSteps
<1>6. orderOf[c].phase = "open" /\ orderOf[c].key = gw[c].key /\ orderOf[c].payload = gw[c].payload
  BY <1>1, OrderOfCalls DEF OrderFor, Waits
<1>7. ticketOf' = ticketOf
  BY <1>1 DEF ticketOf, RowsOf
<1>8. lateOf' \in {lateOf, lateOf \cup {Ledger!Contents(c)}}
  <2>1. ~Waits(c)'
    BY <1>2, <1>3 DEF Waits
  <2>2. lateOf' \in {lateOf, lateOf \cup {<<gw[c].key, gw[c].payload>>}}
    BY <1>1, <1>2, <1>3, <2>1, LateGrows
  <2> QED
    BY <2>2, <1>6 DEF Ledger!Contents
<1> QED
  BY <1>5, <1>6, <1>7, <1>8 DEF Ledger!Abandon

\* A request is consumed and the tickets stay: at most a late one is gone.
LEMMA ConsumeRefines ==
    ASSUME GatewayInv, NEW c \in Calls, NEW n \in Attempts, <<c, n>> \in net,
           net' = net \ {<<c, n>>}, gw' = gw, made' = made, ticketOf' = ticketOf
    PROVE  \/ UNCHANGED <<ticketOf, orderOf, lateOf>>
           \/ \E k \in Keys, p \in Payloads : Ledger!Forget(k, p)
<1>1. orderOf' = orderOf
  BY OrdersStay
<1>2. gw[c].key \in Keys /\ gw[c].payload \in Payloads
  BY GatewayFacts
<1>3. \/ lateOf' = lateOf
      \/ /\ <<gw[c].key, gw[c].payload>> \in lateOf
         /\ lateOf' = lateOf \ {<<gw[c].key, gw[c].payload>>}
  BY LateShrinks
<1>4. CASE lateOf' = lateOf
  BY <1>1, <1>4
<1>5. CASE /\ <<gw[c].key, gw[c].payload>> \in lateOf
           /\ lateOf' = lateOf \ {<<gw[c].key, gw[c].payload>>}
  BY <1>1, <1>2, <1>5 DEF Ledger!Forget
<1> QED
  BY <1>3, <1>4, <1>5

LEMMA ServeReplayRefines ==
    ASSUME GatewayInv, GatewayInv', NEW c \in Calls, NEW n \in Attempts, ServeReplay(c, n)
    PROVE  \/ UNCHANGED <<ticketOf, orderOf, lateOf>>
           \/ \E k \in Keys, p \in Payloads : Ledger!Forget(k, p)
<1>1. PICK row \in RowsOf(gw[c].key) :
         rows' = (rows \ {row}) \cup {[row EXCEPT !.hash = StoredHash(row)]}
  BY DEF ServeReplay
<1>2. row \in rows /\ row \in TicketRow
  BY <1>1, GatewayFacts DEF RowsOf
<1> DEFINE new == [row EXCEPT !.hash = StoredHash(row)]
<1>3. new.key = row.key /\ new.payload = row.payload /\ rows' = (rows \ {row}) \cup {new}
  BY <1>1, <1>2 DEF TicketRow
<1> HIDE DEF new
<1>4. /\ \A old \in rows : \E r \in rows' : r.key = old.key /\ r.payload = old.payload
      /\ \A r \in rows' : \E old \in rows : r.key = old.key /\ r.payload = old.payload
  BY <1>2, <1>3
<1>5. ticketOf' = ticketOf
  BY <1>4, TicketsStay DEF GatewayInv
<1>6. <<c, n>> \in net /\ net' = net \ {<<c, n>>} /\ gw' = gw /\ made' = made
  BY DEF ServeReplay, Replied
<1> QED
  BY <1>5, <1>6, ConsumeRefines

\* The first request of a key that is served issues the ticket: for the call
\* that waits, or for one that is over.
LEMMA ServeNewRefines ==
    ASSUME GatewayInv, GatewayInv', NEW c \in Calls, NEW n \in Attempts, ServeNew(c, n)
    PROVE  \/ Ledger!Issue(c)
           \/ \E k \in Keys, p \in Payloads : Ledger!IssueLate(k, p)
<1> DEFINE k == gw[c].key
           p == gw[c].payload
           new == [key |-> k, number |-> NextNumber, payload |-> p, hash |-> p]
<1>1. /\ <<c, n>> \in net /\ net' = net \ {<<c, n>>} /\ gw' = gw
      /\ made' = IF Waits(c) THEN made \cup {c} ELSE made
      /\ rows' = rows \cup {new} /\ \A row \in rows : row.key # k
  BY DEF ServeNew, Replied, RowsOf
<1>2. k \in Keys /\ p \in Payloads /\ gw \in [Calls -> GatewayCall]
  BY <1>1, GatewayFacts
<1>3. new.key = k /\ new.payload = p
  OBVIOUS
<1> HIDE DEF new
<1>u. /\ \A row, other \in rows : row.key = other.key => row = other
      /\ \A row, other \in rows' : row.key = other.key => row = other
  BY DEF GatewayInv, UniqueTickets
<1>4. ticketOf[k] = None
  BY <1>1, <1>2, <1>u, TicketOfRows, TicketsInFacts
<1>5. ticketOf' = [ticketOf EXCEPT ![k] = p]
  <2>1. TicketsIn(rows')[k] = p
    BY <1>1, <1>2, <1>3, <1>u, TicketsInFacts
  <2>2. ASSUME NEW other \in Keys \ {k} PROVE TicketsIn(rows')[other] = TicketsIn(rows)[other]
    <3>1. CASE \E row \in rows : row.key = other
      <4>1. PICK row \in rows : row.key = other
        BY <3>1
      <4>2. row \in rows'
        BY <1>1
      <4> QED
        BY <4>1, <4>2, <1>u, TicketsInFacts
    <3>2. CASE \A row \in rows : row.key # other
      <4>1. \A row \in rows' : row.key # other
        BY <1>1, <1>3, <3>2
      <4> QED
        BY <4>1, <3>2, <1>u, TicketsInFacts
    <3> QED
      BY <3>1, <3>2
  <2>3. TicketsIn(rows') = [TicketsIn(rows) EXCEPT ![k] = p]
    <3>1. /\ TicketsIn(rows') = [x \in Keys |-> TicketsIn(rows')[x]]
          /\ TicketsIn(rows) = [x \in Keys |-> TicketsIn(rows)[x]]
      BY DEF TicketsIn
    <3> QED
      BY <1>2, <2>1, <2>2, <3>1
  <2> QED
    BY <2>3, TicketOfRows
<1>6. CASE Waits(c)
  <2>1. lateOf' = lateOf
    BY <1>1, <1>6, LateShrinks
  <2>2. orderOf[c].phase = "open" /\ orderOf[c].key = k /\ orderOf[c].payload = p
    BY <1>6, OrderOfCalls DEF OrderFor, Waits
  <2>3. orderOf' = [orderOf EXCEPT ![c].created = TRUE]
    <3>1. Created(c)' = TRUE
      BY <1>1, <1>6 DEF Created, Waits
    <3>2. orderOf' = [orderOf EXCEPT ![c] = OrderFor(gw[c], TRUE)]
      BY <1>1, <1>6, <3>1, OrderSteps
    <3> DEFINE was == Created(c)
               o == [orderOf[c] EXCEPT !.created = TRUE]
               other == OrderFor(gw[c], TRUE)
    <3>3. orderOf[c] = OrderFor(gw[c], was) /\ was \in BOOLEAN
      BY OrderOfCalls DEF Created
    <3> HIDE DEF was
    <3>4. orderOf[c] \in Ledger!Order /\ other \in Ledger!Order
      BY <1>2, <3>3, OrderForType
    <3>5. o \in Ledger!Order /\ o.created = TRUE
      BY <3>4 DEF Ledger!Order
    <3>6. /\ o.phase = other.phase /\ o.key = other.key /\ o.payload = other.payload
          /\ o.answer = other.answer
      BY <3>3, <3>4 DEF OrderFor, Ledger!Order
    <3>7. other.created = TRUE
      BY DEF OrderFor
    <3> HIDE DEF o, other
    <3>8. o = other
      BY <3>4, <3>5, <3>6, <3>7, SameOrder
    <3> QED
      BY <3>2, <3>8 DEF o, other
  <2> QED
    BY <1>4, <1>5, <2>1, <2>2, <2>3 DEF Ledger!Issue
<1>7. CASE ~Waits(c)
  <2>1. /\ <<k, p>> \in lateOf
        /\ lateOf' \in {lateOf, lateOf \ {<<k, p>>}}
    BY <1>1, <1>7, LateShrinks
  <2>2. orderOf' = orderOf
    BY <1>1, <1>7, OrdersStay
  <2>3. Ledger!IssueLate(k, p)
    BY <1>4, <1>5, <2>1, <2>2 DEF Ledger!IssueLate
  <2> QED
    BY <1>2, <2>3
<1> QED
  BY <1>6, <1>7

\* Every step of the gateway, the network and the desk is one of the ledger,
\* or the ledger does not see it.
LEMMA LedgerStep ==
    ASSUME GatewayInv, GatewayInv', AnswersInv, GatewayNext
    PROVE  [Ledger!TicketNext]_<<ticketOf, orderOf, lateOf>>
<1> DEFINE Seen == [Ledger!TicketNext]_<<ticketOf, orderOf, lateOf>>
<1>1. ASSUME NEW c \in Calls, NEW k \in Keys, NEW p \in Payloads, Start(c, k, p) PROVE Seen
  BY <1>1, StartRefines DEF Ledger!TicketNext
<1>2. ASSUME NEW c \in Calls, Receive(c) PROVE Seen
  BY <1>2, ReceiveRefines DEF Ledger!TicketNext
<1>2a. ASSUME NEW c \in Calls, ReceiveUnreadable(c) PROVE Seen
  BY <1>2a, UnreadableRefines DEF Ledger!TicketNext
<1>3. ASSUME NEW c \in Calls, AttemptFails(c) PROVE Seen
  BY <1>3, AttemptFailsRefines DEF Ledger!TicketNext
<1>4. ASSUME NEW c \in Calls, Resend(c) PROVE Seen
  BY <1>4, ResendRefines
<1>5. ASSUME NEW c \in Calls, Die(c) PROVE Seen
  BY <1>5, DieRefines DEF Ledger!TicketNext
<1>6. ASSUME NEW c \in Calls, NEW n \in Attempts, ServeNew(c, n) PROVE Seen
  BY <1>6, ServeNewRefines DEF Ledger!TicketNext
<1>7. ASSUME NEW c \in Calls, NEW n \in Attempts, ServeReplay(c, n) PROVE Seen
  BY <1>7, ServeReplayRefines DEF Ledger!TicketNext
<1>8. ASSUME NEW c \in Calls, NEW n \in Attempts,
             ServeConflict(c, n) \/ ServeError(c, n) \/ Lose(c, n)
      PROVE  Seen
  <2>1. /\ <<c, n>> \in net /\ net' = net \ {<<c, n>>}
        /\ UNCHANGED <<rows, gw, made>>
    BY <1>8 DEF ServeConflict, ServeError, Lose, Replied
  <2>2. ticketOf' = ticketOf
    BY <2>1 DEF ticketOf, RowsOf
  <2> QED
    BY <2>1, <2>2, ConsumeRefines DEF Ledger!TicketNext
<1> QED
  BY <1>1, <1>2, <1>2a, <1>3, <1>4, <1>5, <1>6, <1>7, <1>8 DEF GatewayNext

LEMMA LedgerStart == GatewayInit => AnswersInv /\ Ledger!TicketInit
<1> SUFFICES ASSUME GatewayInit PROVE AnswersInv /\ Ledger!TicketInit
  OBVIOUS
<1>1. /\ \A c \in Calls : gw[c] = Unused
      /\ net = {} /\ replies = {} /\ made = {}
  BY DEF GatewayInit
<1>2. AnswersInv
  BY <1>1 DEF AnswersInv, Unused
<1>3. ticketOf \in [Keys -> Payloads \cup {None}]
  <2>1. GatewayInv
    BY InitGateway
  <2>2. \A row, other \in rows : row.key = other.key => row = other
    BY <2>1 DEF GatewayInv, UniqueTickets
  <2>3. \A row \in rows : row.payload \in Payloads
    BY <2>1 DEF GatewayInv, GatewayTypeOK, TicketRow
  <2>4. \A k \in Keys : TicketsIn(rows)[k] \in Payloads \cup {None}
    BY <2>2, <2>3, TicketsInFacts
  <2>5. TicketsIn(rows) = [k \in Keys |-> TicketsIn(rows)[k]]
    BY DEF TicketsIn
  <2> QED
    BY <2>4, <2>5, TicketOfRows
<1>4. orderOf = [c \in Calls |-> Ledger!NoOrder]
  <2>1. \A c \in Calls : OrderFor(gw[c], Created(c)) = Ledger!NoOrder
    <3>1. \A c \in Calls : Created(c) = FALSE
      BY <1>1 DEF Created
    <3>2. OrderFor(Unused, FALSE) = Ledger!NoOrder
      BY DEF OrderFor, Unused, Ledger!NoOrder
    <3> QED
      BY <1>1, <3>1, <3>2
  <2> QED
    BY <2>1, OrderOfCalls
<1>5. lateOf = {}
  BY <1>1, LateFacts DEF LateCall
<1> QED
  BY <1>2, <1>3, <1>4, <1>5 DEF Ledger!TicketInit

\* To its callers the gateway, the network and MockDesk are the ticket ledger:
\* one ticket per key, OPEN only to the call that created it, CONFLICT only
\* for another payload, however often a request is lost, repeated or late.
THEOREM GatewayImplementsLedger == GatewaySpec => ImplementsTicketLedger
<1> DEFINE I == GatewayInv /\ AnswersInv
<1>1. GatewayInit => I /\ Ledger!TicketInit
  BY InitGateway, LedgerStart
<1>2. I /\ [GatewayNext]_gatewayVars => I'
  BY StepGateway, AnswersStep
<1>3. I /\ I' /\ [GatewayNext]_gatewayVars => [Ledger!TicketNext]_<<ticketOf, orderOf, lateOf>>
  <2>1. UNCHANGED gatewayVars => UNCHANGED <<ticketOf, orderOf, lateOf>>
    BY DEF gatewayVars, ticketOf, orderOf, lateOf, RowsOf, Waits
  <2> QED
    BY <2>1, LedgerStep
<1> QED
  BY <1>1, <1>2, <1>3, PTL DEF GatewaySpec, ImplementsTicketLedger, Ledger!TicketSpec,
     Ledger!ticketVars
-----------------------------------------------------------------------------
(* The pause between two attempts                                          *)

\* A power of two counts the subsets of a set.
LEMMA PowerOfTwo == ASSUME NEW n \in Nat PROVE 2^n \in Nat \ {0}
<1> DEFINE S == 1..n
           many == Cardinality(SUBSET S)
<1>1. IsFiniteSet(S) /\ Cardinality(S) = n
  <2>1. Cardinality(S) = IF 1 > n THEN 0 ELSE n - 1 + 1
    BY FS_Interval
  <2> QED
    BY <2>1, FS_Interval
<1> HIDE DEF S
<1>2. IsFiniteSet(SUBSET S) /\ many = 2^n
  BY <1>1, FS_SUBSET
<1>3. many \in Nat
  BY <1>2, FS_CardinalityType
<1>4. many # 0
  <2>1. {} \in SUBSET S
    OBVIOUS
  <2> QED
    BY <1>2, <2>1, FS_EmptySet
<1> HIDE DEF many
<1> QED
  BY <1>2, <1>3, <1>4

\* Without a Retry-After the pause is the base or more, up to the cap.
LEMMA BackoffBounded ==
    ASSUME NEW attempt \in Nat \ {0}
    PROVE  RetryDelay(attempt, None) \in 0..Cap /\ RetryDelay(attempt, None) >= Least(Base, Cap)
<1> DEFINE power == 2^(attempt - 1)
           wait == Base * power
<1>1. power \in Nat /\ power >= 1
  <2>1. attempt - 1 \in Nat
    OBVIOUS
  <2> QED
    BY <2>1, PowerOfTwo
<1> HIDE DEF power
<1>2. wait \in Nat /\ wait >= Base
  <2>1. \A b, p \in Nat : p >= 1 => b * p \in Nat /\ b * p >= b
    BY SMT
  <2> QED
    BY <1>1, <2>1, GatewayAssumption
<1>3. RetryDelay(attempt, None) = Least(wait, Cap)
  BY DEF RetryDelay, power
<1> HIDE DEF wait
<1> QED
  BY <1>2, <1>3, GatewayAssumption DEF Least

\* A Retry-After is followed as closely as a sleep of at most Cap can.
LEMMA HeaderFollowed ==
    ASSUME NEW attempt, NEW asked \in Int, asked # None
    PROVE  LET pause == RetryDelay(attempt, asked)
           IN pause \in 0..Cap /\ \A d \in 0..Cap : Distance(asked, pause) <= Distance(asked, d)
<1>1. RetryDelay(attempt, asked) = Least(Greatest(asked, 0), Cap)
  BY DEF RetryDelay
<1> QED
  BY <1>1, GatewayAssumption DEF Least, Greatest, Distance

LEMMA PausesAreBounded == GatewayInv => PauseBounded
<1> SUFFICES ASSUME GatewayInv, NEW c \in Calls, gw[c].pc = "backoff"
             PROVE  /\ Pause(c) \in 0..Cap
                    /\ IF gw[c].asked = None THEN Pause(c) >= Least(Base, Cap)
                       ELSE \A d \in 0..Cap : Distance(gw[c].asked, Pause(c)) <= Distance(gw[c].asked, d)
  BY DEF PauseBounded
<1>1. gw[c].asked \in Headers /\ gw[c].attempt \in Nat \ {0}
  BY GatewayFacts, GatewayAssumption DEF GatewayInv, AttemptsInv, GatewayCall
<1>2. CASE gw[c].asked = None
  BY <1>1, <1>2, BackoffBounded DEF Pause
<1>3. CASE gw[c].asked # None
  <2>1. gw[c].asked \in Int
    BY <1>1, <1>3, GatewayAssumption
  <2> QED
    BY <1>3, <2>1, HeaderFollowed DEF Pause
<1> QED
  BY <1>2, <1>3

\* Whatever Retry-After says and however often the call was tried, the caller
\* sleeps no longer than the cap, and as near to what it was asked as that
\* allows (_retry_delay of app/mockdesk_client.py).
THEOREM PausesBounded == GatewaySpec => []PauseBounded
BY GatewayInvariant, PausesAreBounded, PTL

=============================================================================
