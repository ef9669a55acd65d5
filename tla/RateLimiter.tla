----------------------------- MODULE RateLimiter -----------------------------
(***************************************************************************)
(* TokenBucketLimiter (app/rate_limit.py) behind the demo_rate_limit       *)
(* middleware (app/main.py).  The middleware runs on the event loop and    *)
(* consume never awaits, so a call of consume is one action.               *)
(*                                                                         *)
(* Time is counted in ticks, the resolution of the clock, and tokens in    *)
(* units, so that a tick refills a whole number of them.  The code counts  *)
(* in floating point: what it computes may be Slip units off, either way,  *)
(* each time.  Taking a token is exact, and so is a count that refills     *)
(* nothing.                                                                *)
(***************************************************************************)
EXTENDS Integers

CONSTANTS
    Clients,     \* what _client_key tells apart
    Capacity,    \* tokens a bucket holds
    Token,       \* units of a token
    Rate,        \* units a bucket gains per tick
    Second,      \* ticks of a second
    Slip,        \* units a computed number of tokens may be off by
    MaxClock     \* bound: last instant the clock reaches

ASSUME LimiterAssumption ==
    /\ Capacity \in Nat \ {0}
    /\ Token \in Nat \ {0}
    /\ Rate \in Nat \ {0}
    /\ Second \in Nat \ {0}
    /\ Slip \in Nat /\ Slip < Rate
    /\ MaxClock \in Nat

\* Seconds a client is told to wait, at most.
LongestPause == (Token + Slip) \div (Rate * Second) + 1

\* What rounding adds up to in a pause, if the client is counted every tick.
Drift == Slip * (1 + Second * LongestPause)

\* All of it is less than what a second refills.  With doubles and ticks of a
\* nanosecond it is, for any whole number of tokens a minute and a capacity
\* of some hundreds.
ASSUME RoundingAssumption == Drift + Slip * Second <= Rate * Second

VARIABLES
    clock,
    bucket,     \* the units of each client, and when they were counted
    watched,    \* history: per client, an interval that began at some instant
                \* and the requests admitted in it
    promised    \* history: until when a refused client was told to wait

limiterVars == <<clock, bucket, watched, promised>>

Full == Capacity * Token
None == -1

\* A client that was never seen has a full bucket, whenever it is counted.
LimiterInit ==
    /\ clock = 0
    /\ bucket = [c \in Clients |-> [units |-> Full, at |-> 0]]
    /\ watched = [c \in Clients |-> [from |-> 0, admitted |-> 0]]
    /\ promised = [c \in Clients |-> None]

\* What the program may compute for an exact number of units.
Roundings(exact) == exact - Slip .. exact + Slip

\* Mutant: the refill may fill the bucket over its capacity.
RefillsUncapped(c) ==
    IF clock = bucket[c].at THEN {bucket[c].units}
    ELSE Roundings(bucket[c].units + (clock - bucket[c].at) * Rate)

Capped(units) == IF units < Full THEN units ELSE Full

\* min(capacity, tokens + elapsed * rate)
Refills(c) ==
    IF clock = bucket[c].at THEN {bucket[c].units}
    ELSE {Capped(units) :
             units \in Roundings(bucket[c].units + (clock - bucket[c].at) * Rate)}

\* max(1, ceil(missing / refill_per_second))
Seconds(missing) ==
    LET seconds == (missing + Rate * Second - 1) \div (Rate * Second)
    IN IF seconds < 1 THEN 1 ELSE seconds

\* Mutant: the pause is that of an empty bucket.
RetryAftersWhole(units) == {Seconds(missing) : missing \in Roundings(Token)}

RetryAfters(units) == {Seconds(missing) : missing \in Roundings(Token - units)}

\* Mutant: the instant of the count is forgotten.
CountedOnly(c, units) == bucket' = [bucket EXCEPT ![c].units = units]

Counted(c, units) == bucket' = [bucket EXCEPT ![c] = [units |-> units, at |-> clock]]

Admit(c) ==
    /\ \E units \in Refills(c) :
          /\ units >= Token
          /\ Counted(c, units - Token)
    /\ watched' = [watched EXCEPT ![c].admitted = @ + 1]
    /\ promised' = [promised EXCEPT ![c] = None]
    /\ UNCHANGED clock

\* A first refusal is remembered, later ones do not put it off.
Promised(c, units) ==
    \E seconds \in RetryAfters(units) :
        promised' = [promised EXCEPT ![c] = IF @ = None THEN clock + Second * seconds ELSE @]

\* Mutant: a refused request pays, too.
RefuseCharged(c) ==
    /\ \E units \in Refills(c) :
          /\ units < Token
          /\ Counted(c, 0)
          /\ Promised(c, units)
    /\ UNCHANGED <<clock, watched>>

\* 429
Refuse(c) ==
    /\ \E units \in Refills(c) :
          /\ units < Token
          /\ Counted(c, units)
          /\ Promised(c, units)
    /\ UNCHANGED <<clock, watched>>

\* Somebody begins to count what a client is granted.
Watch(c) ==
    /\ watched' = [watched EXCEPT ![c] = [from |-> clock, admitted |-> 0]]
    /\ UNCHANGED <<clock, bucket, promised>>

\* "A restart handing every client a full bucket is an acceptable reset":
\* nobody counts across it, and a client that was told to wait need not.
Restart ==
    /\ bucket' = [c \in Clients |-> [units |-> Full, at |-> clock]]
    /\ watched' = [c \in Clients |-> [from |-> clock, admitted |-> 0]]
    /\ promised' = [c \in Clients |-> None]
    /\ UNCHANGED clock

LimiterTick ==
    /\ clock < MaxClock
    /\ clock' = clock + 1
    /\ UNCHANGED <<bucket, watched, promised>>

LimiterNext ==
    \/ \E c \in Clients : Admit(c) \/ Refuse(c) \/ Watch(c)
    \/ Restart
    \/ LimiterTick

LimiterSpec == LimiterInit /\ [][LimiterNext]_limiterVars

-----------------------------------------------------------------------------
(* Properties                                                              *)

\* The types; a bucket never holds more than its capacity and was never
\* counted in the future.
LimiterTypeOK ==
    /\ clock \in Nat
    /\ bucket \in [Clients -> [units : 0..Full, at : Nat]]
    /\ watched \in [Clients -> [from : Nat, admitted : Nat]]
    /\ promised \in [Clients -> Nat \cup {None}]
    /\ \A c \in Clients : bucket[c].at <= clock /\ watched[c].from <= clock

\* In no interval, wherever it begins, a client is admitted more often than
\* the capacity and the refill of that interval allow, rounded up in every
\* tick: refusals, pauses and the calls of others neither save up nor cost
\* tokens.
AdmissionBound ==
    \A c \in Clients :
        watched[c].admitted * Token <= Full + (clock - watched[c].from) * (Rate + Slip)

\* A client that waited as long as it was told to, and asked as often as it
\* liked in between, is admitted or, if the refills of all these calls were
\* rounded down, is told to wait a second more; then it is admitted.
PromiseKept ==
    \A c \in Clients :
        promised[c] # None =>
            \A units \in Refills(c) :
                /\ clock >= promised[c] => units >= Token \/ RetryAfters(units) = {1}
                /\ clock >= promised[c] + Second => units >= Token

\* Whatever is rounded up, it is told to wait at most one second too long:
\* it is refused until two seconds before the end of its pause.
PromiseTight ==
    \A c \in Clients :
        promised[c] # None /\ clock <= promised[c] - 2 * Second =>
            \A units \in Refills(c) : units < Token
=============================================================================
