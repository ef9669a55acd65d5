-------------------------- MODULE RateLimiter_proofs --------------------------
(***************************************************************************)
(* Theorems about RateLimiter.  Units, ticks and rates are symbols, so the *)
(* products are handled by a few lemmas about integers.                    *)
(***************************************************************************)
EXTENDS RateLimiter, TLAPS

\* The refill of two intervals is the refill of the two together.
LEMMA Distributes ==
    ASSUME NEW a \in Int, NEW b \in Int, NEW r \in Int
    PROVE  (a + b) * r = a * r + b * r
BY SMT

\* A longer interval refills more.
LEMMA Monotone ==
    ASSUME NEW a \in Int, NEW b \in Int, NEW r \in Nat, a <= b
    PROVE  a * r <= b * r
BY SMT

LEMMA Products ==
    ASSUME NEW a \in Nat, NEW b \in Nat, NEW n \in Nat
    PROVE  b + a * n \in Nat /\ (a * n) * b = n * (b * a)
BY SMT

\* Rounding up the missing units to whole seconds covers them.
LEMMA RoundsUp ==
    ASSUME NEW m \in Int, NEW d \in Nat \ {0}
    PROVE  m <= ((m + d - 1) \div d) * d
<1>1. m + d - 1 - d < d * ((m + d - 1) \div d)
  BY SMT
<1> QED
  BY <1>1, SMT

\* One second less than the missing units rounded up does not cover them.
LEMMA RoundsUpTight ==
    ASSUME NEW m \in Int, NEW d \in Nat \ {0}
    PROVE  ((m + d - 1) \div d - 1) * d < m
<1> DEFINE n == (m + d - 1) \div d
<1>1. n \in Int /\ d * n <= m + d - 1
  BY SMT
<1>2. (n - 1) * d = n * d + (-1) * d /\ d * n = n * d
  BY <1>1, Distributes, SMT
<1>3. n * d \in Int /\ (-1) * d = -d
  BY <1>1, SMT
<1> HIDE DEF n
<1>4. (n - 1) * d < m
  BY <1>1, <1>2, <1>3, SMT
<1> QED
  BY <1>4 DEF n

LEMMA Constants ==
    /\ Full \in Nat /\ Token \in Nat \ {0} /\ Token <= Full
    /\ Rate \in Nat \ {0} /\ Second \in Nat \ {0}
    /\ Slip \in Nat /\ Rate - Slip \in Nat /\ Rate + Slip \in Nat \ {0}
<1>1. 1 * Token <= Capacity * Token
  BY LimiterAssumption, Monotone, SMT
<1> QED
  BY <1>1, LimiterAssumption, SMT DEF Full

LEMMA Drifts ==
    /\ LongestPause \in Nat /\ LongestPause >= 1
    /\ Token + Slip < LongestPause * (Rate * Second)
    /\ Drift \in Nat /\ Drift = Slip + (Second * LongestPause) * Slip
    /\ Drift <= Second * (Rate - Slip) /\ Drift + Slip <= Rate * Second
    /\ Drift <= Second * (Rate + Slip)
<1> DEFINE d == Rate * Second
           q == (Token + Slip) \div d
<1>1. d \in Nat \ {0} /\ Token + Slip \in Nat
  BY Constants, SMT
<1>2. q \in Nat /\ Token + Slip < d * q + d
  BY <1>1, SMT
<1>3. d * q + d = (q + 1) * d
  BY <1>1, <1>2, SMT
<1>4. LongestPause = q + 1
  BY DEF LongestPause
<1>5. LongestPause \in Nat /\ LongestPause >= 1 /\ Token + Slip < LongestPause * d
  <2> HIDE DEF q, d
  <2> QED
    BY <1>1, <1>2, <1>3, <1>4, SMT
<1>6. Second * LongestPause \in Nat
  BY <1>5, Constants, SMT
<1>7. Slip * (1 + Second * LongestPause) = Slip + (Second * LongestPause) * Slip
  <2> DEFINE m == Second * LongestPause
  <2> HIDE DEF m
  <2>1. m \in Nat
    BY <1>6 DEF m
  <2>2. Slip * (1 + m) = Slip + m * Slip
    BY <2>1, Constants, SMT
  <2> QED
    BY <2>2 DEF m
<1>8. (Second * LongestPause) * Slip \in Nat
  BY <1>6, Constants, SMT
<1>9. Drift \in Nat /\ Drift = Slip + (Second * LongestPause) * Slip
  BY <1>7, <1>8, Constants, SMT DEF Drift
<1>10. Second * (Rate - Slip) = Rate * Second - Slip * Second
  BY Constants, SMT
<1>11. Second * (Rate + Slip) = Rate * Second + Slip * Second
  BY Constants, SMT
<1>12. Slip <= Slip * Second /\ Slip * Second \in Nat /\ Rate * Second \in Nat
  <2>1. 1 * Slip <= Second * Slip
    BY Constants, Monotone, SMT
  <2> QED
    BY <2>1, Constants, SMT
<1> QED
  BY <1>5, <1>9, <1>10, <1>11, <1>12, RoundingAssumption, Constants, SMT

\* What a client has when it is counted: no more than a full bucket, no more
\* than it had and gained with every tick rounded up, and, if it is not full,
\* no less than with every tick rounded down.
LEMMA RefillFacts ==
    ASSUME LimiterTypeOK, NEW c \in Clients, NEW units \in Refills(c)
    PROVE  /\ units \in 0..Full
           /\ units <= bucket[c].units + (clock - bucket[c].at) * (Rate + Slip)
           /\ units < Full =>
                 bucket[c].units + (clock - bucket[c].at) * (Rate - Slip) <= units
<1> DEFINE u == bucket[c].units
           n == clock - bucket[c].at
<1>1. u \in 0..Full /\ n \in Nat /\ bucket[c].at \in Nat /\ clock \in Nat
  BY SMT DEF LimiterTypeOK
<1>2. CASE clock = bucket[c].at
  <2>1. units = u /\ n = 0
    BY <1>1, <1>2, SMT DEF Refills
  <2>2. n * (Rate + Slip) = 0 /\ n * (Rate - Slip) = 0
    BY <2>1, Constants, SMT
  <2> HIDE DEF n
  <2>3. /\ units \in 0..Full
        /\ units <= u + n * (Rate + Slip)
        /\ units < Full => u + n * (Rate - Slip) <= units
    BY <1>1, <2>1, <2>2, Constants, SMT
  <2> QED
    BY <2>3 DEF n
<1>3. CASE clock # bucket[c].at
  <2>1. PICK x \in Roundings(u + n * Rate) : units = Capped(x)
    BY <1>3 DEF Refills
  <2>2. n >= 1
    BY <1>1, <1>3, SMT
  <2>3. /\ n * (Rate + Slip) = n * Rate + n * Slip
        /\ n * (Rate - Slip) = n * Rate - n * Slip
    BY <1>1, Constants, SMT
  <2>4. 1 * Slip <= n * Slip /\ 1 * Rate <= n * Rate
    BY <1>1, <2>2, Constants, Monotone, SMT
  <2>5. n * Rate \in Nat /\ n * Slip \in Nat
    BY <1>1, Constants, SMT
  <2> HIDE DEF n
  <2>6. x \in Int /\ u + n * Rate - Slip <= x /\ x <= u + n * Rate + Slip
    BY <1>1, <2>1, <2>5, Constants, SMT DEF Roundings
  <2>7. units = IF x < Full THEN x ELSE Full
    BY <2>1 DEF Capped
  <2>8. /\ units \in 0..Full
        /\ units <= u + n * (Rate + Slip)
        /\ units < Full => u + n * (Rate - Slip) <= units
    BY <1>1, <2>3, <2>4, <2>5, <2>6, <2>7, Constants, SMT
  <2> QED
    BY <2>8 DEF n
<1> QED
  BY <1>2, <1>3

\* The pause a refused client is told covers the units it lacks, but for the
\* rounding of the division, and a second less does not.
LEMMA PauseFacts ==
    ASSUME NEW units \in 0..Full, units < Token, NEW s \in RetryAfters(units)
    PROVE  /\ s \in Nat /\ s >= 1 /\ s <= LongestPause
           /\ Token - units - Slip <= (Second * s) * Rate
           /\ (Second * (s - 1)) * Rate < Token - units + Slip
<1> DEFINE d == Rate * Second
<1>1. PICK m \in Roundings(Token - units) : s = Seconds(m)
  BY DEF RetryAfters
<1> DEFINE n == (m + d - 1) \div d
<1>2. /\ d \in Nat \ {0} /\ m \in Int
      /\ Token - units - Slip <= m /\ m <= Token - units + Slip
  BY <1>1, Constants, SMT DEF Roundings
<1>3. n \in Int /\ m <= n * d /\ (n - 1) * d < m
  <2>1. n \in Int
    BY <1>2, SMT
  <2> QED
    BY <2>1, <1>2, RoundsUp, RoundsUpTight
<1>4. s = IF n < 1 THEN 1 ELSE n
  BY <1>1 DEF Seconds
<1> HIDE DEF n
<1>5. s \in Nat /\ s >= 1
  BY <1>3, <1>4, SMT
<1>6. m <= s * d
  <2>1. CASE n < 1
    <3>1. n * d <= 0 * d /\ 0 * d = 0 /\ s * d = d
      BY <1>2, <1>3, <1>4, <2>1, Monotone, SMT
    <3>2. n * d \in Int
      BY <1>2, <1>3, SMT
    <3> QED
      BY <3>1, <3>2, <1>2, <1>3, SMT
  <2>2. CASE ~(n < 1)
    BY <1>3, <1>4, <2>2
  <2> QED
    BY <2>1, <2>2
<1>7. (s - 1) * d < Token - units + Slip
  <2>1. CASE n < 1
    <3>1. (s - 1) * d = 0
      BY <1>2, <1>4, <2>1, SMT
    <3> QED
      BY <3>1, <1>2, Constants, SMT
  <2>2. CASE ~(n < 1)
    <3>1. s = n /\ (n - 1) * d \in Int
      BY <1>2, <1>3, <1>4, <2>2, SMT
    <3> QED
      BY <3>1, <1>2, <1>3, Constants, SMT
  <2> QED
    BY <2>1, <2>2
<1>8. (Second * s) * Rate = s * d /\ (Second * (s - 1)) * Rate = (s - 1) * d
  <2>1. s - 1 \in Nat
    BY <1>5, SMT
  <2> QED
    BY <1>5, <2>1, Constants, Products, SMT
<1>9. s <= LongestPause
  <2> SUFFICES ASSUME LongestPause <= s - 1 PROVE FALSE
    BY <1>5, Drifts, SMT
  <2>1. LongestPause * d <= (s - 1) * d
    BY <1>2, <1>5, Drifts, Monotone, SMT
  <2>2. LongestPause * d \in Int /\ (s - 1) * d \in Int
    BY <1>2, <1>5, Drifts, SMT
  <2>3. Token + Slip < LongestPause * d
    BY Drifts
  <2> QED
    BY <1>7, <2>1, <2>2, <2>3, Constants, SMT
<1> QED
  BY <1>2, <1>5, <1>6, <1>7, <1>8, <1>9, Constants, SMT

-----------------------------------------------------------------------------
(* Types                                                                   *)

LEMMA LimiterTypeStep == LimiterTypeOK /\ [LimiterNext]_limiterVars => LimiterTypeOK'
<1> SUFFICES ASSUME LimiterTypeOK, [LimiterNext]_limiterVars
             PROVE  LimiterTypeOK'
  OBVIOUS
<1> USE DEF LimiterTypeOK
<1>1. ASSUME NEW c \in Clients, Admit(c) PROVE LimiterTypeOK'
  <2>1. PICK units \in Refills(c) : units >= Token /\ Counted(c, units - Token)
    BY <1>1 DEF Admit
  <2>2. units - Token \in 0..Full
    BY <2>1, RefillFacts, Constants, SMT
  <2> QED
    BY <1>1, <2>1, <2>2, SMT DEF Admit, Counted
<1>2. ASSUME NEW c \in Clients, Refuse(c) PROVE LimiterTypeOK'
  <2>1. PICK units \in Refills(c) :
           units < Token /\ Counted(c, units) /\ Promised(c, units)
    BY <1>2 DEF Refuse
  <2>2. PICK s \in RetryAfters(units) :
           promised' = [promised EXCEPT ![c] = IF @ = None THEN clock + Second * s ELSE @]
    BY <2>1 DEF Promised
  <2>3. units \in 0..Full /\ s \in Nat
    BY <2>1, RefillFacts, PauseFacts
  <2>4. clock + Second * s \in Nat
    BY <2>3, Constants, Products
  <2> QED
    BY <1>2, <2>1, <2>2, <2>3, <2>4, SMT DEF Refuse, Counted
<1>3. ASSUME NEW c \in Clients, Watch(c) PROVE LimiterTypeOK'
  BY <1>3, SMT DEF Watch
<1>4. CASE Restart
  BY <1>4, Constants, SMT DEF Restart
<1>5. CASE LimiterTick
  BY <1>5, SMT DEF LimiterTick
<1>6. CASE UNCHANGED limiterVars
  BY <1>6 DEF limiterVars
<1> QED
  BY <1>1, <1>2, <1>3, <1>4, <1>5, <1>6 DEF LimiterNext

\* The types of the limiter, for any clients, capacity and rate.
THEOREM LimiterTypes == LimiterSpec => []LimiterTypeOK
<1>1. LimiterInit => LimiterTypeOK
  BY Constants, SMT DEF LimiterInit, LimiterTypeOK
<1> QED
  BY <1>1, LimiterTypeStep, PTL DEF LimiterSpec

-----------------------------------------------------------------------------
(* The bound on admissions                                                 *)

\* What was admitted in the interval and what is left never exceed a full
\* bucket and the refill up to the last count; before the first admission of
\* the interval there is nothing to bound.
Budget ==
    \A c \in Clients :
        \/ watched[c].admitted = 0
        \/ /\ watched[c].from <= bucket[c].at
           /\ bucket[c].units + watched[c].admitted * Token
                 <= Full + (bucket[c].at - watched[c].from) * (Rate + Slip)

\* Counting a client keeps its budget: k more requests are paid with k tokens.
LEMMA CountKeepsBudget ==
    ASSUME LimiterTypeOK, Budget, NEW c \in Clients, NEW k \in {0, 1},
           NEW units \in Refills(c), k * Token <= units
    PROVE  watched[c].admitted + k = 0 \/
           units - k * Token + (watched[c].admitted + k) * Token
              <= Full + (clock - watched[c].from) * (Rate + Slip)
<1> DEFINE u == bucket[c].units
           a == bucket[c].at
           f == watched[c].from
           n == watched[c].admitted
           r == Rate + Slip
<1>1. u \in Nat /\ a \in Nat /\ f \in Nat /\ n \in Nat /\ clock \in Nat /\ a <= clock /\ f <= clock
  BY Constants, SMT DEF LimiterTypeOK
<1>2. r \in Nat
  BY Constants
<1>3. units \in Int /\ units <= Full /\ units <= u + (clock - a) * r
  BY RefillFacts, Constants, SMT
<1> HIDE DEF r
<1>4. (n + k) * Token = n * Token + k * Token
  BY <1>1, Constants, Distributes, SMT
<1>5. CASE n = 0
  <2>1. 0 * r <= (clock - f) * r /\ 0 * r = 0 /\ (clock - f) * r \in Int
    BY <1>1, <1>2, Monotone, SMT
  <2>2. units - k * Token + (n + k) * Token <= Full + (clock - f) * r
    BY <1>1, <1>3, <1>4, <1>5, <2>1, Constants, SMT
  <2> QED
    BY <2>2 DEF r
<1>6. CASE n # 0
  <2>1. f <= a /\ u + n * Token <= Full + (a - f) * r
    BY <1>6 DEF Budget, r
  <2>2. (clock - f) * r = (clock - a) * r + (a - f) * r
    <3>1. clock - a \in Int /\ a - f \in Int /\ (clock - a) + (a - f) = clock - f
      BY <1>1, SMT
    <3> QED
      BY <3>1, <1>2, Distributes, SMT
  <2>3. /\ (clock - a) * r \in Int /\ (a - f) * r \in Int
        /\ n * Token \in Int /\ k * Token \in Int
    BY <1>1, <1>2, Constants, SMT
  <2>4. units - k * Token + (n + k) * Token <= Full + (clock - f) * r
    BY <1>1, <1>3, <1>4, <2>1, <2>2, <2>3, Constants, SMT
  <2> QED
    BY <2>4 DEF r
<1> QED
  BY <1>5, <1>6

LEMMA BudgetStep == LimiterTypeOK /\ Budget /\ [LimiterNext]_limiterVars => Budget'
<1> SUFFICES ASSUME LimiterTypeOK, Budget, [LimiterNext]_limiterVars
             PROVE  Budget'
  OBVIOUS
<1>1. ASSUME NEW c \in Clients, Admit(c) PROVE Budget'
  <2>1. PICK units \in Refills(c) : units >= Token /\ Counted(c, units - Token)
    BY <1>1 DEF Admit
  <2>2. /\ bucket' = [bucket EXCEPT ![c] = [units |-> units - Token, at |-> clock]]
        /\ watched' = [watched EXCEPT ![c].admitted = @ + 1]
        /\ Token <= units
    <3>1. units \in Int /\ Token <= units
      BY <2>1, RefillFacts, Constants, SMT
    <3> QED
      BY <1>1, <2>1, <3>1 DEF Admit, Counted
  <2>3. units - Token + (watched[c].admitted + 1) * Token
           <= Full + (clock - watched[c].from) * (Rate + Slip)
    <3>1. 1 * Token = Token /\ 1 * Token <= units
      BY <2>2, Constants, SMT
    <3>2. watched[c].admitted + 1 # 0
      BY SMT DEF LimiterTypeOK
    <3> QED
      BY <3>1, <3>2, CountKeepsBudget
  <2>4. /\ bucket'[c] = [units |-> units - Token, at |-> clock]
        /\ watched'[c].admitted = watched[c].admitted + 1
        /\ watched'[c].from = watched[c].from /\ watched[c].from <= clock
    BY <2>2 DEF LimiterTypeOK
  <2>5. \A d \in Clients \ {c} : bucket'[d] = bucket[d] /\ watched'[d] = watched[d]
    BY <2>2 DEF LimiterTypeOK
  <2> QED
    BY <2>3, <2>4, <2>5 DEF Budget
<1>2. ASSUME NEW c \in Clients, Refuse(c) PROVE Budget'
  <2>1. PICK units \in Refills(c) : Counted(c, units)
    BY <1>2 DEF Refuse
  <2>2. /\ bucket' = [bucket EXCEPT ![c] = [units |-> units, at |-> clock]]
        /\ watched' = watched
    BY <1>2, <2>1 DEF Refuse, Counted
  <2>3. watched[c].admitted = 0 \/
        units + watched[c].admitted * Token
           <= Full + (clock - watched[c].from) * (Rate + Slip)
    <3>1. 0 * Token = 0 /\ 0 * Token <= units /\ units - 0 = units
      BY RefillFacts, Constants, SMT
    <3>2. watched[c].admitted + 0 = watched[c].admitted
      BY SMT DEF LimiterTypeOK
    <3> QED
      BY <3>1, <3>2, CountKeepsBudget
  <2>4. /\ bucket'[c] = [units |-> units, at |-> clock]
        /\ watched[c].from <= clock
    BY <2>2 DEF LimiterTypeOK
  <2>5. \A d \in Clients \ {c} : bucket'[d] = bucket[d]
    BY <2>2 DEF LimiterTypeOK
  <2> QED
    BY <2>2, <2>3, <2>4, <2>5 DEF Budget
<1>3. ASSUME NEW c \in Clients, Watch(c) PROVE Budget'
  BY <1>3 DEF Watch, Budget, LimiterTypeOK
<1>4. CASE Restart
  BY <1>4 DEF Restart, Budget
<1>5. CASE LimiterTick \/ UNCHANGED limiterVars
  BY <1>5 DEF LimiterTick, limiterVars, Budget
<1> QED
  BY <1>1, <1>2, <1>3, <1>4, <1>5 DEF LimiterNext

LEMMA BudgetBounds == LimiterTypeOK /\ Budget => AdmissionBound
<1> SUFFICES ASSUME LimiterTypeOK, Budget, NEW c \in Clients
             PROVE  watched[c].admitted * Token
                       <= Full + (clock - watched[c].from) * (Rate + Slip)
  BY DEF AdmissionBound
<1> DEFINE a == bucket[c].at
           f == watched[c].from
           n == watched[c].admitted
           r == Rate + Slip
<1>1. /\ bucket[c].units \in Nat /\ a \in Nat /\ f \in Nat /\ n \in Nat /\ clock \in Nat
      /\ a <= clock /\ f <= clock
  BY Constants, SMT DEF LimiterTypeOK
<1>2. r \in Nat
  BY Constants
<1>3. n = 0 \/ bucket[c].units + n * Token <= Full + (a - f) * r
  BY DEF Budget
<1> HIDE DEF r
<1>4. 0 * r <= (clock - f) * r /\ (a - f) * r <= (clock - f) * r /\ 0 * r = 0
  BY <1>1, <1>2, Monotone, SMT
<1>5. (a - f) * r \in Int /\ (clock - f) * r \in Int /\ n * Token \in Int
  BY <1>1, <1>2, Constants, SMT
<1>6. n * Token <= Full + (clock - f) * r
  BY <1>1, <1>3, <1>4, <1>5, Constants, SMT
<1> QED
  BY <1>6 DEF r

\* In no interval does a client get more than the capacity and the refill of
\* the interval, rounded up in every tick, for any capacity, rate and number
\* of clients.
THEOREM AdmissionsBounded == LimiterSpec => []AdmissionBound
<1>1. LimiterInit => Budget
  <2> SUFFICES ASSUME LimiterInit, NEW c \in Clients
               PROVE  watched[c].admitted = 0
    BY Zenon DEF Budget
  <2> QED
    BY DEF LimiterInit
<1> QED
  BY <1>1, LimiterTypes, BudgetStep, BudgetBounds, PTL DEF LimiterSpec

-----------------------------------------------------------------------------
(* The promise of Retry-After                                              *)

\* What a client that was told to wait had at its last count, and what it
\* gains from there to the end of the pause, every tick rounded down, are a
\* token, but for what rounding adds up to in a pause.
PauseSuffices(c) ==
    promised[c] # None =>
        Token - Drift <= bucket[c].units + (promised[c] - bucket[c].at) * (Rate - Slip)

\* With every tick rounded up, what it gains from there to a second before
\* the end of the pause is no token, but for the same.
PauseNeeded(c) ==
    promised[c] # None =>
        bucket[c].units + (promised[c] - Second - bucket[c].at) * (Rate + Slip)
            < Token + Drift

Pauses == \A c \in Clients : PauseSuffices(c) /\ PauseNeeded(c)

\* The pause of a first refusal.
LEMMA PauseBegins ==
    ASSUME NEW units \in 0..Full, units < Token, NEW s \in RetryAfters(units)
    PROVE  /\ Token - Drift <= units + (Second * s) * (Rate - Slip)
           /\ units + (Second * s - Second) * (Rate + Slip) < Token + Drift
<1> DEFINE t == Second * s
           most == Second * LongestPause
<1>1. /\ s \in Nat /\ s >= 1 /\ s <= LongestPause
      /\ Token - units - Slip <= t * Rate
      /\ (Second * (s - 1)) * Rate < Token - units + Slip
  BY PauseFacts
<1>2. Second * (s - 1) = t - Second
  BY <1>1, Constants, SMT
<1>3. t \in Nat /\ most \in Nat /\ t <= most /\ t - Second \in Nat
  <2>1. s * Second <= LongestPause * Second /\ 1 * Second <= s * Second
    BY <1>1, Constants, Drifts, Monotone, SMT
  <2>2. /\ s * Second = t /\ LongestPause * Second = most /\ 1 * Second = Second
        /\ t \in Nat /\ most \in Nat
    BY <1>1, Constants, Drifts, SMT
  <2> HIDE DEF t, most
  <2> QED
    BY <2>1, <2>2, Constants, SMT
<1>4. Drift = Slip + most * Slip /\ Drift \in Nat
  BY Drifts
<1>5. t * Rate >= Token - units - Slip /\ (t - Second) * Rate < Token - units + Slip
  <2>1. (t - Second) * Rate < Token - units + Slip
    BY <1>1, <1>2
  <2>2. t * Rate \in Int
    BY <1>3, Constants, SMT
  <2> QED
    BY <1>1, <2>1, <2>2, Constants, SMT
<1> HIDE DEF t, most
<1>6. t * Slip <= most * Slip /\ (t - Second) * Slip <= most * Slip
  BY <1>3, Constants, Monotone, SMT
<1>7. /\ t * (Rate - Slip) = t * Rate - t * Slip
      /\ (t - Second) * (Rate + Slip) = (t - Second) * Rate + (t - Second) * Slip
  <2> DEFINE v == t - Second
  <2> HIDE DEF v
  <2>1. v \in Nat
    BY <1>3 DEF v
  <2>2. t * (Rate - Slip) = t * Rate - t * Slip /\ v * (Rate + Slip) = v * Rate + v * Slip
    BY <1>3, <2>1, Constants, SMT
  <2> QED
    BY <2>2 DEF v
<1>8. /\ t * Rate \in Nat /\ t * Slip \in Nat /\ most * Slip \in Nat
      /\ (t - Second) * Rate \in Nat /\ (t - Second) * Slip \in Nat
  BY <1>3, Constants, SMT
<1>9. /\ Token - Drift <= units + t * (Rate - Slip)
      /\ units + (t - Second) * (Rate + Slip) < Token + Drift
  BY <1>4, <1>5, <1>6, <1>7, <1>8, Constants, SMT
<1> QED
  BY <1>9 DEF t

\* Counting a client in its pause keeps both.
LEMMA PauseGoesOn ==
    ASSUME LimiterTypeOK, NEW c \in Clients, PauseSuffices(c), PauseNeeded(c),
           promised[c] # None, NEW units \in Refills(c)
    PROVE  /\ units < Token =>
                 Token - Drift <= units + (promised[c] - clock) * (Rate - Slip)
           /\ units + (promised[c] - Second - clock) * (Rate + Slip) < Token + Drift
<1> DEFINE u == bucket[c].units
           p == promised[c]
           n == clock - bucket[c].at
           lo == Rate - Slip
           hi == Rate + Slip
           m == p - clock
           k == p - Second - clock
<1>1. u \in Int /\ p \in Nat /\ n \in Nat /\ clock \in Nat /\ bucket[c].at \in Nat
  BY Constants, SMT DEF LimiterTypeOK
<1>2. /\ m \in Int /\ k \in Int /\ lo \in Nat /\ hi \in Nat
      /\ p - bucket[c].at = m + n /\ p - Second - bucket[c].at = k + n
  BY <1>1, Constants, SMT
<1>3. units \in 0..Full /\ units <= u + n * hi /\ (units < Full => u + n * lo <= units)
  BY RefillFacts
<1>4. Token - Drift <= u + (m + n) * lo /\ u + (k + n) * hi < Token + Drift
  BY <1>2 DEF PauseSuffices, PauseNeeded
<1> HIDE DEF n, lo, hi, m, k
<1>5. (m + n) * lo = m * lo + n * lo /\ (k + n) * hi = k * hi + n * hi
  BY <1>1, <1>2, Distributes, SMT
<1>6. m * lo \in Int /\ n * lo \in Int /\ k * hi \in Int /\ n * hi \in Int
  BY <1>1, <1>2, SMT
<1>7. /\ units < Token => Token - Drift <= units + m * lo
      /\ units + k * hi < Token + Drift
  BY <1>1, <1>3, <1>4, <1>5, <1>6, Constants, Drifts, SMT
<1> QED
  BY <1>7 DEF m, k, lo, hi

LEMMA PauseStep == LimiterTypeOK /\ Pauses /\ [LimiterNext]_limiterVars => Pauses'
<1> SUFFICES ASSUME LimiterTypeOK, Pauses, [LimiterNext]_limiterVars
             PROVE  Pauses'
  OBVIOUS
<1> USE DEF PauseSuffices, PauseNeeded
<1>1. ASSUME NEW c \in Clients, Admit(c) PROVE Pauses'
  <2>1. promised'[c] = None
    BY <1>1 DEF Admit, LimiterTypeOK
  <2>2. \A d \in Clients \ {c} : bucket'[d] = bucket[d] /\ promised'[d] = promised[d]
    BY <1>1 DEF Admit, Counted, LimiterTypeOK
  <2> QED
    BY <2>1, <2>2 DEF Pauses
<1>2. ASSUME NEW c \in Clients, Refuse(c) PROVE Pauses'
  <2> DEFINE p == promised'[c]
  <2>1. PICK units \in Refills(c) :
           units < Token /\ Counted(c, units) /\ Promised(c, units)
    BY <1>2 DEF Refuse
  <2>2. PICK s \in RetryAfters(units) :
           promised' = [promised EXCEPT ![c] = IF @ = None THEN clock + Second * s ELSE @]
    BY <2>1 DEF Promised
  <2>3. /\ bucket'[c] = [units |-> units, at |-> clock]
        /\ p = IF promised[c] = None THEN clock + Second * s ELSE promised[c]
    BY <2>1, <2>2 DEF Counted, LimiterTypeOK
  <2>4. \A d \in Clients \ {c} : bucket'[d] = bucket[d] /\ promised'[d] = promised[d]
    BY <2>1, <2>2 DEF Counted, LimiterTypeOK
  <2>5. /\ Token - Drift <= units + (p - clock) * (Rate - Slip)
        /\ units + (p - Second - clock) * (Rate + Slip) < Token + Drift
    <3>1. CASE promised[c] = None
      <4>1. units \in 0..Full /\ s \in Nat
        BY <2>1, RefillFacts, PauseFacts
      <4>2. p - clock = Second * s /\ p - Second - clock = Second * s - Second
        BY <2>3, <3>1, <4>1, Constants, SMT DEF LimiterTypeOK
      <4>3. /\ Token - Drift <= units + (Second * s) * (Rate - Slip)
            /\ units + (Second * s - Second) * (Rate + Slip) < Token + Drift
        BY <2>1, <4>1, PauseBegins
      <4> QED
        BY <4>2, <4>3
    <3>2. CASE promised[c] # None
      <4>1. p = promised[c]
        BY <2>3, <3>2
      <4>2. PauseSuffices(c) /\ PauseNeeded(c)
        BY DEF Pauses
      <4> HIDE DEF PauseSuffices, PauseNeeded
      <4> QED
        BY <2>1, <3>2, <4>1, <4>2, PauseGoesOn
    <3> QED
      BY <3>1, <3>2
  <2> QED
    BY <2>3, <2>4, <2>5 DEF Pauses
<1>3. ASSUME NEW c \in Clients, Watch(c) PROVE Pauses'
  BY <1>3 DEF Watch, Pauses
<1>4. CASE Restart
  BY <1>4 DEF Restart, Pauses
<1>5. CASE LimiterTick \/ UNCHANGED limiterVars
  BY <1>5 DEF LimiterTick, limiterVars, Pauses
<1> QED
  BY <1>1, <1>2, <1>3, <1>4, <1>5 DEF LimiterNext

LEMMA PausesHold == LimiterSpec => []Pauses
<1>1. LimiterInit => Pauses
  BY DEF LimiterInit, Pauses, PauseSuffices, PauseNeeded
<1> QED
  BY <1>1, LimiterTypes, PauseStep, PTL DEF LimiterSpec

LEMMA PauseKeeps == LimiterTypeOK /\ Pauses => PromiseKept
<1> SUFFICES ASSUME LimiterTypeOK, Pauses, NEW c \in Clients, promised[c] # None,
                    NEW units \in Refills(c)
             PROVE  /\ clock >= promised[c] => units >= Token \/ RetryAfters(units) = {1}
                    /\ clock >= promised[c] + Second => units >= Token
  BY DEF PromiseKept
<1> DEFINE p == promised[c]
           lo == Rate - Slip
           d == Rate * Second
<1>1. /\ units \in 0..Full /\ p \in Nat /\ clock \in Nat
  BY RefillFacts, SMT DEF LimiterTypeOK
<1>2. units < Token => Token - Drift <= units + (p - clock) * lo
  BY PauseGoesOn DEF Pauses
<1>3. /\ lo \in Nat /\ d \in Nat \ {0} /\ Drift \in Nat /\ Drift <= Second * lo
      /\ Drift + Slip <= d
  BY Constants, Drifts, SMT
<1> HIDE DEF lo, d
<1>4. ASSUME clock >= p, units < Token PROVE RetryAfters(units) = {1}
  <2>1. (p - clock) * lo <= 0 * lo /\ 0 * lo = 0 /\ (p - clock) * lo \in Int
    BY <1>1, <1>3, <1>4, Monotone, SMT
  <2>2. Token - units + Slip <= d
    BY <1>1, <1>2, <1>3, <1>4, <2>1, Constants, SMT
  <2>3. ASSUME NEW m \in Roundings(Token - units) PROVE Seconds(m) = 1
    <3>1. m \in Int /\ m <= d
      <4>1. m \in Token - units - Slip .. Token - units + Slip
        BY <2>3 DEF Roundings
      <4> QED
        BY <1>1, <1>3, <2>2, <4>1, Constants, SMT
    <3>2. (m + d - 1) \div d \in Int /\ (m + d - 1) \div d <= 1
      <4> DEFINE q == (m + d - 1) \div d
      <4>1. q \in Int
        BY <1>3, <3>1, SMT
      <4>2. (q - 1) * d < m
        BY <1>3, <3>1, RoundsUpTight
      <4> HIDE DEF q
      <4>3. q <= 1
        <5> SUFFICES ASSUME 1 <= q - 1 PROVE FALSE
          BY <4>1, SMT
        <5>1. 1 * d <= (q - 1) * d /\ 1 * d = d /\ (q - 1) * d \in Int
          BY <1>3, <4>1, Monotone, SMT
        <5> QED
          BY <1>3, <3>1, <4>2, <5>1, SMT
      <4> QED
        BY <4>1, <4>3 DEF q
    <3> QED
      BY <3>2, SMT DEF Seconds, d
  <2>4. Token - units \in Roundings(Token - units)
    BY <1>1, Constants, SMT DEF Roundings
  <2> QED
    BY <2>3, <2>4 DEF RetryAfters
<1>5. ASSUME clock >= p + Second, units < Token PROVE FALSE
  <2>1. (p - clock) * lo <= (-Second) * lo /\ (-Second) * lo = -(Second * lo)
    BY <1>1, <1>3, <1>5, Constants, Monotone, SMT
  <2>2. (p - clock) * lo \in Int /\ Second * lo \in Int
    BY <1>1, <1>3, Constants, SMT
  <2> QED
    BY <1>1, <1>2, <1>3, <1>5, <2>1, <2>2, Constants, SMT
<1>6. units < Token \/ units >= Token
  BY <1>1, Constants, SMT
<1> QED
  BY <1>4, <1>5, <1>6

\* A client that waited as long as it was told to is admitted, or told to
\* wait one second more and then admitted, for any rate, capacity and
\* rounding whose errors in a pause stay below the refill of a second.
THEOREM PromisesKept == LimiterSpec => []PromiseKept
  BY LimiterTypes, PausesHold, PauseKeeps, PTL

-----------------------------------------------------------------------------
(* The promise is no longer than it must be                                *)

LEMMA NeededRefuses == LimiterTypeOK /\ Pauses => PromiseTight
<1> SUFFICES ASSUME LimiterTypeOK, Pauses, NEW c \in Clients, promised[c] # None,
                    clock <= promised[c] - 2 * Second, NEW units \in Refills(c)
             PROVE  units < Token
  BY DEF PromiseTight
<1> DEFINE p == promised[c]
           hi == Rate + Slip
<1>1. units \in 0..Full /\ p \in Nat /\ clock \in Nat
  BY RefillFacts, SMT DEF LimiterTypeOK
<1>2. units + (p - Second - clock) * hi < Token + Drift
  BY PauseGoesOn DEF Pauses
<1>3. hi \in Nat /\ Drift \in Nat /\ Drift <= Second * hi
  BY Constants, Drifts
<1> HIDE DEF hi
<1>4. Second * hi <= (p - Second - clock) * hi
  BY <1>1, <1>3, Constants, Monotone, SMT
<1>5. Second * hi \in Int /\ (p - Second - clock) * hi \in Int
  BY <1>1, <1>3, Constants, SMT
<1> QED
  BY <1>1, <1>2, <1>3, <1>4, <1>5, Constants, SMT

\* A client that comes back two seconds or more before the end of its pause
\* is refused: the pause is at most a second longer than it must be, for any
\* rate, capacity and such rounding.
THEOREM PromisesTight == LimiterSpec => []PromiseTight
  BY LimiterTypes, PausesHold, NeededRefuses, PTL
=============================================================================
