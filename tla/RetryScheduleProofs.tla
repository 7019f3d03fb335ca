------------------------ MODULE RetryScheduleProofs ------------------------
(***************************************************************************)
(* Theorems about the retry schedule, for every configuration of Backoff   *)
(* under which no wait is capped, and for the default one in any unit of   *)
(* time: milliseconds, the unit of the source, have too many delays for a  *)
(* run.                                                                    *)
(***************************************************************************)
EXTENDS RetrySchedule, WellFoundedInduction, TLAPS

-----------------------------------------------------------------------------
(* The powers of the factor *)

\* A set of numbers that is not empty has a least member.
LEMMA LeastNumber ==
  ASSUME NEW S \in SUBSET Nat, S # {}
  PROVE  \E n \in S : \A m \in S : n <= m
<1> DEFINE R == { pair \in Nat \X Nat : pair[1] < pair[2] }
<1>1. IsWellFoundedOn(R, Nat)
  BY NatLessThanWellFounded DEF OpToRel
<1>2. \A i, j \in Nat : i < j => << i, j >> \in R
  OBVIOUS
<1> HIDE DEF R
<1>3. PICK n \in S : \A m \in S : ~ (<< m, n >> \in R)
  BY <1>1, WFMin
<1>4. ASSUME NEW m \in S PROVE n <= m
  <2>1. m \in Nat /\ n \in Nat /\ ~ (m < n)
    BY <1>2, <1>3
  <2> QED
    BY <2>1
<1> QED
  BY <1>4

\* A set that has 0 and with each number the next has them all.
LEMMA AllNumbers ==
  ASSUME NEW S, 0 \in S, \A n \in Nat : n \in S => n + 1 \in S
  PROVE  \A n \in Nat : n \in S
<1> SUFFICES ASSUME Nat \ S # {} PROVE FALSE
  OBVIOUS
<1>1. PICK m \in Nat \ S : \A i \in Nat \ S : m <= i
  BY LeastNumber
<1>2. m # 0
  OBVIOUS
<1>3. m - 1 \in Nat /\ ~ (m <= m - 1) /\ (m - 1) + 1 = m
  BY <1>2
<1> QED
  BY <1>1, <1>3

\* The equation of the recursive function: up to every number there is one function that
\* satisfies it, and the values of these make the whole.
LEMMA PowerDef ==
  /\ Power[0] = 1
  /\ \A n \in Nat : Power[n + 1] = Factor * Power[n]
<1> DEFINE G(n) == { g \in [0 .. n -> Nat] : g[0] = 1 /\ \A i \in 0 .. n - 1 : g[i + 1] = Factor * g[i] }
           S == { n \in Nat : G(n) # {} }
           Rec(f) == [n \in Nat |-> IF n = 0 THEN 1 ELSE Factor * f[n - 1]]
<1>0. Factor \in Nat
  BY BackoffAssumption
<1>1. \A n \in Nat : G(n) # {}
  <2>1. 0 \in S
    <3>1. [i \in 0 .. 0 |-> 1] \in G(0)
      OBVIOUS
    <3> QED
      BY <3>1
  <2>2. ASSUME NEW n \in Nat, n \in S PROVE n + 1 \in S
    <3>1. PICK g \in [0 .. n -> Nat] : g[0] = 1 /\ \A i \in 0 .. n - 1 : g[i + 1] = Factor * g[i]
      BY <2>2
    <3> DEFINE h == [i \in 0 .. n + 1 |-> IF i <= n THEN g[i] ELSE Factor * g[n]]
    <3>2. h \in [0 .. n + 1 -> Nat] /\ h[0] = 1
      BY <1>0, <3>1
    <3>3. ASSUME NEW i \in 0 .. n PROVE h[i + 1] = Factor * h[i]
      <4>1. CASE i = n
        BY <4>1
      <4>2. CASE i # n
        BY <3>1, <4>2
      <4> QED
        BY <4>1, <4>2
    <3>4. h \in G(n + 1)
      <4> HIDE DEF h
      <4> QED
        BY <3>2, <3>3
    <3> QED
      BY <3>4
  <2> HIDE DEF S
  <2>3. \A n \in Nat : n \in S
    BY <2>1, <2>2, AllNumbers
  <2> QED
    BY <2>3 DEF S
<1>2. ASSUME NEW n \in Nat, NEW g \in G(n), NEW h \in G(n) PROVE g = h
  <2> DEFINE T == { i \in Nat : i <= n => g[i] = h[i] }
  <2>1. 0 \in T
    OBVIOUS
  <2>2. ASSUME NEW i \in Nat, i \in T PROVE i + 1 \in T
    <3> SUFFICES ASSUME i + 1 <= n PROVE g[i + 1] = h[i + 1]
      OBVIOUS
    <3>1. i \in 0 .. n - 1 /\ g[i] = h[i]
      BY <2>2
    <3> QED
      BY <3>1
  <2> HIDE DEF T
  <2>3. \A i \in Nat : i \in T
    BY <2>1, <2>2, AllNumbers
  <2>4. \A i \in 0 .. n : g[i] = h[i]
    BY <2>3 DEF T
  <2> QED
    BY <2>4
<1> DEFINE Up(n) == CHOOSE g : g \in G(n)
           f == [n \in Nat |-> Up(n)[n]]
<1>3. \A n \in Nat : Up(n) \in G(n)
  <2> HIDE DEF G
  <2> QED
    BY <1>1
<1>4. f[0] = 1
  BY <1>3
<1>5. ASSUME NEW n \in Nat PROVE f[n + 1] = Factor * f[n]
  <2> DEFINE g == Up(n + 1)
             h == [i \in 0 .. n |-> g[i]]
  <2>1. g \in G(n + 1)
    <3>1. n + 1 \in Nat
      OBVIOUS
    <3> HIDE DEF G, Up
    <3> QED
      BY <1>3, <3>1
  <2> HIDE DEF g
  <2>2. h \in G(n)
    BY <2>1
  <2>3. h = Up(n)
    <3> HIDE DEF h, G
    <3> QED
      BY <1>2, <1>3, <2>2
  <2>4. g[n + 1] = Factor * g[n] /\ h[n] = g[n]
    BY <2>1
  <2>5. f[n] = h[n]
    BY <2>3
  <2>6. f[n + 1] = g[n + 1]
    <3>1. n + 1 \in Nat
      OBVIOUS
    <3> HIDE DEF G, Up
    <3> QED
      BY <3>1 DEF g
  <2> QED
    BY <2>4, <2>5, <2>6
<1> HIDE DEF f
<1>6. f = Rec(f)
  <2>1. ASSUME NEW n \in Nat PROVE f[n] = Rec(f)[n]
    <3>1. CASE n = 0
      BY <1>4, <3>1
    <3>2. CASE n # 0
      <4>1. n - 1 \in Nat /\ (n - 1) + 1 = n
        BY <3>2
      <4> QED
        BY <1>5, <3>2, <4>1
    <3> QED
      BY <3>1, <3>2
  <2> QED
    BY <2>1 DEF f
<1>7. Power = CHOOSE g : g = Rec(g)
  BY DEF Power
<1> HIDE DEF Rec
<1>8. Power = Rec(Power)
  BY <1>6, <1>7, Zenon
<1>9. \A n \in Nat : n + 1 \in Nat /\ n + 1 # 0 /\ (n + 1) - 1 = n
  OBVIOUS
<1> QED
  BY <1>8, <1>9 DEF Rec

\* The powers are positive.
LEMMA PowerType == \A n \in Nat : Power[n] \in Nat \ {0}
<1> DEFINE S == { n \in Nat : Power[n] \in Nat \ {0} }
<1>1. 0 \in S
  BY PowerDef
<1>2. ASSUME NEW n \in Nat, n \in S PROVE n + 1 \in S
  <2>1. Power[n + 1] = Factor * Power[n] /\ Factor \in Nat \ {0} /\ Power[n] \in Nat \ {0}
    BY <1>2, PowerDef, BackoffAssumption
  <2>2. \A a, b \in Nat \ {0} : a * b \in Nat \ {0}
    OBVIOUS
  <2>3. Power[n + 1] \in Nat \ {0}
    BY <2>1, <2>2
  <2> QED
    BY <2>3
<1> HIDE DEF S
<1>3. \A n \in Nat : n \in S
  BY <1>1, <1>2, AllNumbers
<1> QED
  BY <1>3 DEF S

-----------------------------------------------------------------------------
(* The delays *)

\* No wait that is scheduled reaches the cap, as under the default configuration.
Uncapped == \A n \in Nat : n + 1 < MaxAttempts => BaseDelay * Power[n] <= MaxDelay

\* A wait is about its raw delay, give or take the jitter ratio, rounded to whole units.
LEMMA DelayBand ==
  ASSUME Uncapped, NEW n \in Nat, n + 1 < MaxAttempts, NEW d \in NextDelays(n + 1)
  PROVE  /\ d \in Nat
         /\ BaseDelay * Power[n] \in Nat \ {0}
         /\ (100 - JitterPct) * (BaseDelay * Power[n]) <= 100 * d
         /\ 100 * d <= (100 + JitterPct) * (BaseDelay * Power[n])
<1> DEFINE r == BaseDelay * Power[n]
           b == (r * JitterPct) \div 100
<1>1. r \in Nat \ {0} /\ JitterPct \in 0 .. 99
  <2>1. BaseDelay \in Nat \ {0} /\ Power[n] \in Nat \ {0}
    BY PowerType, BackoffAssumption
  <2>2. \A x, y \in Nat \ {0} : x * y \in Nat \ {0}
    OBVIOUS
  <2> QED
    BY <2>1, <2>2, BackoffAssumption
<1>2. RawDelay(n + 1) = r
  <2>1. n + 1 >= 1 /\ (n + 1) - 1 = n /\ r <= MaxDelay
    BY DEF Uncapped
  <2> HIDE DEF r
  <2>2. BaseDelay * Power[(n + 1) - 1] = r
    BY <2>1 DEF r
  <2> QED
    BY <2>1, <2>2 DEF RawDelay
<1>3. d \in (r - b) .. (r + b) /\ d >= 0
  BY <1>2 DEF NextDelays, Band
<1> HIDE DEF r
<1>4. r * JitterPct \in Nat
  BY <1>1
<1>5. b \in Nat /\ 100 * b <= r * JitterPct
  <2> DEFINE x == r * JitterPct
  <2>1. x \in Nat
    BY <1>4
  <2> HIDE DEF x
  <2>2. x \div 100 \in Nat /\ 100 * (x \div 100) <= x
    BY <2>1
  <2> QED
    BY <2>2 DEF x
<1> HIDE DEF b
<1>6. d \in Nat /\ r - b <= d /\ d <= r + b
  BY <1>1, <1>3, <1>5
<1>7. /\ (100 - JitterPct) * r = 100 * r - r * JitterPct
      /\ (100 + JitterPct) * r = 100 * r + r * JitterPct
  BY <1>1
<1>8. (100 - JitterPct) * r <= 100 * d /\ 100 * d <= (100 + JitterPct) * r
  <2> DEFINE x == r * JitterPct
  <2>1. x \in Nat /\ 100 * b <= x
    BY <1>4, <1>5
  <2>2. (100 - JitterPct) * r = 100 * r - x /\ (100 + JitterPct) * r = 100 * r + x
    BY <1>7
  <2> HIDE DEF x
  <2>3. 100 * r - x <= 100 * d /\ 100 * d <= 100 * r + x
    BY <1>1, <1>5, <1>6, <2>1
  <2> QED
    BY <2>2, <2>3
<1> QED
  BY <1>1, <1>6, <1>8 DEF r

-----------------------------------------------------------------------------
(* Waits grow *)

\* The jitter bands of two retries in a row do not overlap, as under the default
\* configuration.
Disjoint == 100 + JitterPct < Factor * (100 - JitterPct)

\* The last wait was drawn for the attempt that came before it.
WaitFits ==
  /\ attempts \in Nat
  /\ ~isDead => attempts < MaxAttempts
  /\ attempts = 0 => wait = 0
  /\ ~isDead /\ attempts > 0 => wait \in NextDelays(attempts)

LEMMA WaitFitsStep == WaitFits /\ [Next]_vars => WaitFits'
<1> SUFFICES ASSUME WaitFits, [Next]_vars PROVE WaitFits'
  OBVIOUS
<1>0. MaxAttempts \in Nat
  BY BackoffAssumption
<1>1. CASE Retry
  <2>1. /\ attempts' = attempts + 1 /\ wait' \in NextDelays(attempts + 1) /\ isDead' = isDead
        /\ attempts + 1 < MaxAttempts
    BY <1>0, <1>1 DEF Retry, ShouldMarkDead, WaitFits
  <2>2. attempts' \in Nat /\ attempts' # 0 /\ wait' \in NextDelays(attempts')
    BY <2>1 DEF WaitFits
  <2> QED
    BY <2>1, <2>2 DEF WaitFits
<1>2. CASE GiveUp
  BY <1>2 DEF GiveUp, WaitFits
<1>3. CASE UNCHANGED vars
  BY <1>3 DEF vars, WaitFits
<1> QED
  BY <1>1, <1>2, <1>3 DEF Next

\* Where no wait is capped and the bands are apart, each retry waits longer than the one
\* before, whatever the jitter draws: for any base, factor, ratio and number of attempts.
THEOREM RetriesSlowDown ==
  ASSUME Uncapped, Disjoint
  PROVE  Spec => WaitsGrow
<1>1. Init => WaitFits
  BY BackoffAssumption DEF Init, WaitFits
<1>2. ASSUME WaitFits, [Next]_vars
      PROVE  [attempts' > attempts /\ ~isDead' => wait' > wait]_vars
  <2> SUFFICES ASSUME Retry PROVE wait' > wait
    BY <1>2 DEF Next, GiveUp
  <2>1. /\ attempts \in Nat /\ attempts + 1 < MaxAttempts /\ wait' \in NextDelays(attempts + 1)
        /\ ~isDead
    BY <1>2, BackoffAssumption DEF Retry, ShouldMarkDead, WaitFits
  <2> DEFINE r == BaseDelay * Power[attempts]
             J == JitterPct
  <2>2. r \in Nat \ {0} /\ wait' \in Nat /\ (100 - J) * r <= 100 * wait'
    <3>1. PICK d : d = wait'
      OBVIOUS
    <3>2. d \in Nat /\ r \in Nat \ {0} /\ (100 - J) * r <= 100 * d
      BY <2>1, <3>1, DelayBand
    <3> QED
      BY <3>1, <3>2
  <2>3. J \in 0 .. 99 /\ Factor \in Nat \ {0} /\ BaseDelay \in Nat \ {0}
    BY BackoffAssumption
  <2>4. CASE attempts = 0
    <3>1. wait = 0
      BY <1>2, <2>4 DEF WaitFits
    <3> HIDE DEF r, J
    <3>2. (100 - J) * r \in Nat \ {0}
      <4>1. \A x, y \in Nat \ {0} : x * y \in Nat \ {0}
        OBVIOUS
      <4>2. 100 - J \in Nat \ {0}
        BY <2>3
      <4> QED
        BY <2>2, <4>1, <4>2
    <3>3. \A x \in Nat \ {0}, y \in Nat : x <= 100 * y => y > 0
      OBVIOUS
    <3> QED
      BY <2>2, <3>1, <3>2, <3>3
  <2>5. CASE attempts # 0
    <3> DEFINE n == attempts - 1
               q == BaseDelay * Power[n]
    <3>1. n \in Nat /\ n + 1 = attempts /\ n + 1 < MaxAttempts
      BY <2>1, <2>5, BackoffAssumption
    <3>2. wait \in NextDelays(n + 1)
      BY <1>2, <2>1, <2>5, <3>1 DEF WaitFits
    <3>3. q \in Nat \ {0} /\ wait \in Nat /\ 100 * wait <= (100 + J) * q
      BY <3>1, <3>2, DelayBand
    <3>4. r = Factor * q
      <4>1. Power[attempts] = Factor * Power[n]
        BY <3>1, PowerDef
      <4>2. Power[n] \in Nat
        BY <3>1, PowerType
      <4> QED
        BY <2>3, <4>1, <4>2
    <3> HIDE DEF n, q, r
    <3>5. (100 + J) * q < (Factor * (100 - J)) * q
      <4>1. \A x, y \in Nat, z \in Nat \ {0} : x < y => x * z < y * z
        OBVIOUS
      <4>2. 100 + J \in Nat /\ Factor * (100 - J) \in Nat /\ 100 + J < Factor * (100 - J)
        <5>1. 100 - J \in Nat
          BY <2>3
        <5>2. \A x, y \in Nat : x * y \in Nat
          OBVIOUS
        <5> QED
          BY <2>3, <5>1, <5>2 DEF Disjoint
      <4> HIDE DEF J
      <4> QED
        BY <3>3, <4>1, <4>2
    <3>6. (Factor * (100 - J)) * q = (100 - J) * r
      BY <2>3, <3>3, <3>4
    <3> HIDE DEF J
    <3>7. (100 + J) * q \in Int /\ (100 - J) * r \in Int
      BY <2>2, <2>3, <3>3
    <3> QED
      BY <2>2, <3>3, <3>5, <3>6, <3>7
  <2> QED
    BY <2>4, <2>5
<1>3. WaitFits /\ [Next]_vars => [attempts' > attempts /\ ~isDead' => wait' > wait]_vars
  BY <1>2
<1> QED
  BY <1>1, <1>3, WaitFitsStep, PTL DEF Spec, WaitsGrow

-----------------------------------------------------------------------------
(* The whole budget *)

\* A geometric sum grows by its next member.
LEMMA SumGrows ==
  ASSUME NEW B \in Nat, NEW P \in Nat, NEW F \in Nat \ {0}, NEW c \in Nat, NEW e \in Nat, NEW d \in Nat
  PROVE  /\ 100 * (F - 1) * e <= c * (B * (P - 1)) /\ 100 * d <= c * (B * P) =>
              100 * (F - 1) * (e + d) <= c * (B * (F * P - 1))
         /\ c * (B * (P - 1)) <= 100 * (F - 1) * e /\ c * (B * P) <= 100 * d =>
              c * (B * (F * P - 1)) <= 100 * (F - 1) * (e + d)
<1> DEFINE x == c * (B * P)
           y == c * B
           k == F - 1
           m == 100 * k * e
<1>1. x \in Nat /\ y \in Nat /\ k \in Nat /\ m \in Nat
  <2>1. \A i, j \in Nat : i * j \in Nat
    OBVIOUS
  <2>2. k \in Nat /\ B * P \in Nat
    BY <2>1
  <2>3. 100 * k \in Nat
    BY <2>2
  <2> HIDE DEF k
  <2> QED
    BY <2>1, <2>2, <2>3
<1>2. c * (B * (P - 1)) = x - y
  OBVIOUS
<1>3. c * (B * (F * P - 1)) = k * x + (x - y)
  OBVIOUS
<1>4. 100 * (F - 1) * (e + d) = m + k * (100 * d)
  OBVIOUS
<1>5. /\ 100 * d <= x => k * (100 * d) <= k * x
      /\ x <= 100 * d => k * x <= k * (100 * d)
  <2>1. \A i, j, l \in Nat : i <= j => l * i <= l * j
    OBVIOUS
  <2>2. 100 * d \in Nat
    OBVIOUS
  <2> HIDE DEF x, k
  <2> QED
    BY <1>1, <2>1, <2>2
<1> DEFINE s == k * x
           t == k * (100 * d)
<1>6. s \in Int /\ t \in Int
  <2>1. 100 * d \in Nat
    OBVIOUS
  <2> HIDE DEF x, k
  <2> QED
    BY <1>1, <2>1
<1>7. 100 * (F - 1) * e = m
  OBVIOUS
<1> HIDE DEF x, y, k, m, s, t
<1>8. /\ m <= x - y /\ t <= s => m + t <= s + (x - y)
      /\ x - y <= m /\ s <= t => s + (x - y) <= m + t
  BY <1>1, <1>6
<1> QED
  BY <1>2, <1>3, <1>4, <1>5, <1>7, <1>8 DEF s, t

\* The waits that were scheduled so far, and what they add up to before the jitter.
Waits == IF isDead THEN attempts - 1 ELSE attempts
Sum   == BaseDelay * (Power[Waits] - 1)

\* The strengthening of BudgetInBand, for every number of attempts.
BudgetFits ==
  /\ attempts \in Nat
  /\ isDead \in BOOLEAN
  /\ isDead => attempts = MaxAttempts
  /\ ~isDead => attempts < MaxAttempts
  /\ elapsed \in Nat
  /\ (100 - JitterPct) * Sum <= 100 * (Factor - 1) * elapsed
  /\ 100 * (Factor - 1) * elapsed <= (100 + JitterPct) * Sum

LEMMA BudgetFitsInit == Init => BudgetFits
<1> SUFFICES ASSUME Init PROVE BudgetFits
  OBVIOUS
<1>1. attempts = 0 /\ elapsed = 0 /\ isDead = FALSE /\ MaxAttempts \in Nat \ {0}
  BY BackoffAssumption DEF Init
<1>2. Sum = 0
  <2>1. Waits = 0 /\ Power[0] = 1 /\ BaseDelay \in Nat
    BY <1>1, PowerDef, BackoffAssumption DEF Waits
  <2>2. Power[Waits] - 1 = 0
    BY <2>1
  <2> QED
    BY <2>1, <2>2 DEF Sum
<1>3. /\ \A x \in Int : x * 0 = 0
      /\ 100 - JitterPct \in Int /\ 100 + JitterPct \in Int /\ 100 * (Factor - 1) \in Int
  BY BackoffAssumption
<1> DEFINE low == 100 - JitterPct
           high == 100 + JitterPct
           per == 100 * (Factor - 1)
<1> HIDE DEF low, high, per
<1>4. low * Sum = 0 /\ high * Sum = 0 /\ per * elapsed = 0
  BY <1>1, <1>2, <1>3 DEF low, high, per
<1>5. low * Sum <= per * elapsed /\ per * elapsed <= high * Sum
  BY <1>4
<1>6. /\ (100 - JitterPct) * Sum <= 100 * (Factor - 1) * elapsed
      /\ 100 * (Factor - 1) * elapsed <= (100 + JitterPct) * Sum
  BY <1>5 DEF low, high, per
<1>7. /\ attempts \in Nat /\ isDead \in BOOLEAN /\ elapsed \in Nat
      /\ isDead => attempts = MaxAttempts
      /\ ~isDead => attempts < MaxAttempts
  <2>1. ~isDead /\ isDead \in BOOLEAN
    BY <1>1
  <2>2. 0 \in Nat /\ 0 < MaxAttempts
    BY <1>1
  <2> QED
    BY <1>1, <2>1, <2>2, Zenon
<1> QED
  BY <1>6, <1>7 DEF BudgetFits

LEMMA BudgetFitsStep == ASSUME Uncapped, BudgetFits, [Next]_vars PROVE BudgetFits'
<1>1. CASE Retry
  <2>1. /\ attempts' = attempts + 1 /\ wait' \in NextDelays(attempts + 1) /\ ~isDead /\ isDead' = FALSE
        /\ attempts + 1 < MaxAttempts /\ attempts \in Nat /\ elapsed' = elapsed + wait'
    BY <1>1, BackoffAssumption DEF Retry, ShouldMarkDead, BudgetFits
  <2>2. PICK d : d = wait'
    OBVIOUS
  <2> DEFINE P == Power[attempts]
  <2>3. /\ d \in Nat
        /\ (100 - JitterPct) * (BaseDelay * P) <= 100 * d
        /\ 100 * d <= (100 + JitterPct) * (BaseDelay * P)
    BY <2>1, <2>2, DelayBand
  <2>4. Sum = BaseDelay * (P - 1) /\ Sum' = BaseDelay * (Factor * P - 1)
    <3>1. Waits = attempts /\ Waits' = attempts + 1
      BY <2>1 DEF Waits
    <3>2. Power[attempts + 1] = Factor * P
      BY <2>1, PowerDef
    <3> QED
      BY <3>1, <3>2 DEF Sum
  <2>5. /\ BaseDelay \in Nat /\ P \in Nat /\ Factor \in Nat \ {0} /\ elapsed \in Nat
        /\ 100 - JitterPct \in Nat /\ 100 + JitterPct \in Nat
    BY <2>1, PowerType, BackoffAssumption DEF BudgetFits
  <2> HIDE DEF P
  <2>6. /\ (100 - JitterPct) * Sum <= 100 * (Factor - 1) * elapsed
        /\ 100 * (Factor - 1) * elapsed <= (100 + JitterPct) * Sum
    BY DEF BudgetFits
  <2>7. /\ (100 - JitterPct) * Sum' <= 100 * (Factor - 1) * (elapsed + d)
        /\ 100 * (Factor - 1) * (elapsed + d) <= (100 + JitterPct) * Sum'
    <3>1. PICK c1, c2 : c1 = 100 - JitterPct /\ c2 = 100 + JitterPct
      OBVIOUS
    <3>2. /\ c1 * (BaseDelay * (P - 1)) <= 100 * (Factor - 1) * elapsed
          /\ 100 * (Factor - 1) * elapsed <= c2 * (BaseDelay * (P - 1))
          /\ c1 * (BaseDelay * P) <= 100 * d
          /\ 100 * d <= c2 * (BaseDelay * P)
          /\ c1 \in Nat /\ c2 \in Nat
      BY <2>3, <2>4, <2>5, <2>6, <3>1
    <3>3. c1 * (BaseDelay * (Factor * P - 1)) <= 100 * (Factor - 1) * (elapsed + d)
      BY <2>3, <2>5, <3>2, SumGrows
    <3>4. 100 * (Factor - 1) * (elapsed + d) <= c2 * (BaseDelay * (Factor * P - 1))
      BY <2>3, <2>5, <3>2, SumGrows
    <3> QED
      BY <2>4, <3>1, <3>3, <3>4
  <2>8. attempts' \in Nat /\ attempts' < MaxAttempts /\ elapsed' \in Nat /\ elapsed' = elapsed + d
    <3>1. \A x, y \in Nat : x + y \in Nat
      OBVIOUS
    <3>2. attempts + 1 \in Nat /\ elapsed + d \in Nat
      BY <2>1, <2>3, <2>5, <3>1
    <3> QED
      BY <2>1, <2>2, <3>2
  <2>9. /\ (100 - JitterPct) * Sum' <= 100 * (Factor - 1) * elapsed'
        /\ 100 * (Factor - 1) * elapsed' <= (100 + JitterPct) * Sum'
    BY <2>7, <2>8
  <2> QED
    BY <2>1, <2>8, <2>9 DEF BudgetFits
<1>2. CASE GiveUp
  <2>1. /\ attempts' = attempts + 1 /\ elapsed' = elapsed /\ isDead' = TRUE /\ ~isDead
        /\ attempts + 1 >= MaxAttempts /\ attempts < MaxAttempts /\ attempts \in Nat
    BY <1>2 DEF GiveUp, ShouldMarkDead, BudgetFits
  <2>2. attempts' = MaxAttempts /\ Waits' = Waits /\ attempts' \in Nat
    BY <2>1, BackoffAssumption DEF Waits
  <2>3. Sum' = Sum
    BY <2>2 DEF Sum
  <2> QED
    BY <2>1, <2>2, <2>3 DEF BudgetFits
<1>3. CASE UNCHANGED vars
  <2>1. Sum' = Sum
    BY <1>3 DEF vars, Sum, Waits
  <2> QED
    BY <1>3, <2>1 DEF vars, BudgetFits
<1> QED
  BY <1>1, <1>2, <1>3 DEF Next

LEMMA BudgetFitsImplies == BudgetFits => BudgetInBand
<1> SUFFICES ASSUME BudgetFits, isDead PROVE BudgetInBand
  BY DEF BudgetInBand
<1> DEFINE sum == BaseDelay * (Power[MaxAttempts - 1] - 1)
           b == 100 * (Factor - 1) * elapsed
           low == (100 - JitterPct) * sum
           high == (100 + JitterPct) * sum
<1>1. Sum = sum
  BY DEF BudgetFits, Sum, Waits
<1>2. low <= b /\ b <= high
  BY <1>1 DEF BudgetFits
<1>3. low \in Int /\ high \in Int /\ b \in Int
  <2>1. \A i, j \in Int : i * j \in Int
    OBVIOUS
  <2>2. /\ BaseDelay \in Int /\ MaxAttempts - 1 \in Nat /\ Factor - 1 \in Int /\ elapsed \in Int
        /\ 100 - JitterPct \in Int /\ 100 + JitterPct \in Int
    BY BackoffAssumption DEF BudgetFits
  <2>3. Power[MaxAttempts - 1] - 1 \in Int
    BY <2>2, PowerType
  <2>4. sum \in Int
    BY <2>1, <2>2, <2>3
  <2>5. 100 * (Factor - 1) \in Int
    BY <2>2
  <2> HIDE DEF sum
  <2> QED
    BY <2>1, <2>2, <2>4, <2>5
<1>4. b \in low .. high
  <2> HIDE DEF low, high, b
  <2> QED
    BY <1>2, <1>3
<1> QED
  BY <1>4 DEF BudgetInBand

\* Where no wait is capped, an event that fails every delivery is given up after the
\* geometric sum of the waits, give or take the jitter ratio: for any base, factor, ratio
\* and number of attempts.
THEOREM BudgetIsGeometric ==
  ASSUME Uncapped
  PROVE  Spec => []BudgetInBand
<1>1. BudgetFits /\ [Next]_vars => BudgetFits'
  BY BudgetFitsStep
<1> QED
  BY <1>1, BudgetFitsInit, BudgetFitsImplies, PTL DEF Spec

-----------------------------------------------------------------------------
(* The default configuration *)

\* DEFAULT_BACKOFF, in any unit: BaseDelay is 1 in seconds and 1000 in milliseconds.
DefaultBackoff ==
  Factor = 2 /\ MaxDelay = 300 * BaseDelay /\ JitterPct = 20 /\ MaxAttempts = 10

\* Between 408.8 and 613.2 times the base delay, which is one second.
DefaultBudget == isDead => 2044 * BaseDelay <= 5 * elapsed /\ 5 * elapsed <= 3066 * BaseDelay

LEMMA DefaultPowers ==
  ASSUME Factor = 2
  PROVE  /\ Power[0] = 1 /\ Power[1] = 2 /\ Power[2] = 4 /\ Power[3] = 8 /\ Power[4] = 16
         /\ Power[5] = 32 /\ Power[6] = 64 /\ Power[7] = 128 /\ Power[8] = 256 /\ Power[9] = 512
<1>1. Power[0] = 1 /\ \A n \in Nat : Power[n + 1] = 2 * Power[n]
  BY PowerDef
<1>2. Power[0 + 1] = 2 /\ Power[1 + 1] = 4 /\ Power[2 + 1] = 8
  BY <1>1
<1>3. Power[3 + 1] = 16 /\ Power[4 + 1] = 32 /\ Power[5 + 1] = 64
  BY <1>1, <1>2
<1>4. Power[6 + 1] = 128 /\ Power[7 + 1] = 256 /\ Power[8 + 1] = 512
  BY <1>1, <1>3
<1> QED
  BY <1>1, <1>2, <1>3, <1>4

\* The longest wait is 256 times the base, which the cap of 300 does not reach.
LEMMA DefaultFits == ASSUME DefaultBackoff PROVE Uncapped /\ Disjoint
<1>1. ASSUME NEW n \in Nat, n + 1 < 10 PROVE BaseDelay * Power[n] <= 300 * BaseDelay
  <2>1. n \in 0 .. 8
    BY <1>1
  <2>2. Power[n] \in { 1, 2, 4, 8, 16, 32, 64, 128, 256 }
    BY <2>1, DefaultPowers, SMT DEF DefaultBackoff
  <2>3. BaseDelay \in Nat
    BY BackoffAssumption
  <2> QED
    BY <2>2, <2>3, SMT
<1>2. Uncapped
  BY <1>1, SMT DEF DefaultBackoff, Uncapped
<1>3. Disjoint
  BY SMT DEF DefaultBackoff, Disjoint
<1> QED
  BY <1>2, <1>3

LEMMA DefaultBudgetFits == ASSUME DefaultBackoff, BudgetFits PROVE DefaultBudget
<1> SUFFICES ASSUME isDead
             PROVE  2044 * BaseDelay <= 5 * elapsed /\ 5 * elapsed <= 3066 * BaseDelay
  BY Zenon DEF DefaultBudget
<1>1. BaseDelay \in Nat /\ elapsed \in Nat /\ JitterPct = 20 /\ Factor = 2
  BY BackoffAssumption, SMT DEF BudgetFits, DefaultBackoff
<1>2. Sum = BaseDelay * 511
  <2>1. Waits = 9
    BY SMT DEF BudgetFits, Waits, DefaultBackoff
  <2>2. Power[Waits] = 512
    BY <1>1, <2>1, DefaultPowers, SMT
  <2> QED
    BY <2>2, SMT DEF Sum
<1>3. /\ (100 - JitterPct) * Sum <= 100 * (Factor - 1) * elapsed
      /\ 100 * (Factor - 1) * elapsed <= (100 + JitterPct) * Sum
  BY SMT DEF BudgetFits
<1>4. 80 * (BaseDelay * 511) <= 100 * elapsed /\ 100 * elapsed <= 120 * (BaseDelay * 511)
  BY <1>1, <1>2, <1>3, SMT
<1> QED
  BY <1>1, <1>4, SMT

\* With the configuration of the source, an event that fails every delivery is given up
\* after 408.8 to 613.2 seconds, and each retry waits longer than the one before.
THEOREM DefaultsGiveUpInTime ==
  ASSUME DefaultBackoff
  PROVE  Spec => WaitsGrow /\ []DefaultBudget
<1>1. BudgetFits /\ [Next]_vars => BudgetFits'
  BY DefaultFits, BudgetFitsStep
<1>2. BudgetFits => DefaultBudget
  BY DefaultBudgetFits
<1>3. Spec => WaitsGrow
  BY DefaultFits, RetriesSlowDown
<1> QED
  BY <1>1, <1>2, <1>3, BudgetFitsInit, PTL DEF Spec

=============================================================================
