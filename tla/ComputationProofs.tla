-------------------------- MODULE ComputationProofs --------------------------
(*****************************************************************************)
(* Proofs about Retry, for any schedules, any number of attempts and of losses, *)
(* and jitter of any fineness, and about Values, for names and messages of any  *)
(* length, any endpoints, any adapters and routing tables of any length.       *)
(*                                                                           *)
(* Both rest on induction over the naturals, stated here as a fact about a set. *)
(* The delays of Retry are a recursive function: that there is one, and what its *)
(* values are, follows from it; what the jitter adds is arithmetic of products. *)
(* A step of Values is one computation, so that its proof is a lemma for each:  *)
(* what is found first or longest is a least element of a set of places, and    *)
(* that names sort by domains is a fact about tuples of numbers.  Only reading a *)
(* message takes many steps: what is kept is where the rest of the name can be   *)
(* found, here, behind a pointer, or here up to a pointer.                     *)
(*****************************************************************************)
EXTENDS Retry, Values, FiniteSetTheorems, SequenceTheorems,
        WellFoundedInduction, TLAPS

(* Induction, and least elements.                                             *)

\* A set that holds 0 and the successor of each natural it holds has them all.
LEMMA Induction ==
    ASSUME NEW S, 0 \in S, \A n \in Nat : n \in S => n + 1 \in S
    PROVE  Nat \subseteq S
<1> DEFINE T == Nat \ S
<1> SUFFICES ASSUME T # {}
             PROVE  FALSE
  OBVIOUS
<1>1. IsWellFoundedOn(OpToRel(<, Nat), Nat)
  BY NatLessThanWellFounded
<1>2. PICK n \in T : \A m \in T : ~ (<<m, n>> \in OpToRel(<, Nat))
  <2>1. T \subseteq Nat
    OBVIOUS
  <2> HIDE DEF T
  <2> QED
    BY <1>1, <2>1, WFMin
<1>3. \A m \in T : ~(m < n)
  <2> SUFFICES ASSUME NEW m \in T, m < n
               PROVE  FALSE
    OBVIOUS
  <2>1. <<m, n>> \in Nat \X Nat
    OBVIOUS
  <2> QED
    BY <1>2, <2>1 DEF OpToRel
<1>4. n - 1 \in Nat /\ n - 1 < n /\ (n - 1) + 1 = n
  OBVIOUS
<1>5. n - 1 \in S
  BY <1>3, <1>4
<1> QED
  BY <1>4, <1>5

\* A set of naturals that is not empty has a least element.
LEMMA MinOf ==
    ASSUME NEW S \in SUBSET Nat, S # {}
    PROVE  Min(S) \in S /\ \A n \in S : Min(S) <= n
<1>1. IsWellFoundedOn(OpToRel(<, Nat), Nat)
  BY NatLessThanWellFounded
<1>2. PICK m \in S : \A n \in S : ~ (<<n, m>> \in OpToRel(<, Nat))
  BY <1>1, WFMin
<1>3. ASSUME NEW n \in S
      PROVE  m <= n
  <2> SUFFICES ASSUME n < m
               PROVE  FALSE
    OBVIOUS
  <2>1. <<n, m>> \in Nat \X Nat
    OBVIOUS
  <2> QED
    BY <1>2, <2>1 DEF OpToRel
<1> QED
  BY <1>3 DEF Min

\* One that is bounded has a greatest.
LEMMA MaxOf ==
    ASSUME NEW S \in SUBSET Nat, S # {}, NEW k \in Nat, \A n \in S : n <= k
    PROVE  Max(S) \in S /\ \A n \in S : n <= Max(S)
<1> DEFINE T == {k - n : n \in S}
<1>1. T \in SUBSET Nat /\ T # {}
  <2>1. \A n \in S : k - n \in Nat
    OBVIOUS
  <2> QED
    BY <2>1
<1>2. Min(T) \in T /\ \A n \in T : Min(T) <= n
  <2> HIDE DEF T
  <2> QED
    BY <1>1, MinOf
<1>3. PICK m \in S : Min(T) = k - m
  BY <1>2
<1>4. \A n \in S : k - n \in T
  OBVIOUS
<1>5. \A n \in S : m >= n
  <2> SUFFICES ASSUME NEW n \in S
               PROVE  m >= n
    OBVIOUS
  <2>1. m \in Nat /\ n \in Nat /\ k - m <= k - n
    BY <1>2, <1>3, <1>4
  <2> HIDE DEF T
  <2> QED
    BY <2>1
<1> QED
  BY <1>5 DEF Max
-----------------------------------------------------------------------------
(* Retry.                                                                     *)

\* Before the last call every exception was retryable, and each was announced.
Retried ==
    /\ Len(errors) = calls /\ hooks = calls
    /\ \A n \in DOMAIN errors : errors[n] = "retryable"

LoopInv ==
    /\ pc \in {"list", "call", "sleep", "done"}
    /\ delay = 0
    /\ pc \in {"list", "call", "sleep"} => Retried
    /\ pc = "list" => calls = 0
    /\ pc # "list" => Len(delays) = attempts - 1
    /\ pc \in {"call", "sleep"} => calls < attempts

\* The timer's base is the running product, capped.
TimerInv ==
    /\ pc = "armed"
    /\ delays = <<>> /\ errors = <<>> /\ calls = 0 /\ hooks = 0
    /\ current = Least(Grown(schedule)[losses], schedule.max_delay)

RetryInv ==
    /\ TypeOK
    /\ form = "loop" => LoopInv
    /\ form = "timer" => TimerInv
    /\ SameSchedule
    /\ DelaysInRange
    /\ LastErrorSurfaces
-----------------------------------------------------------------------------
(* The function that holds the delays before they are capped.                  *)

\* f is the running product up to n.
Product(f, first, factor, n) ==
    /\ f \in [0..n -> Nat]
    /\ f[0] = first
    /\ \A m \in 1..n : f[m] = f[m - 1] * factor

LEMMA ProductExists ==
    ASSUME NEW first \in Nat, NEW factor \in Nat, NEW n \in Nat
    PROVE  \E f : Product(f, first, factor, n)
<1> DEFINE S == {m \in Nat : \E f : Product(f, first, factor, m)}
<1>1. 0 \in S
  <2>1. Product([m \in 0..0 |-> first], first, factor, 0)
    BY DEF Product
  <2> QED
    BY <2>1
<1>2. ASSUME NEW m \in Nat, m \in S
      PROVE  m + 1 \in S
  <2>1. PICK f : Product(f, first, factor, m)
    BY <1>2
  <2> DEFINE g == [k \in 0..m + 1 |-> IF k = m + 1 THEN f[m] * factor ELSE f[k]]
  <2>2. g \in [0..m + 1 -> Nat]
    <3>1. f[m] * factor \in Nat
      BY <2>1 DEF Product
    <3> QED
      BY <2>1, <3>1 DEF Product
  <2>3. g[0] = first
    BY <2>1 DEF Product
  <2>4. ASSUME NEW k \in 1..m + 1
        PROVE  g[k] = g[k - 1] * factor
    <3>1. CASE k = m + 1
      BY <2>1, <3>1 DEF Product
    <3>2. CASE k # m + 1
      BY <2>1, <3>2 DEF Product
    <3> QED
      BY <3>1, <3>2
  <2> HIDE DEF g
  <2>5. Product(g, first, factor, m + 1)
    BY <2>2, <2>3, <2>4 DEF Product
  <2> QED
    BY <2>5
<1> HIDE DEF S
<1>3. Nat \subseteq S
  BY <1>1, <1>2, Induction
<1> QED
  BY <1>3 DEF S

\* Two running products agree as far as both go.
LEMMA ProductUnique ==
    ASSUME NEW first \in Nat, NEW factor \in Nat, NEW i \in Nat, NEW j \in Nat,
           NEW f, NEW g, Product(f, first, factor, i), Product(g, first, factor, j),
           NEW n \in Nat, n <= i, n <= j
    PROVE  f[n] = g[n]
<1> DEFINE S == {m \in Nat : m <= i /\ m <= j => f[m] = g[m]}
<1>1. 0 \in S
  BY DEF Product
<1>2. ASSUME NEW m \in Nat, m \in S
      PROVE  m + 1 \in S
  <2> SUFFICES ASSUME m + 1 <= i, m + 1 <= j
               PROVE  f[m + 1] = g[m + 1]
    OBVIOUS
  <2>1. f[m] = g[m]
    BY <1>2
  <2>2. m + 1 \in 1..i /\ m + 1 \in 1..j /\ (m + 1) - 1 = m
    OBVIOUS
  <2>3. f[m + 1] = f[m] * factor /\ g[m + 1] = g[m] * factor
    BY <2>2 DEF Product
  <2> QED
    BY <2>1, <2>3
<1> HIDE DEF S
<1>3. Nat \subseteq S
  BY <1>1, <1>2, Induction
<1> QED
  BY <1>3 DEF S

\* The delays before the cap: the first is delay=, each of the others the one before it
\* times multiplier=.
LEMMA GrownDef ==
    ASSUME NEW s \in Schedule
    PROVE  /\ Grown(s) \in [Nat -> Nat]
           /\ Grown(s)[0] = s.delay
           /\ \A n \in Nat : Grown(s)[n + 1] = Grown(s)[n] * s.multiplier
<1>1. s.delay \in Nat /\ s.multiplier \in Nat
  BY DEF Schedule
<1> DEFINE c(n) == CHOOSE f : Product(f, s.delay, s.multiplier, n)
           G == [n \in Nat |-> c(n)[n]]
           Defines(f) == f = [n \in Nat |-> IF n = 0 THEN s.delay
                                            ELSE f[n - 1] * s.multiplier]
<1>2. ASSUME NEW n \in Nat
      PROVE  Product(c(n), s.delay, s.multiplier, n)
  BY <1>1, ProductExists
<1>3. ASSUME NEW n \in Nat
      PROVE  G[n] = c(n)[n] /\ c(n)[n] \in Nat
  <2>1. Product(c(n), s.delay, s.multiplier, n) /\ n \in 0..n
    BY <1>2
  <2>2. G[n] = c(n)[n]
    OBVIOUS
  <2> HIDE DEF c, G
  <2> QED
    BY <2>1, <2>2 DEF Product
<1>4. G[0] = s.delay
  BY <1>2 DEF Product
<1>5. ASSUME NEW n \in Nat
      PROVE  G[n + 1] = G[n] * s.multiplier
  <2>1. /\ n + 1 \in Nat /\ n <= n /\ n <= n + 1
        /\ n + 1 \in 1..n + 1 /\ (n + 1) - 1 = n
    OBVIOUS
  <2>2. Product(c(n), s.delay, s.multiplier, n)
    BY <1>2
  <2>3. Product(c(n + 1), s.delay, s.multiplier, n + 1)
    BY <1>2, <2>1
  <2>4. G[n] = c(n)[n] /\ G[n + 1] = c(n + 1)[n + 1]
    BY <1>3, <2>1
  <2> HIDE DEF c, G
  <2>5. c(n)[n] = c(n + 1)[n]
    BY <1>1, <2>1, <2>2, <2>3, ProductUnique
  <2>6. c(n + 1)[n + 1] = c(n + 1)[n] * s.multiplier
    BY <2>1, <2>3 DEF Product
  <2> QED
    BY <2>4, <2>5, <2>6
<1>6. G \in [Nat -> Nat]
  BY <1>3
<1> HIDE DEF c, G
<1>7. Defines(G)
  <2>1. ASSUME NEW n \in Nat
        PROVE  G[n] = IF n = 0 THEN s.delay ELSE G[n - 1] * s.multiplier
    <3>1. CASE n = 0
      BY <1>4, <3>1
    <3>2. CASE n # 0
      <4>1. n - 1 \in Nat /\ (n - 1) + 1 = n
        BY <3>2
      <4> QED
        BY <1>5, <3>2, <4>1
    <3> QED
      BY <3>1, <3>2
  <2> QED
    BY <1>6, <2>1
<1>8. Defines(Grown(s))
  <2>1. Grown(s) = CHOOSE f : Defines(f)
    BY DEF Grown
  <2> HIDE DEF Defines
  <2> QED
    BY <1>7, <2>1
<1>9. ASSUME NEW f, Defines(f)
      PROVE  f = G
  <2> DEFINE S == {n \in Nat : f[n] = G[n]}
  <2>1. 0 \in S
    BY <1>4, <1>9
  <2>2. ASSUME NEW n \in Nat, n \in S
        PROVE  n + 1 \in S
    <3>1. f[n + 1] = f[n] * s.multiplier
      <4>1. n + 1 \in Nat /\ n + 1 # 0 /\ (n + 1) - 1 = n
        OBVIOUS
      <4> QED
        BY <1>9, <4>1
    <3> QED
      BY <1>5, <2>2, <3>1
  <2> HIDE DEF S
  <2>3. Nat \subseteq S
    BY <2>1, <2>2, Induction
  <2>4. \A n \in Nat : f[n] = G[n]
    BY <2>3 DEF S
  <2>5. f = [n \in Nat |-> f[n]]
    BY <1>9
  <2> HIDE DEF Defines
  <2> QED
    BY <1>6, <2>4, <2>5
<1> HIDE DEF Defines
<1>10. Grown(s) = G
  BY <1>8, <1>9
<1> QED
  BY <1>4, <1>5, <1>6, <1>10
-----------------------------------------------------------------------------
(* The arithmetic of the jitter.                                              *)

LEMMA LargerTimes ==
    ASSUME NEW a \in Int, NEW b \in Int, NEW k \in Nat, a <= b
    PROVE  k * a \in Int /\ k * b \in Int /\ k * a <= k * b
<1>1. k * a \in Int /\ k * b \in Int
  OBVIOUS
<1>2. k * (b - a) >= 0
  OBVIOUS
<1>3. k * (b - a) = k * b - k * a
  OBVIOUS
<1> QED
  BY <1>1, <1>2, <1>3

LEMMA ProductInRange ==
    ASSUME NEW k \in Nat, NEW most \in Nat, k <= most,
           NEW a \in Nat, NEW b \in Nat, a <= b
    PROVE  k * a \in Nat /\ k * a <= most * b
<1>1. k * a \in Nat /\ k * a <= k * b
  BY LargerTimes
<1>2. b * k <= b * most
  BY LargerTimes
<1>3. b * k = k * b /\ b * most = most * b
  OBVIOUS
<1>4. k * b \in Int /\ most * b \in Int
  OBVIOUS
<1> QED
  BY <1>1, <1>2, <1>3, <1>4

\* A draw moves by no more than its amplitude either way.
LEMMA Swing ==
    ASSUME NEW amplitude \in Nat, NEW random \in Random
    PROVE  /\ amplitude * (2 * random - Draws) \in Int
           /\ amplitude * Draws \in Nat
           /\ -(amplitude * Draws) <= amplitude * (2 * random - Draws)
           /\ amplitude * (2 * random - Draws) <= amplitude * Draws
<1>1. Draws \in Nat /\ random \in Nat /\ random < Draws
  BY RetryAssumption DEF Random
<1>2. /\ -Draws \in Int /\ 2 * random - Draws \in Int
      /\ -Draws <= 2 * random - Draws /\ 2 * random - Draws <= Draws
  BY <1>1
<1>3. amplitude * (-Draws) <= amplitude * (2 * random - Draws)
  BY <1>2, LargerTimes
<1>4. amplitude * (2 * random - Draws) <= amplitude * Draws
  BY <1>1, <1>2, LargerTimes
<1>5. amplitude * (-Draws) = -(amplitude * Draws)
  BY <1>1
<1>6. amplitude * Draws \in Nat
  BY <1>1
<1>7. amplitude * (2 * random - Draws) \in Int
  BY <1>2
<1> QED
  BY <1>3, <1>4, <1>5, <1>6, <1>7

LEMMA ScaleType == Scale \in Nat
  BY RetryAssumption DEF Scale

\* What _jittered makes of a delay that is not above the cap.
LEMMA JitteredInRange ==
    ASSUME NEW s \in Schedules, NEW capped \in Nat, capped <= s.max_delay,
           NEW random \in Random
    PROVE  /\ Jittered(s, capped, random) \in Int
           /\ InRange(s, Jittered(s, capped, random))
<1>1. /\ s.max_delay \in Nat /\ s.jitter \in Nat
      /\ s.mode \in {"reducing", "symmetric", "seconds"}
      /\ s.mode # "seconds" => s.jitter <= Parts
  BY RetryAssumption DEF Schedule, Normalised
<1>2. Parts \in Nat /\ Draws \in Nat /\ random \in Nat /\ random < Draws
  BY RetryAssumption DEF Random
<1>3. CASE s.mode = "reducing"
  <2> DEFINE x == Scale - s.jitter * random
  <2>1. s.jitter * random \in Nat /\ s.jitter * random <= Scale
    BY <1>1, <1>2, <1>3, ProductInRange DEF Scale
  <2>2. x \in Nat /\ x <= Scale
    BY <2>1, ScaleType
  <2>3. Jittered(s, capped, random) = capped * x
    BY <1>3 DEF Jittered
  <2> HIDE DEF x
  <2>4. capped * x \in Nat /\ capped * x <= s.max_delay * Scale
    BY <1>1, <2>2, ScaleType, ProductInRange
  <2> QED
    BY <1>3, <2>3, <2>4 DEF InRange
<1>4. CASE s.mode = "symmetric"
  <2> DEFINE y == s.jitter * (2 * random - Draws)
             x == Scale + y
  <2>1. y \in Int /\ s.jitter * Draws \in Nat
        /\ -(s.jitter * Draws) <= y /\ y <= s.jitter * Draws
    BY <1>1, Swing
  <2>2. s.jitter * Draws <= Scale
    BY <1>1, <1>2, <1>4, ProductInRange DEF Scale
  <2>3. Jittered(s, capped, random) = capped * x
    BY <1>4 DEF Jittered
  <2> HIDE DEF y
  <2>4. x \in Nat /\ x <= Scale + s.jitter * Draws /\ Scale + s.jitter * Draws \in Nat
    BY <2>1, <2>2, ScaleType
  <2> HIDE DEF x
  <2>5. capped * x \in Nat /\ capped * x <= s.max_delay * (Scale + s.jitter * Draws)
    BY <1>1, <2>4, ProductInRange
  <2> QED
    BY <1>4, <2>3, <2>5 DEF InRange
<1>5. CASE s.mode = "seconds"
  <2> DEFINE a == Least(s.jitter, capped)
             y == a * (2 * random - Draws)
             x == capped * Draws + y
             top == (s.max_delay + s.jitter) * Draws
  <2>1. a \in Nat /\ a <= capped /\ a <= s.jitter
    BY <1>1 DEF Least
  <2>2. Jittered(s, capped, random) = Parts * x
    BY <1>5 DEF Jittered
  <2> HIDE DEF a
  <2>3. y \in Int /\ a * Draws \in Nat /\ -(a * Draws) <= y /\ y <= a * Draws
    BY <2>1, Swing
  <2> HIDE DEF y
  <2>4. a * Draws <= capped * Draws /\ capped * Draws \in Nat
    BY <1>2, <2>1, ProductInRange
  <2>5. capped + a \in Nat /\ s.max_delay + s.jitter \in Nat
        /\ capped + a <= s.max_delay + s.jitter
    BY <1>1, <2>1
  <2>6. (capped + a) * Draws <= top
    BY <1>2, <2>5, ProductInRange
  <2>7. (capped + a) * Draws = capped * Draws + a * Draws /\ top \in Nat
    BY <1>1, <1>2, <2>1
  <2> HIDE DEF top
  <2>8. x \in Nat /\ x <= top
    BY <2>3, <2>4, <2>6, <2>7
  <2> HIDE DEF x
  <2>9. Parts * x \in Nat /\ Parts * x <= Parts * top
    BY <1>2, <2>7, <2>8, ProductInRange
  <2>10. Parts * top = (s.max_delay + s.jitter) * Scale
    BY <1>1, <1>2 DEF top, Scale
  <2> QED
    BY <1>5, <2>2, <2>9, <2>10 DEF InRange
<1> QED
  BY <1>1, <1>3, <1>4, <1>5

\* What is capped as it grows is what has grown, capped.
LEMMA CapGrows ==
    ASSUME NEW g \in Nat, NEW most \in Nat, NEW factor \in Nat \ {0}
    PROVE  /\ Least(Least(g, most) * factor, most) = Least(g * factor, most)
           /\ Least(g * factor, most) \in 0..most
<1>1. g * factor \in Nat /\ g <= g * factor /\ most * factor \in Nat
      /\ most <= most * factor
  <2>1. \A n \in Nat : n * 1 <= n * factor /\ n * factor \in Nat
    BY ProductInRange
  <2> QED
    BY <2>1
<1>2. CASE g < most
  BY <1>1, <1>2 DEF Least
<1>3. CASE ~(g < most)
  BY <1>1, <1>3 DEF Least
<1> QED
  BY <1>2, <1>3

\* A delay before its jitter is a natural up to the cap.
LEMMA BaseType ==
    ASSUME NEW s \in Schedules, NEW n \in Nat
    PROVE  Base(s, n + 1) = Least(Grown(s)[n], s.max_delay) /\ Base(s, n + 1) \in 0..s.max_delay
<1>1. s \in Schedule /\ s.max_delay \in Nat
  BY RetryAssumption DEF Schedule
<1>2. Grown(s)[n] \in Nat
  BY <1>1, GrownDef
<1>3. (n + 1) - 1 = n
  OBVIOUS
<1>4. Base(s, n + 1) = Least(Grown(s)[n], s.max_delay)
  BY <1>3 DEF Base
<1> QED
  BY <1>1, <1>2, <1>4 DEF Least
-----------------------------------------------------------------------------
(* The steps.                                                                 *)

\* A loop that has drawn its delays goes on.
LEMMA LoopStep ==
    ASSUME RetryInv, form = "loop", Fixed, UNCHANGED <<delays, timerVars>>,
           calls' \in 0..attempts, hooks' \in 0..attempts,
           errors' \in Seq({"retryable", "other"}), result' \in Results,
           LoopInv', LastErrorSurfaces'
    PROVE  RetryInv'
<1>1. TypeOK'
  BY DEF RetryInv, TypeOK, LoopInv, Fixed, timerVars
<1>2. DelaysInRange'
  BY DEF RetryInv, DelaysInRange, Fixed, timerVars
<1> QED
  BY <1>1, <1>2 DEF RetryInv, SameSchedule, Fixed

\* What the timer computes from its base after n losses is a delay of the schedule.
LEMMA TimerDelay ==
    ASSUME NEW s \in Schedules, NEW n \in Nat, NEW random \in Random,
           NEW base, base = Least(Grown(s)[n], s.max_delay),
           NEW d, d = Jittered(s, Least(base, s.max_delay), random)
    PROVE  d \in Int /\ d = Jittered(s, Base(s, n + 1), random) /\ InRange(s, d)
<1>1. base = Base(s, n + 1) /\ base \in 0..s.max_delay /\ s.max_delay \in Nat
  BY BaseType, RetryAssumption DEF Schedule
<1>2. Least(base, s.max_delay) = base
  BY <1>1 DEF Least
<1> QED
  BY <1>1, <1>2, JitteredInRange

LEMMA RetryInitInv == Init => RetryInv
<1> SUFFICES ASSUME Init
             PROVE  RetryInv
  OBVIOUS
<1>1. /\ schedule \in Schedules /\ schedule \in Schedule
      /\ schedule.max_delay \in Nat /\ schedule.delay \in Nat
      /\ schedule.delay <= schedule.max_delay
  BY RetryAssumption DEF Init, Schedule, Normalised
<1>2. current \in 0..schedule.max_delay /\ Least(current, schedule.max_delay) = current
  BY <1>1 DEF Init, Least
<1>3. Retried /\ LastErrorSurfaces
  BY DEF Init, Retried, LastErrorSurfaces
<1>4. CASE form = "loop"
  <2>1. delay = 0
    BY <1>4 DEF Init
  <2>2. TypeOK
    BY <1>1, <1>2, <1>4, <2>1, RetryAssumption DEF Init, TypeOK, Results
  <2>3. LoopInv
    BY <1>3, <1>4, <2>1 DEF Init, LoopInv
  <2>4. InRange(schedule, 0)
    <3>1. PICK random \in Random : TRUE
      BY RetryAssumption DEF Random
    <3>2. Jittered(schedule, 0, random) = 0
      <4>1. schedule.jitter \in Nat /\ schedule.mode \in {"reducing", "symmetric", "seconds"}
        BY <1>1 DEF Schedule
      <4>2. Parts \in Nat /\ Draws \in Nat /\ random \in Nat
        BY RetryAssumption DEF Random
      <4>3. Least(schedule.jitter, 0) = 0
        BY <4>1 DEF Least
      <4>4. CASE schedule.mode = "seconds"
        BY <4>2, <4>3, <4>4 DEF Jittered
      <4>5. CASE schedule.mode = "symmetric"
        BY <4>1, <4>2, <4>5, ScaleType DEF Jittered
      <4>6. CASE schedule.mode = "reducing"
        BY <4>1, <4>2, <4>6, ScaleType DEF Jittered
      <4> QED
        BY <4>1, <4>4, <4>5, <4>6
    <3> QED
      BY <1>1, <3>2, JitteredInRange
  <2>5. DelaysInRange
    BY <2>1, <2>4 DEF Init, DelaysInRange
  <2> QED
    BY <1>3, <1>4, <2>2, <2>3, <2>5 DEF RetryInv, SameSchedule
<1>5. CASE form = "timer"
  <2>1. PICK random \in Random :
            delay = Jittered(schedule, Least(current, schedule.max_delay), random)
    BY <1>5 DEF Init
  <2>2. Grown(schedule)[0] = schedule.delay
    BY <1>1, GrownDef
  <2>3. /\ delay \in Int /\ InRange(schedule, delay)
        /\ delay = Jittered(schedule, Base(schedule, 0 + 1), random)
    BY <1>1, <1>2, <2>1, <2>2, TimerDelay DEF Init
  <2>4. TypeOK
    BY <1>1, <1>2, <1>5, <2>3, RetryAssumption DEF Init, TypeOK, Results
  <2>5. TimerInv /\ SameSchedule
    BY <1>2, <1>5, <2>2, <2>3 DEF Init, TimerInv, SameSchedule
  <2>6. DelaysInRange
    BY <2>3 DEF Init, DelaysInRange
  <2> QED
    BY <1>3, <1>5, <2>4, <2>5, <2>6 DEF RetryInv
<1> QED
  BY <1>4, <1>5 DEF Init

LEMMA ListsInv == ASSUME RetryInv, Lists PROVE RetryInv'
<1>1. /\ pc = "list" /\ pc' = "call" /\ form = "loop"
      /\ UNCHANGED <<form, schedule, attempts, calls, errors, hooks, result, current,
                     losses, delay>>
  BY DEF RetryInv, TypeOK, TimerInv, Lists, Fixed, timerVars
<1>2. TypeOK /\ LoopInv /\ attempts \in Nat /\ attempts >= 1 /\ schedule \in Schedules
  BY <1>1, RetryAssumption DEF RetryInv, TypeOK
<1>3. PICK draws \in [1..attempts - 1 -> Random] :
          delays' = [n \in 1..attempts - 1 |->
                       Jittered(schedule, Base(schedule, n), draws[n])]
  BY DEF Lists
<1>4. ASSUME NEW n \in 1..attempts - 1
      PROVE  delays'[n] \in Int /\ InRange(schedule, delays'[n])
  <2>1. n - 1 \in Nat /\ (n - 1) + 1 = n
    BY <1>2
  <2>2. Base(schedule, n) \in 0..schedule.max_delay
    BY <1>2, <2>1, BaseType
  <2>3. draws[n] \in Random
    BY <1>3
  <2>4. schedule.max_delay \in Nat
    BY <1>2, RetryAssumption DEF Schedule
  <2>5. /\ Jittered(schedule, Base(schedule, n), draws[n]) \in Int
        /\ InRange(schedule, Jittered(schedule, Base(schedule, n), draws[n]))
    BY <1>2, <2>2, <2>3, <2>4, JitteredInRange
  <2> QED
    BY <1>3, <2>5
<1>5. /\ DOMAIN delays' = 1..attempts - 1 /\ attempts - 1 \in Nat
      /\ delays' = [n \in 1..attempts - 1 |-> delays'[n]]
  BY <1>2, <1>3
<1>6. delays' \in Seq(Int) /\ Len(delays') = attempts - 1
  <2>1. delays' \in [1..attempts - 1 -> Int]
    BY <1>4, <1>5
  <2> QED
    BY <1>5, <2>1
<1>7. TypeOK'
  BY <1>1, <1>2, <1>6 DEF TypeOK
<1>8. LoopInv'
  BY <1>1, <1>2, <1>6 DEF LoopInv, Retried
<1>9. DelaysInRange'
  BY <1>1, <1>4, <1>5 DEF RetryInv, DelaysInRange
<1> QED
  BY <1>1, <1>7, <1>8, <1>9 DEF RetryInv, SameSchedule, LastErrorSurfaces

\* A call of func that returns, is retried, or ends the loop.
LEMMA CallsInv ==
    ASSUME RetryInv, Succeeds \/ Propagates \/ Fails \/ Wakes \/ Cancel
    PROVE  RetryInv'
<1>1. pc \in {"call", "sleep"} /\ form = "loop"
  BY DEF RetryInv, TypeOK, TimerInv, Succeeds, Propagates, Fails, Wakes, Cancel
<1>2. TypeOK /\ LoopInv /\ Retried
  BY <1>1 DEF RetryInv, LoopInv
<1>3. /\ attempts \in Nat /\ calls \in Nat /\ calls < attempts /\ hooks = calls
      /\ errors \in Seq({"retryable", "other"}) /\ Len(errors) = calls
      /\ Len(delays) = attempts - 1 /\ result \in Results
  BY <1>1, <1>2 DEF TypeOK, LoopInv, Retried
<1>4. \A n \in 1..calls : errors[n] = "retryable"
  BY <1>2, <1>3 DEF Retried
<1>5. /\ calls + 1 \in 0..attempts /\ hooks \in 0..attempts /\ calls \in 0..attempts
  BY <1>3
<1>6. ASSUME NEW error \in {"retryable", "other"}, errors' = Append(errors, error)
      PROVE  /\ errors' \in Seq({"retryable", "other"}) /\ Len(errors') = calls + 1
             /\ errors'[calls + 1] = error
             /\ \A n \in 1..calls : errors'[n] = "retryable"
  BY <1>3, <1>4, <1>6
<1>7. CASE Succeeds
  <2>1. /\ calls' = calls + 1 /\ pc' = "done" /\ result' = "value"
        /\ Fixed /\ UNCHANGED <<delays, errors, hooks, timerVars>>
    BY <1>7 DEF Succeeds, Leaves
  <2>2. LoopInv'
    BY <1>2, <1>3, <2>1 DEF LoopInv, Fixed, timerVars
  <2>3. LastErrorSurfaces'
    BY <1>3, <1>4, <2>1 DEF LastErrorSurfaces
  <2> QED
    BY <1>1, <1>3, <1>5, <2>1, <2>2, <2>3, LoopStep DEF Results
<1>8. CASE Propagates
  <2>1. /\ calls' = calls + 1 /\ errors' = Append(errors, "other")
        /\ pc' = "done" /\ result' = "raised"
        /\ Fixed /\ UNCHANGED <<delays, hooks, timerVars>>
    BY <1>8 DEF Propagates, Leaves
  <2>2. LoopInv'
    BY <1>2, <1>3, <2>1 DEF LoopInv, Fixed, timerVars
  <2>3. LastErrorSurfaces'
    BY <1>3, <1>6, <2>1 DEF LastErrorSurfaces
  <2> QED
    BY <1>1, <1>5, <1>6, <2>1, <2>2, <2>3, LoopStep DEF Results
<1>9. CASE Fails
  <2>1. /\ calls' = calls + 1 /\ errors' = Append(errors, "retryable")
        /\ Fixed /\ UNCHANGED <<delays, timerVars>>
    BY <1>9 DEF Fails
  <2>2. CASE LastAttempt /\ Leaves("raised") /\ UNCHANGED hooks
    <3>1. calls' = attempts
      BY <1>3, <2>1, <2>2 DEF LastAttempt
    <3>2. pc' = "done" /\ result' = "raised"
      BY <2>2 DEF Leaves
    <3>3. LoopInv'
      BY <1>2, <1>3, <2>1, <3>2 DEF LoopInv, Fixed, timerVars
    <3>4. LastErrorSurfaces'
      BY <1>3, <1>6, <2>1, <2>2, <3>1, <3>2 DEF LastErrorSurfaces, Fixed
    <3> QED
      BY <1>1, <1>5, <1>6, <2>1, <2>2, <3>2, <3>3, <3>4, LoopStep DEF Results
  <2>3. CASE ~LastAttempt /\ hooks' = hooks + 1
    <3>1. calls' < attempts /\ hooks' = calls' /\ hooks' \in 0..attempts
      BY <1>3, <2>1, <2>3 DEF LastAttempt
    <3>2. CASE Leaves("hook")
      <4>1. pc' = "done" /\ result' = "hook"
        BY <3>2 DEF Leaves
      <4>2. LoopInv'
        BY <1>2, <1>3, <2>1, <4>1 DEF LoopInv, Fixed, timerVars
      <4>3. LastErrorSurfaces'
        BY <1>3, <1>6, <2>1, <3>1, <4>1 DEF LastErrorSurfaces, Fixed
      <4> QED
        BY <1>1, <1>5, <1>6, <2>1, <3>1, <4>1, <4>2, <4>3, LoopStep DEF Results
    <3>3. CASE pc' \in {"call", "sleep"} /\ UNCHANGED result
      <4>1. Retried'
        <5>1. DOMAIN errors' = 1..calls + 1
          BY <1>6, <2>1
        <5>2. \A n \in 1..calls + 1 : errors'[n] = "retryable"
          BY <1>3, <1>6, <2>1
        <5> QED
          BY <1>6, <2>1, <3>1, <5>1, <5>2 DEF Retried
      <4>2. LoopInv'
        BY <1>2, <1>3, <2>1, <3>1, <3>3, <4>1 DEF LoopInv, Fixed, timerVars
      <4>3. LastErrorSurfaces'
        BY <3>3 DEF LastErrorSurfaces
      <4> QED
        BY <1>1, <1>3, <1>5, <1>6, <2>1, <3>1, <3>3, <4>2, <4>3, LoopStep
    <3> QED
      BY <1>9, <2>3, <3>2, <3>3 DEF Fails
  <2> QED
    BY <1>9, <2>2, <2>3 DEF Fails
<1>10. CASE Wakes
  <2>1. pc' = "call" /\ Fixed /\ UNCHANGED <<delays, calls, errors, hooks, result, timerVars>>
    BY <1>10 DEF Wakes, loopVars
  <2>2. LoopInv'
    BY <1>1, <1>2, <2>1 DEF LoopInv, Retried, Fixed, timerVars
  <2>3. LastErrorSurfaces'
    BY <2>1 DEF LastErrorSurfaces
  <2> QED
    BY <1>1, <1>3, <1>5, <2>1, <2>2, <2>3, LoopStep
<1>11. CASE Cancel
  <2>1. /\ calls' \in {calls, calls + 1} /\ pc' = "done" /\ result' = "cancelled"
        /\ Fixed /\ UNCHANGED <<delays, errors, hooks, timerVars>>
    BY <1>11 DEF Cancel, Leaves
  <2>2. LoopInv'
    BY <1>1, <1>2, <1>3, <2>1 DEF LoopInv, Fixed, timerVars
  <2>3. LastErrorSurfaces'
    BY <1>3, <1>4, <2>1 DEF LastErrorSurfaces
  <2> QED
    BY <1>1, <1>3, <1>5, <2>1, <2>2, <2>3, LoopStep DEF Results
<1> QED
  BY <1>7, <1>8, <1>9, <1>10, <1>11

\* The timer backs off or starts over.
LEMMA TimerMoves ==
    ASSUME RetryInv, pc = "armed", Fixed, UNCHANGED <<pc, loopVars>>, Computes,
           losses' \in 0..MaxLosses,
           current' = Least(Grown(schedule)[losses'], schedule.max_delay)
    PROVE  RetryInv'
<1>1. form = "timer"
  BY DEF RetryInv, TypeOK, LoopInv
<1>2. /\ TypeOK /\ TimerInv /\ schedule \in Schedules /\ schedule.max_delay \in Nat
      /\ UNCHANGED <<form, schedule, attempts, pc, delays, calls, errors, hooks, result>>
  BY <1>1, RetryAssumption DEF RetryInv, TypeOK, Schedule, Fixed, loopVars
<1>3. losses' \in Nat
  BY RetryAssumption
<1>4. current' \in 0..schedule.max_delay
  BY <1>2, <1>3, BaseType
<1>5. PICK random \in Random :
          delay' = Jittered(schedule, Least(current', schedule.max_delay), random)
  BY DEF Computes
<1>6. /\ delay' \in Int /\ InRange(schedule, delay')
      /\ delay' = Jittered(schedule, Base(schedule, losses' + 1), random)
  BY <1>2, <1>3, <1>5, TimerDelay
<1>7. TypeOK'
  BY <1>2, <1>4, <1>6 DEF TypeOK
<1>8. TimerInv' /\ SameSchedule'
  BY <1>2, <1>6 DEF TimerInv, SameSchedule
<1>9. DelaysInRange'
  BY <1>2, <1>6 DEF RetryInv, DelaysInRange
<1> QED
  BY <1>1, <1>2, <1>7, <1>8, <1>9 DEF RetryInv, LastErrorSurfaces

LEMMA AdvanceInv == ASSUME RetryInv, Advance PROVE RetryInv'
<1>1. form = "timer" /\ pc = "armed"
  BY DEF RetryInv, TypeOK, LoopInv, Advance
<1>2. /\ TimerInv /\ losses \in Nat /\ losses + 1 \in 0..MaxLosses
      /\ schedule \in Schedule /\ schedule.max_delay \in Nat
      /\ schedule.multiplier \in Nat \ {0}
  BY <1>1, RetryAssumption DEF RetryInv, TypeOK, Schedule, Advance
<1>3. /\ Grown(schedule)[losses] \in Nat
      /\ Grown(schedule)[losses + 1] = Grown(schedule)[losses] * schedule.multiplier
  BY <1>2, GrownDef
<1>4. current' = Least(Grown(schedule)[losses + 1], schedule.max_delay)
  <2>1. /\ current = Least(Grown(schedule)[losses], schedule.max_delay)
        /\ current' = Least(current * schedule.multiplier, schedule.max_delay)
    BY <1>2 DEF Advance, TimerInv
  <2>2. PICK g \in Nat, most \in Nat, factor \in Nat \ {0} :
            /\ g = Grown(schedule)[losses] /\ most = schedule.max_delay
            /\ factor = schedule.multiplier
    BY <1>2, <1>3
  <2>3. Least(Least(g, most) * factor, most) = Least(g * factor, most)
    BY CapGrows
  <2> QED
    BY ONLY <1>3, <2>1, <2>2, <2>3
<1> QED
  BY <1>1, <1>2, <1>4, TimerMoves DEF Advance

LEMMA ResetInv == ASSUME RetryInv, Reset PROVE RetryInv'
<1>1. /\ schedule \in Schedule /\ schedule.max_delay \in Nat /\ schedule.delay \in Nat
      /\ schedule.delay <= schedule.max_delay
  BY RetryAssumption DEF RetryInv, TypeOK, Schedule, Normalised
<1>2. Grown(schedule)[0] = schedule.delay
  BY <1>1, GrownDef
<1>3. schedule.delay = Least(Grown(schedule)[0], schedule.max_delay)
  BY <1>1, <1>2 DEF Least
<1>4. losses' = 0 /\ 0 \in 0..MaxLosses
  BY RetryAssumption DEF Reset
<1> QED
  BY <1>3, <1>4, TimerMoves DEF Reset
-----------------------------------------------------------------------------
\* The inductive invariant: the base of the timer is the running product, capped, and
\* what the loop has called, announced and collected go together.
THEOREM RetryInvariance == Spec => []RetryInv
<1>1. Init => RetryInv
  BY RetryInitInv
<1>2. RetryInv /\ [Next]_vars => RetryInv'
  <2> SUFFICES ASSUME RetryInv, [Next]_vars
               PROVE  RetryInv'
    OBVIOUS
  <2>1. CASE Lists
    BY <2>1, ListsInv
  <2>2. CASE Succeeds \/ Propagates \/ Fails \/ Wakes \/ Cancel
    BY <2>2, CallsInv
  <2>3. CASE Advance
    BY <2>3, AdvanceInv
  <2>4. CASE Reset
    BY <2>4, ResetInv
  <2>5. CASE UNCHANGED vars
    BY <2>5 DEF vars, loopVars, timerVars, RetryInv, TypeOK, LoopInv, TimerInv, Retried,
                SameSchedule, DelaysInRange, LastErrorSurfaces
  <2> QED
    BY <2>1, <2>2, <2>3, <2>4, <2>5 DEF Next, Loop
<1> QED
  BY <1>1, <1>2, PTL DEF Spec

\* Type correctness.
THEOREM RetryTypeCorrectness == Spec => []TypeOK
<1>1. RetryInv => TypeOK
  BY DEF RetryInv
<1> QED
  BY <1>1, RetryInvariance, PTL

\* Backoff waits as long as backoff_delays would, after any number of losses and resets:
\* capping as one multiplies gives what capping the product does.
THEOREM OneSchedule == Spec => []SameSchedule
<1>1. RetryInv => SameSchedule
  BY DEF RetryInv
<1> QED
  BY <1>1, RetryInvariance, PTL

\* No jitter makes a delay negative or takes it further above max_delay than its
\* amplitude, for any draw.
THEOREM JitterIsBounded == Spec => []DelaysInRange
<1>1. RetryInv => DelaysInRange
  BY DEF RetryInv
<1> QED
  BY <1>1, RetryInvariance, PTL

\* retry and aretry surface the last exception, after as many calls and calls of on_retry
\* as it takes.
THEOREM LastExceptionWins == Spec => []LastErrorSurfaces
<1>1. RetryInv => LastErrorSurfaces
  BY DEF RetryInv
<1> QED
  BY <1>1, RetryInvariance, PTL
-----------------------------------------------------------------------------
(* Routing: the row found is the one the kernel takes.                        *)

\* Of rows that are not none, one is the longest, and first of those as long.
LEMMA LongestExists ==
    ASSUME NEW table \in Seq(Row), NEW rows \in SUBSET DOMAIN table, rows # {}
    PROVE  \E i \in rows : \A j \in rows \ {i} :
              \/ table[i].length > table[j].length
              \/ table[i].length = table[j].length /\ i < j
<1> DEFINE lengths == {table[i].length : i \in rows}
           longest == {i \in rows : table[i].length = Max(lengths)}
<1>1. \A i \in rows : i \in Nat /\ table[i].length \in Nat /\ table[i].length <= Bits
  <2> SUFFICES ASSUME NEW i \in rows
               PROVE  i \in Nat /\ table[i].length \in Nat /\ table[i].length <= Bits
    OBVIOUS
  <2>1. i \in Nat /\ table[i] \in Row
    OBVIOUS
  <2>2. table[i].length \in 0..Bits
    BY <2>1 DEF Row
  <2> QED
    BY <2>1, <2>2, SelectionAssumption
<1>2. lengths \in SUBSET Nat /\ lengths # {} /\ (\A l \in lengths : l <= Bits) /\ Bits \in Nat
  BY <1>1, SelectionAssumption
<1>3. Max(lengths) \in lengths /\ \A l \in lengths : l <= Max(lengths)
  <2> HIDE DEF lengths
  <2> QED
    BY <1>2, MaxOf
<1>4. longest \in SUBSET Nat /\ longest # {}
  BY <1>1, <1>3
<1>5. Min(longest) \in longest /\ \A i \in longest : Min(longest) <= i
  <2> HIDE DEF longest
  <2> QED
    BY <1>4, MinOf
<1>6. PICK m : m = Min(longest)
  OBVIOUS
<1>7. m \in rows /\ table[m].length = Max(lengths)
  BY <1>5, <1>6
<1>8. ASSUME NEW j \in rows \ {m}
      PROVE  \/ table[m].length > table[j].length
             \/ table[m].length = table[j].length /\ m < j
  <2>1. table[j].length <= Max(lengths)
    BY <1>3
  <2>2. table[j].length = Max(lengths) => m <= j /\ m # j
    BY <1>5, <1>6
  <2>3. m \in Nat /\ j \in Nat /\ table[m].length \in Nat /\ table[j].length \in Nat
    BY <1>1, <1>7
  <2> HIDE DEF lengths, longest
  <2> QED
    BY <1>7, <2>1, <2>2, <2>3
<1> QED
  BY <1>7, <1>8

\* Row i goes before row j.
Better(table, i, j) ==
    \/ table[i].length > table[j].length
    \/ table[i].length = table[j].length /\ i < j

LEMMA RowType ==
    ASSUME NEW table \in Seq(Row), NEW i \in DOMAIN table
    PROVE  /\ i \in Nat /\ table[i] \in Row /\ table[i] # Unknowable
           /\ table[i].length \in Nat /\ table[i].up \in BOOLEAN /\ table[i].reject \in BOOLEAN
<1>1. i \in Nat /\ table[i] \in Row
  OBVIOUS
<1>2. table[i].length \in 0..Bits /\ table[i].up \in BOOLEAN /\ table[i].reject \in BOOLEAN
  BY <1>1 DEF Row
<1>3. table[i].length \in Nat
  BY <1>2, SelectionAssumption
<1>4. DOMAIN table[i] # DOMAIN Unknowable
  BY <1>1 DEF Row, Unknowable
<1> QED
  BY <1>1, <1>2, <1>3, <1>4

\* A row that is better than every other is the one Best takes.
LEMMA BestIs ==
    ASSUME NEW table \in Seq(Row), NEW usable \in SUBSET DOMAIN table, NEW n,
           NEW k \in usable, Covers(table[k], n),
           \A j \in usable \ {k} : Covers(table[j], n) => Better(table, k, j)
    PROVE  Best(table, usable, n) = table[k]
<1> DEFINE covering == {i \in usable : Covers(table[i], n)}
           c == CHOOSE i \in covering : \A j \in covering \ {i} : Better(table, i, j)
<1>1. k \in covering /\ \A j \in covering \ {k} : Better(table, k, j)
  OBVIOUS
<1>2. c \in covering /\ \A j \in covering \ {c} : Better(table, c, j)
  <2> HIDE DEF covering
  <2> QED
    BY <1>1
<1>3. c \in DOMAIN table /\ k \in DOMAIN table
  BY <1>2
<1>4. /\ c \in Nat /\ k \in Nat
      /\ table[c].length \in Nat /\ table[k].length \in Nat
  <2> HIDE DEF c
  <2> QED
    BY <1>3, RowType
<1>5. c = k
  <2> SUFFICES ASSUME c # k
               PROVE  FALSE
    OBVIOUS
  <2>1. Better(table, c, k) /\ Better(table, k, c)
    BY <1>1, <1>2
  <2> HIDE DEF c
  <2> QED
    BY <1>4, <2>1 DEF Better
<1>6. Best(table, usable, n) = table[c]
  BY <1>1 DEF Best, Better
<1> QED
  BY <1>5, <1>6

\* The row the kernel takes is usable, and better than every other usable one.
LEMMA KernelTakes ==
    ASSUME NEW table \in Seq(Row), NEW n,
           \E i \in DOMAIN table : table[i].up /\ Covers(table[i], n)
    PROVE  \E k \in DOMAIN table :
              /\ KernelRow(table, n) = table[k] /\ table[k].up /\ Covers(table[k], n)
              /\ \A j \in DOMAIN table \ {k} :
                    table[j].up /\ Covers(table[j], n) => Better(table, k, j)
<1> DEFINE rows == {i \in DOMAIN table : table[i].up /\ Covers(table[i], n)}
           longest == {i \in rows : \A j \in rows : table[j].length <= table[i].length}
<1>1. rows \in SUBSET DOMAIN table /\ rows # {}
  OBVIOUS
<1>2. KernelRow(table, n) = table[Min(longest)]
  BY <1>1 DEF KernelRow
<1>3. \A i \in rows : i \in Nat /\ table[i].length \in Nat
  BY RowType
<1>4. longest \in SUBSET Nat /\ longest # {}
  <2>1. PICK i \in rows : \A j \in rows \ {i} : Better(table, i, j)
    <3> HIDE DEF rows
    <3> QED
      BY <1>1, LongestExists DEF Better
  <2>2. \A j \in rows : table[j].length <= table[i].length
    <3> HIDE DEF rows
    <3> QED
      BY <1>3, <2>1 DEF Better
  <2> QED
    BY <1>3, <2>2
<1>5. Min(longest) \in longest /\ \A i \in longest : Min(longest) <= i
  <2> HIDE DEF longest
  <2> QED
    BY <1>4, MinOf
<1>6. PICK k : k = Min(longest)
  OBVIOUS
<1>7. k \in rows /\ \A j \in rows : table[j].length <= table[k].length
  BY <1>5, <1>6
<1>8. ASSUME NEW j \in rows \ {k}
      PROVE  Better(table, k, j)
  <2>1. /\ k \in Nat /\ j \in Nat /\ table[k].length \in Nat /\ table[j].length \in Nat
        /\ table[j].length <= table[k].length
    BY <1>3, <1>7
  <2>2. CASE table[j].length = table[k].length
    <3>1. j \in longest
      BY <1>7, <2>2
    <3>2. k <= j /\ k # j
      BY <1>5, <1>6, <3>1
    <3> QED
      BY <2>1, <2>2, <3>2 DEF Better
  <2>3. CASE table[j].length # table[k].length
    BY <2>1, <2>3 DEF Better
  <2> QED
    BY <2>2, <2>3
<1> QED
  BY <1>2, <1>6, <1>7, <1>8

\* Searching the rows that are up, but for some the kernel rejects with, finds the row
\* the kernel would take unless it rejects with it.
LEMMA SearchAgrees ==
    ASSUME NEW table \in Seq(Row), NEW n, NEW usable \in SUBSET DOMAIN table,
           \A i \in usable : table[i].up,
           \A i \in DOMAIN table : table[i].up /\ ~table[i].reject => i \in usable
    PROVE  LET row == KernelRow(table, n)
           IN  /\ row = Unknowable => Best(table, usable, n) = Unknowable
               /\ row # Unknowable /\ ~row.reject => Best(table, usable, n) = row
<1>1. CASE \E i \in DOMAIN table : table[i].up /\ Covers(table[i], n)
  <2>1. PICK k \in DOMAIN table :
              /\ KernelRow(table, n) = table[k] /\ table[k].up /\ Covers(table[k], n)
              /\ \A j \in DOMAIN table \ {k} :
                    table[j].up /\ Covers(table[j], n) => Better(table, k, j)
    BY <1>1, KernelTakes
  <2>2. KernelRow(table, n) # Unknowable
    BY <2>1, RowType
  <2>3. ASSUME ~table[k].reject
        PROVE  Best(table, usable, n) = table[k]
    <3>1. k \in usable
      BY <2>1, <2>3
    <3> QED
      BY <2>1, <3>1, BestIs
  <2> QED
    BY <2>1, <2>2, <2>3
<1>2. CASE ~\E i \in DOMAIN table : table[i].up /\ Covers(table[i], n)
  BY <1>2 DEF KernelRow, Best
<1> QED
  BY <1>1, <1>2

\* What the invariant keeps of a destination, and the route found for it.
IsDestination(d) ==
    /\ d.table \in Seq(Row)
    /\ d.address.v6 \/ \A i \in DOMAIN d.table : d.table[i].up
    /\ d.system \in {"linux", "bsd", "windows"} /\ d.resolved \in BOOLEAN

RouteOf(d) ==
    GetRoute(d.system, d.table, d.resolved, d.address, d.loopbackAdapter)

\* Where the table is looked at, the route is the kernel's, or there is none.
LEMMA RouteFound ==
    ASSUME NEW d, IsDestination(d), d.resolved,
           \/ d.address.n \notin Loopback \/ d.system = "windows"
           \/ d.system = "linux" /\ d.address.v6
    PROVE  LET row == KernelRow(d.table, d.address.n)
               found == RouteOf(d)
           IN  /\ row = Unknowable => found.onLink = "unknown"
               /\ row # Unknowable /\ ~row.reject =>
                    /\ found.gateway = row.gateway
                    /\ found.index = IndexOf[row.adapter]
                    /\ found.onLink = IF row.gateway = 0 THEN "yes" ELSE "no"
<1> DEFINE row == KernelRow(d.table, d.address.n)
           hop == [gateway |-> row.gateway, index |-> IndexOf[row.adapter]]
           answer ==
              CASE d.system = "windows" -> AskedNextHop(d.table, d.address.n)
                [] d.system = "bsd" -> BsdNextHop(d.table, d.address.n)
                [] d.system = "linux" ->
                     IF d.address.v6 THEN PosixNextHopV6(d.table, d.address.n)
                     ELSE PosixNextHop(d.table, d.address.n, d.loopbackAdapter)
<1>1. hop # Unknowable
  <2>1. DOMAIN hop # DOMAIN Unknowable
    BY DEF Unknowable
  <2> QED
    BY <2>1
<1>2. /\ row = Unknowable => answer = Unknowable
      /\ row # Unknowable /\ ~row.reject => answer = hop
  <2>1. CASE d.system = "windows"
    BY <2>1 DEF AskedNextHop, Hop
  <2>2. CASE d.system = "bsd"
    BY <2>2 DEF BsdNextHop, AskedNextHop, Hop
  <2>3. CASE d.system = "linux" /\ d.address.v6
    <3> DEFINE usable == {i \in DOMAIN d.table : d.table[i].up /\ ~d.table[i].reject}
    <3>1. /\ row = Unknowable => Best(d.table, usable, d.address.n) = Unknowable
          /\ row # Unknowable /\ ~row.reject => Best(d.table, usable, d.address.n) = row
      BY SearchAgrees DEF IsDestination
    <3>2. answer = Hop(Best(d.table, usable, d.address.n))
      BY <2>3 DEF PosixNextHopV6
    <3> QED
      BY <3>1, <3>2 DEF Hop
  <2>4. CASE d.system = "linux" /\ ~d.address.v6
    <3>1. /\ row = Unknowable => Best(d.table, DOMAIN d.table, d.address.n) = Unknowable
          /\ row # Unknowable /\ ~row.reject =>
                Best(d.table, DOMAIN d.table, d.address.n) = row
      BY <2>4, SearchAgrees DEF IsDestination
    <3>2. answer = Hop(Best(d.table, DOMAIN d.table, d.address.n))
      BY <2>4 DEF PosixNextHop
    <3> QED
      BY <3>1, <3>2 DEF Hop
  <2> QED
    BY <2>1, <2>2, <2>3, <2>4 DEF IsDestination
<1> DEFINE asked == IF ~d.resolved THEN Unknowable ELSE answer
<1>3. RouteOf(d) =
        IF asked = Unknowable
        THEN [gateway |-> 0, index |-> 0, onLink |-> "unknown"]
        ELSE [gateway |-> asked.gateway, index |-> asked.index,
              onLink |-> IF asked.gateway = 0 THEN "yes" ELSE "no"]
  BY Zenon DEF RouteOf, GetRoute
<1> HIDE DEF answer
<1>4. asked = answer
  OBVIOUS
<1> HIDE DEF row, asked
<1> QED
  BY <1>1, <1>2, <1>3, <1>4 DEF row

\* A name that does not resolve has no route; the loopback addresses have one
\* by definition, without a look at the table.
LEMMA RouteWithoutTable ==
    ASSUME NEW d, IsDestination(d)
    PROVE  /\ ~d.resolved => RouteOf(d).onLink = "unknown"
           /\ /\ d.resolved /\ d.address.n \in Loopback
              /\ d.system = "bsd" \/ (d.system = "linux" /\ ~d.address.v6)
              => RouteOf(d).onLink = "yes"
<1>1. ASSUME ~d.resolved
      PROVE  RouteOf(d).onLink = "unknown"
  <2>1. RouteOf(d) = [gateway |-> 0, index |-> 0, onLink |-> "unknown"]
    BY <1>1 DEF RouteOf, GetRoute
  <2> QED
    BY <2>1
<1>2. ASSUME d.resolved, d.address.n \in Loopback,
             d.system = "bsd" \/ (d.system = "linux" /\ ~d.address.v6)
      PROVE  RouteOf(d).onLink = "yes"
  <2>1. PICK index : index = IF d.system = "bsd" THEN 0 ELSE IndexOf[d.loopbackAdapter]
    OBVIOUS
  <2>2. PICK hop : hop = [gateway |-> 0, index |-> index]
    OBVIOUS
  <2>3. hop.gateway = 0 /\ DOMAIN hop # DOMAIN Unknowable
    BY <2>2 DEF Unknowable
  <2>4. CASE d.system = "bsd"
    <3>1. BsdNextHop(d.table, d.address.n) = hop
      BY <1>2, <2>1, <2>2, <2>4 DEF BsdNextHop
    <3>2. RouteOf(d) = [gateway |-> hop.gateway, index |-> hop.index,
                        onLink |-> IF hop.gateway = 0 THEN "yes" ELSE "no"]
      BY <1>2, <2>3, <2>4, <3>1 DEF RouteOf, GetRoute
    <3> QED
      BY <2>3, <3>2
  <2>5. CASE d.system = "linux" /\ ~d.address.v6
    <3>1. PosixNextHop(d.table, d.address.n, d.loopbackAdapter) = hop
      BY <1>2, <2>1, <2>2, <2>5 DEF PosixNextHop
    <3>2. RouteOf(d) = [gateway |-> hop.gateway, index |-> hop.index,
                        onLink |-> IF hop.gateway = 0 THEN "yes" ELSE "no"]
      BY <1>2, <2>3, <2>5, <3>1 DEF RouteOf, GetRoute
    <3> QED
      BY <2>3, <3>2
  <2> QED
    BY <1>2, <2>4, <2>5
<1> QED
  BY <1>1, <1>2
-----------------------------------------------------------------------------
(* HostText: what is joined is split again.                                   *)

\* A part of a sequence is the sequence with its elements.
LEMMA SubSeqIs ==
    ASSUME NEW S, NEW s \in Seq(S), NEW m \in Nat \ {0}, NEW n \in Nat, n <= Len(s),
           NEW t \in Seq(S), Len(t) = n - m + 1,
           \A i \in 1..Len(t) : t[i] = s[m + i - 1]
    PROVE  SubSeq(s, m, n) = t
<1>1. \A i \in m..n : s[i] \in S
  OBVIOUS
<1>2. n - m + 1 >= 0
  OBVIOUS
<1>3. PICK u : u = SubSeq(s, m, n)
  OBVIOUS
<1>4. /\ u \in Seq(S) /\ Len(u) = Len(t)
      /\ \A i \in 1..Len(t) : u[i] = s[m + i - 1]
  BY <1>1, <1>2, <1>3, SubSeqProperties
<1> QED
  BY <1>3, <1>4, SeqEqual

\* What texts are made of, and the names among them.
Tokens == {"[", "]", ":", "name", "v6", "port", "big"}
Plain == {"name", "port", "big"}

\* s and t with a mark between them, the first.
Marked(text, s, mark, t) ==
    /\ s \in Seq(Tokens) /\ t \in Seq(Tokens) /\ mark \in Tokens
    /\ \A i \in DOMAIN s : s[i] # mark
    /\ text = s \o (<<mark>> \o t)

\* What is before the first mark, and what is after it.
LEMMA MarkFound ==
    ASSUME NEW text, NEW s, NEW mark, NEW t, Marked(text, s, mark, t)
    PROVE  /\ Contains(text, mark)
           /\ Upto(text, mark) = s /\ After(text, mark) = t
<1> DEFINE places == {i \in DOMAIN text : text[i] = mark}
<1>1. /\ s \in Seq(Tokens) /\ t \in Seq(Tokens) /\ mark \in Tokens
      /\ <<mark>> \o t \in Seq(Tokens) /\ text \in Seq(Tokens)
      /\ text = s \o (<<mark>> \o t) /\ \A i \in DOMAIN s : s[i] # mark
  BY DEF Marked
<1>2. Len(<<mark>> \o t) = 1 + Len(t) /\ Len(text) = Len(s) + 1 + Len(t)
      /\ Len(s) \in Nat /\ Len(t) \in Nat
  BY <1>1
<1>3. \A i \in 1..Len(s) : text[i] = s[i] /\ text[i] # mark
  BY <1>1, <1>2
<1>4. text[Len(s) + 1] = mark
  BY <1>1, <1>2
<1>5. \A i \in 1..Len(t) : text[Len(s) + 1 + i] = t[i]
  BY <1>1, <1>2
<1>6. places \in SUBSET Nat /\ Len(s) + 1 \in places
  BY <1>1, <1>2, <1>4
<1>7. \A i \in places : Len(s) + 1 <= i
  BY <1>1, <1>2, <1>3
<1>8. Place(text, mark) = Len(s) + 1
  <2>1. Min(places) \in places /\ \A i \in places : Min(places) <= i
    <3> HIDE DEF places
    <3> QED
      BY <1>6, MinOf
  <2>2. Min(places) = Len(s) + 1
    <3>1. Min(places) <= Len(s) + 1 /\ Len(s) + 1 <= Min(places) /\ Min(places) \in Nat
      BY <1>6, <1>7, <2>1
    <3> HIDE DEF places
    <3> QED
      BY <1>2, <3>1
  <2> QED
    BY <2>2 DEF Place
<1>9. Upto(text, mark) = s
  <2>1. SubSeq(text, 1, Len(s)) = s
    BY <1>1, <1>2, <1>3, SubSeqIs
  <2> QED
    BY <1>2, <1>8, <2>1 DEF Upto
<1>10. After(text, mark) = t
  <2>1. PICK n \in Nat : n = Len(s) + 2
    BY <1>2
  <2>2. Len(text) = n + Len(t) - 1 /\ \A i \in 1..Len(t) : t[i] = text[n + i - 1]
    BY <1>2, <1>5, <2>1
  <2>3. SubSeq(text, n, Len(text)) = t
    BY <1>1, <1>2, <2>1, <2>2, SubSeqIs
  <2> QED
    BY <1>2, <1>8, <2>1, <2>3 DEF After
<1>11. Contains(text, mark)
  BY <1>1, <1>2, <1>4 DEF Contains
<1> QED
  BY <1>9, <1>10, <1>11

\* A name has no colon, a mark one, an IPv6 address several.
LEMMA ColonsCounted ==
    ASSUME NEW bare \in Seq(Plain)
    PROVE  /\ Colons(bare) = 0
           /\ Colons(bare \o <<":", "port">>) = 1
           /\ Colons(<<"v6">>) > 1 /\ Colons(<<"v6", ":", "port">>) > 1
<1> DEFINE colons(text) == {i \in DOMAIN text : text[i] = ":"}
           literals(text) == {i \in DOMAIN text : text[i] = "v6"}
           joined == bare \o <<":", "port">>
<1>1. colons(bare) = {} /\ literals(bare) = {}
  BY DEF Plain
<1>2. colons(joined) = {Len(bare) + 1} /\ literals(joined) = {}
  <2>1. /\ Len(joined) = Len(bare) + 2 /\ Len(bare) \in Nat /\ DOMAIN joined = 1..Len(bare) + 2
        /\ joined[Len(bare) + 1] = ":" /\ joined[Len(bare) + 2] = "port"
        /\ \A i \in 1..Len(bare) : joined[i] = bare[i]
    OBVIOUS
  <2>2. \A i \in 1..Len(bare) : bare[i] \notin {":", "v6"}
    BY DEF Plain
  <2> HIDE DEF joined
  <2> QED
    BY <2>1, <2>2
<1>3. colons(<<"v6">>) = {} /\ literals(<<"v6">>) = {1}
  OBVIOUS
<1>4. colons(<<"v6", ":", "port">>) = {2} /\ literals(<<"v6", ":", "port">>) = {1}
  OBVIOUS
<1>5. \A text : Colons(text) = Cardinality(colons(text)) + 2 * Cardinality(literals(text))
  BY Zenon DEF Colons
<1>6. Cardinality({}) = 0 /\ \A i : Cardinality({i}) = 1
  BY FS_EmptySet, FS_Singleton
<1> HIDE DEF colons, literals, joined
<1>7. Colons(bare) = 0 + 2 * 0 /\ Colons(joined) = 1 + 2 * 0
  BY <1>1, <1>2, <1>5, <1>6
<1>8. Colons(<<"v6">>) = 0 + 2 * 1 /\ Colons(<<"v6", ":", "port">>) = 1 + 2 * 1
  BY <1>3, <1>4, <1>5, <1>6
<1> QED
  BY <1>7, <1>8 DEF joined

\* What the invariant keeps of a host and a port.
IsEndpoint(e) ==
    /\ e.bare \in Seq(Plain) \ {<<>>} \/ IsIPv6Literal(e.bare)
    /\ e.host \in {e.bare, <<"[">> \o e.bare \o <<"]">>}
    /\ e.port \in {Port, NoPort}

LEMMA PortsDiffer == Port # NoPort /\ Malformed \notin {Port, NoPort}
<1>1. Port.port = 80 /\ NoPort.port = 0
  BY DEF Port, NoPort
<1>2. DOMAIN Port # DOMAIN Malformed /\ DOMAIN NoPort # DOMAIN Malformed
  BY DEF Port, NoPort, Malformed
<1> QED
  BY <1>1, <1>2

\* An IPv6 address is no name, and holds no bracket.
LEMMA Literals ==
    ASSUME NEW bare
    PROVE  /\ bare \in Seq(Plain) => ~IsIPv6Literal(bare)
           /\ IsIPv6Literal(bare) =>
                bare \in Seq({"v6", ":", "port"}) /\ bare # <<>> /\ Head(bare) = "v6"
<1>1. ASSUME bare \in Seq(Plain)
      PROVE  bare # <<"v6">> /\ bare # <<"v6", ":", "port">>
  <2> SUFFICES ASSUME bare # <<>>
               PROVE  bare[1] # "v6"
    OBVIOUS
  <2> QED
    BY <1>1 DEF Plain
<1>2. \A text \in {<<"v6">>, <<"v6", ":", "port">>} :
          text \in Seq({"v6", ":", "port"}) /\ text # <<>> /\ Head(text) = "v6"
  <2>1. <<"v6">> \in Seq({"v6", ":", "port"}) /\ <<"v6">> # <<>> /\ Head(<<"v6">>) = "v6"
    OBVIOUS
  <2>2. /\ <<"v6", ":", "port">> \in Seq({"v6", ":", "port"})
        /\ <<"v6", ":", "port">> # <<>> /\ Head(<<"v6", ":", "port">>) = "v6"
    OBVIOUS
  <2> QED
    BY <2>1, <2>2
<1> QED
  BY <1>1, <1>2 DEF IsIPv6Literal

\* The four texts a host and a port can become, and what each is split into.
LEMMA NameAlone ==
    ASSUME NEW bare \in Seq(Plain), bare # <<>>
    PROVE  SplitHost(bare, NoPort) = [host |-> bare, port |-> NoPort]
<1>1. Head(bare) # "["
  BY DEF Plain
<1>2. Colons(bare) = 0
  BY ColonsCounted
<1> QED
  BY <1>1, <1>2, PortsDiffer DEF SplitHost, Pair

LEMMA NameAndPort ==
    ASSUME NEW bare \in Seq(Plain), bare # <<>>
    PROVE  SplitHost(bare \o <<":", "port">>, NoPort) = [host |-> bare, port |-> Port]
<1>1. PICK text : text = bare \o <<":", "port">>
  OBVIOUS
<1>2. text # <<>> /\ Head(text) = Head(bare) /\ Head(bare) # "["
  BY <1>1 DEF Plain
<1>3. Colons(text) = 1
  BY <1>1, ColonsCounted
<1>4. Upto(text, ":") = bare /\ After(text, ":") = <<"port">>
  <2>1. <<":", "port">> = <<":">> \o <<"port">> /\ <<"port">> \in Seq(Tokens)
        /\ bare \in Seq(Tokens) /\ ":" \in Tokens /\ \A i \in DOMAIN bare : bare[i] # ":"
    BY DEF Tokens, Plain
  <2>2. PICK after : after = <<"port">>
    OBVIOUS
  <2>3. Marked(text, bare, ":", after)
    BY <1>1, <2>1, <2>2 DEF Marked
  <2>4. Upto(text, ":") = bare /\ After(text, ":") = after
    BY <2>3, MarkFound
  <2> QED
    BY <2>2, <2>4
<1>5. ParsePort(<<"port">>) = Port
  BY DEF ParsePort
<1>6. SplitHost(text, NoPort) = Pair(bare, Port)
  BY <1>2, <1>3, <1>4, <1>5 DEF SplitHost
<1> QED
  BY <1>1, <1>6, PortsDiffer DEF Pair

LEMMA LiteralAlone ==
    ASSUME NEW bare, IsIPv6Literal(bare)
    PROVE  SplitHost(bare, NoPort) = [host |-> bare, port |-> NoPort]
<1>1. bare # <<>> /\ Head(bare) # "["
  BY Literals
<1>2. Colons(bare) > 1
  BY ColonsCounted, <<>> \in Seq(Plain) DEF IsIPv6Literal
<1> QED
  BY <1>1, <1>2, PortsDiffer DEF SplitHost, Pair

LEMMA LiteralAndPort ==
    ASSUME NEW bare, IsIPv6Literal(bare)
    PROVE  SplitHost((<<"[">> \o bare \o <<"]">>) \o <<":", "port">>, NoPort)
              = [host |-> bare, port |-> Port]
<1>1. PICK text : text = (<<"[">> \o bare \o <<"]">>) \o <<":", "port">>
  OBVIOUS
<1>2. bare \in Seq({"v6", ":", "port"}) /\ bare \in Seq(Tokens) /\ bare # <<>>
  BY Literals DEF Tokens
<1>3. /\ <<"[">> \o bare \in Seq(Tokens) /\ <<":", "port">> \in Seq(Tokens)
      /\ "]" \in Tokens /\ \A i \in DOMAIN (<<"[">> \o bare) : (<<"[">> \o bare)[i] # "]"
  BY <1>2 DEF Tokens
<1>4. text = (<<"[">> \o bare) \o (<<"]">> \o <<":", "port">>)
  <2>1. bare \in Seq(Tokens)
    BY <1>2 DEF Tokens
  <2> QED
    BY <1>1, <2>1 DEF Tokens
<1>5. /\ Contains(text, "]") /\ Upto(text, "]") = <<"[">> \o bare
      /\ After(text, "]") = <<":", "port">>
  <2>1. PICK s, after : s = <<"[">> \o bare /\ after = <<":", "port">>
    OBVIOUS
  <2>2. Marked(text, s, "]", after)
    BY <1>3, <1>4, <2>1 DEF Marked
  <2>3. Contains(text, "]") /\ Upto(text, "]") = s /\ After(text, "]") = after
    BY <2>2, MarkFound
  <2> QED
    BY <2>1, <2>3
<1>6. Tail(<<"[">> \o bare) = bare
  BY <1>2
<1>7. text # <<>> /\ Head(text) = "["
  BY <1>2, <1>3, <1>4
<1>8. ParsePort(Tail(<<":", "port">>)) = Port /\ Head(<<":", "port">>) = ":"
      /\ <<":", "port">> # <<>>
  BY DEF ParsePort
<1> QED
  BY <1>1, <1>2, <1>5, <1>6, <1>7, <1>8, PortsDiffer DEF SplitHost, Pair

\* A text in brackets is told by them from one without.
LEMMA Brackets ==
    ASSUME NEW bare \in Seq(Tokens), bare # <<>>
    PROVE  LET text == <<"[">> \o bare \o <<"]">>
           IN  /\ text # <<>> /\ Head(text) = "[" /\ Last(text) = "]" /\ text # bare
               /\ SubSeq(text, 2, Len(text) - 1) = bare
<1>1. PICK text : text = <<"[">> \o bare \o <<"]">>
  OBVIOUS
<1>2. /\ text \in Seq(Tokens) /\ Len(bare) \in Nat /\ Len(text) = Len(bare) + 2
      /\ text[1] = "[" /\ text[Len(bare) + 2] = "]"
      /\ \A i \in 1..Len(bare) : bare[i] = text[i + 1]
  BY <1>1 DEF Tokens
<1>3. text # <<>> /\ Head(text) = "[" /\ Last(text) = "]" /\ text # bare
  BY <1>2 DEF Last
<1>4. SubSeq(text, 2, Len(text) - 1) = bare
  <2>1. PICK n \in Nat : n = Len(bare) + 1
    BY <1>2
  <2>2. \A i \in 1..Len(bare) : bare[i] = text[2 + i - 1]
    BY <1>2
  <2>3. Len(bare) = n - 2 + 1 /\ n <= Len(text) /\ n = Len(text) - 1
    BY <1>2, <2>1
  <2>4. SubSeq(text, 2, n) = bare
    BY <1>2, <2>2, <2>3, SubSeqIs
  <2> QED
    BY <2>3, <2>4
<1> QED
  BY <1>1, <1>3, <1>4

LEMMA NoBrackets ==
    ASSUME NEW bare \in Seq(Tokens \ {"[", "]"}), bare # <<>>
    PROVE  Head(bare) # "[" /\ Last(bare) # "]"
<1>1. Len(bare) \in 1..Len(bare)
  OBVIOUS
<1>2. bare[1] # "[" /\ bare[Len(bare)] # "]"
  BY <1>1
<1> QED
  BY <1>2 DEF Last

\* A host and a port become a text that splits into them, or the host was a name in
\* brackets.
LEMMA Joined ==
    ASSUME NEW e, IsEndpoint(e)
    PROVE  LET joined == JoinHost(e.host, e.port)
               both == [host |-> e.bare, port |-> e.port]
           IN  \/ joined = Malformed /\ ~IsIPv6Literal(e.bare) /\ e.host # e.bare
               \/ /\ joined # Malformed
                  /\ SplitHost(joined.text, NoPort) = both
                  /\ SplitPair(joined.text, e.port, NoPort) = both
<1>1. PICK bare, host, port : bare = e.bare /\ host = e.host /\ port = e.port
  OBVIOUS
<1>2. /\ bare \in Seq(Plain) \ {<<>>} \/ IsIPv6Literal(bare)
      /\ host \in {bare, <<"[">> \o bare \o <<"]">>}
      /\ port \in {Port, NoPort}
  BY <1>1 DEF IsEndpoint
<1>3. bare \in Seq(Tokens \ {"[", "]"}) /\ bare \in Seq(Tokens) /\ bare # <<>>
  <2>1. CASE bare \in Seq(Plain) \ {<<>>}
    BY <2>1 DEF Plain, Tokens
  <2>2. CASE IsIPv6Literal(bare)
    BY <2>2, Literals DEF Tokens
  <2> QED
    BY <1>2, <2>1, <2>2
<1> DEFINE bracketed == <<"[">> \o bare \o <<"]">>
           literal == IsIPv6Literal(bare)
           text == IF port = NoPort THEN bare
                   ELSE (IF literal THEN bracketed ELSE bare) \o <<":", "port">>
           both == [host |-> bare, port |-> port]
<1>4. host = bare => JoinHost(host, port) = [text |-> text]
  BY <1>3, NoBrackets DEF JoinHost
<1>5. host # bare => JoinHost(host, port) = IF literal THEN [text |-> text] ELSE Malformed
  <2> SUFFICES ASSUME host = bracketed
               PROVE  JoinHost(host, port) = IF literal THEN [text |-> text] ELSE Malformed
    BY <1>2
  <2>1. PICK b : b = bracketed
    OBVIOUS
  <2>2. b # <<>> /\ Head(b) = "[" /\ Last(b) = "]" /\ SubSeq(b, 2, Len(b) - 1) = bare
    BY <1>3, <2>1, Brackets
  <2>3. JoinHost(b, port) = IF literal THEN [text |-> text] ELSE Malformed
    BY <2>1, <2>2 DEF JoinHost
  <2> QED
    BY <2>1, <2>3
<1>6. SplitHost(text, NoPort) = both
  <2>1. CASE literal
    BY <1>2, <2>1, LiteralAlone, LiteralAndPort, PortsDiffer
  <2>2. CASE ~literal
    BY <1>2, <2>2, NameAlone, NameAndPort, PortsDiffer
  <2> QED
    BY <2>1, <2>2
<1>7. SplitPair(text, port, NoPort) = both
  <2>1. bare # <<>> /\ port # Malformed
    BY <1>2, <1>3, PortsDiffer
  <2>2. both # Malformed
    <3>1. DOMAIN both # DOMAIN Malformed
      BY DEF Malformed
    <3> QED
      BY <3>1
  <2> HIDE DEF text
  <2> QED
    BY <1>2, <1>6, <2>1, <2>2, PortsDiffer DEF SplitPair, Pair
<1> HIDE DEF text
<1>8. \/ JoinHost(host, port) = Malformed /\ ~literal /\ host # bare
      \/ JoinHost(host, port) = [text |-> text]
  BY <1>4, <1>5
<1>9. [text |-> text].text = text /\ [text |-> text] # Malformed
  <2>1. DOMAIN [text |-> text] # DOMAIN Malformed
    BY DEF Malformed
  <2> QED
    BY <2>1
<1> QED
  BY <1>1, <1>6, <1>7, <1>8, <1>9
-----------------------------------------------------------------------------
(* Selection: one adapter gives the address and the index.                    *)

\* The answers that are none are no other answer.
LEMMA AnswersDiffer ==
    /\ NoAdapter # Failed
    /\ \A a \in Interface : a # NoAdapter
    /\ \A e \in IPInterface : e # NoAdapter
    /\ \A v, n : [v6 |-> v, n |-> n] \notin {NoAdapter, Failed}
    /\ \A i : [index |-> i] \notin {NoAdapter, Failed}
<1>1. DOMAIN NoAdapter = {"none"} /\ DOMAIN Failed = {"error"}
  BY DEF NoAdapter, Failed
<1>2. \A a \in Interface : "name" \in DOMAIN a
  BY DEF Interface
<1>3. \A e \in IPInterface : "v6" \in DOMAIN e
  BY DEF IPInterface
<1>4. \A v, n : DOMAIN [v6 |-> v, n |-> n] = {"v6", "n"}
  OBVIOUS
<1>5. \A i : DOMAIN [index |-> i] = {"index"}
  OBVIOUS
<1>6. ASSUME NEW v, NEW n
      PROVE  [v6 |-> v, n |-> n] \notin {NoAdapter, Failed}
  <2>1. "v6" \in DOMAIN [v6 |-> v, n |-> n]
    OBVIOUS
  <2>2. "v6" \notin DOMAIN NoAdapter /\ "v6" \notin DOMAIN Failed
    BY <1>1
  <2> QED
    BY <2>1, <2>2
<1>7. ASSUME NEW i
      PROVE  [index |-> i] \notin {NoAdapter, Failed}
  <2>1. "index" \in DOMAIN [index |-> i]
    OBVIOUS
  <2>2. "index" \notin DOMAIN NoAdapter /\ "index" \notin DOMAIN Failed
    BY <1>1
  <2> QED
    BY <2>1, <2>2
<1> QED
  BY <1>1, <1>2, <1>3, <1>6, <1>7

\* Where primary_ip finds one it is of the family, and link-local only where all are.
LEMMA Primary ==
    ASSUME NEW adapter \in Interface, NEW v6 \in BOOLEAN, NEW loopbackOk \in BOOLEAN,
           NEW p, p = PrimaryIP(adapter, v6, loopbackOk), p # NoAdapter
    PROVE  /\ \E i \in DOMAIN adapter.ips : p = adapter.ips[i]
           /\ p \in IPInterface /\ p.v6 = v6
           /\ loopbackOk /\ p.n \in LinkLocal =>
                \A i \in DOMAIN adapter.ips :
                    adapter.ips[i].v6 = v6 => adapter.ips[i].n \in LinkLocal
           /\ ~loopbackOk => p.n \notin Loopback
<1>1. adapter.ips \in Seq(IPInterface)
  BY DEF Interface
<1> DEFINE candidates == OfFamily(adapter, v6)
           loopback == {i \in candidates : adapter.ips[i].n \in Loopback}
           linkLocal == {i \in candidates : adapter.ips[i].n \in LinkLocal}
           routable == candidates \ (loopback \union linkLocal)
<1>2. p = IF routable # {} THEN adapter.ips[Min(routable)]
          ELSE IF loopback # {} /\ loopbackOk THEN adapter.ips[Min(loopback)]
          ELSE IF linkLocal # {} THEN adapter.ips[Min(linkLocal)]
          ELSE NoAdapter
  BY DEF PrimaryIP
<1>3. candidates \in SUBSET Nat
  BY <1>1 DEF OfFamily
<1>4. /\ routable # {} => Min(routable) \in routable
      /\ loopback # {} => Min(loopback) \in loopback
      /\ linkLocal # {} => Min(linkLocal) \in linkLocal
  <2>1. routable \in SUBSET Nat /\ loopback \in SUBSET Nat /\ linkLocal \in SUBSET Nat
    BY <1>3
  <2> HIDE DEF routable, loopback, linkLocal
  <2> QED
    BY <2>1, MinOf
<1>5. \E i \in candidates :
        /\ p = adapter.ips[i]
        /\ adapter.ips[i].n \in LinkLocal => routable = {} /\ (loopbackOk => loopback = {})
        /\ ~loopbackOk => adapter.ips[i].n \notin Loopback
  <2>1. CASE routable # {}
    BY <1>2, <1>4, <2>1
  <2>2. CASE routable = {} /\ loopback # {} /\ loopbackOk
    BY <1>2, <1>4, <2>2, SelectionAssumption
  <2>3. CASE routable = {} /\ ~(loopback # {} /\ loopbackOk) /\ linkLocal # {}
    BY <1>2, <1>4, <2>3, SelectionAssumption
  <2>4. CASE routable = {} /\ ~(loopback # {} /\ loopbackOk) /\ linkLocal = {}
    BY <1>2, <2>4
  <2> QED
    BY <2>1, <2>2, <2>3, <2>4
<1>6. PICK i \in candidates :
        /\ p = adapter.ips[i]
        /\ adapter.ips[i].n \in LinkLocal => routable = {} /\ (loopbackOk => loopback = {})
        /\ ~loopbackOk => adapter.ips[i].n \notin Loopback
  BY <1>5
<1>7. i \in DOMAIN adapter.ips /\ adapter.ips[i].v6 = v6 /\ p \in IPInterface
  BY <1>1, <1>6 DEF OfFamily
<1>8. ASSUME loopbackOk, p.n \in LinkLocal,
             NEW j \in DOMAIN adapter.ips, adapter.ips[j].v6 = v6
      PROVE  adapter.ips[j].n \in LinkLocal
  BY <1>6, <1>8 DEF OfFamily
<1> QED
  BY <1>6, <1>7, <1>8

\* What the invariant keeps of a spec, and the answers to it.
IsSpec(s) ==
    /\ s.adapters \in Seq(Interface) /\ s.query \in Query
    /\ s.want \in {"v4", "v6", "either"} /\ s.strict \in BOOLEAN

AddressOf(s) == InterfaceAddress(s.adapters, s.again, s.query, s.want, s.strict)
IndexIn(s) == InterfaceIndex(s.adapters, s.query, s.strict)
FoundBy(s) == GetInterface(s.adapters, s.query, TRUE)
NoneOf(s) == IF s.strict THEN Failed ELSE NoAdapter

\* get_interface finds one of the adapters named, if there is one.
LEMMA FirstFound ==
    ASSUME NEW s, IsSpec(s)
    PROVE  /\ Interfaces(s.adapters, s.query) \subseteq Interface
           /\ FoundBy(s) # NoAdapter <=> Interfaces(s.adapters, s.query) # {}
           /\ FoundBy(s) # NoAdapter => FoundBy(s) \in Interfaces(s.adapters, s.query)
<1>1. CASE s.query.kind = "interface"
  <2>1. s.query.adapter \in Interface
    BY <1>1 DEF IsSpec, Query
  <2> QED
    BY <1>1, <2>1, AnswersDiffer DEF FoundBy, GetInterface, Interfaces
<1>2. CASE s.query.kind # "interface"
  <2>1. PICK found : found = Matching(s.adapters, s.query)
    OBVIOUS
  <2>2. found \subseteq DOMAIN s.adapters /\ found \in SUBSET Nat
    BY <1>2, <2>1 DEF Matching, IsSpec
  <2>3. Interfaces(s.adapters, s.query) = {s.adapters[i] : i \in found}
    BY <1>2, <2>1 DEF Interfaces
  <2>4. \A i \in found : s.adapters[i] \in Interface
    BY <2>2 DEF IsSpec
  <2>5. FoundBy(s) = IF found # {} THEN s.adapters[Min(found)] ELSE NoAdapter
    BY <1>2, <2>1 DEF FoundBy, GetInterface
  <2>6. found # {} => Min(found) \in found
    BY <2>2, MinOf
  <2> QED
    BY <2>3, <2>4, <2>5, <2>6, AnswersDiffer
<1> QED
  BY <1>1, <1>2

\* An address of an adapter, of the family asked for, and link-local only where it has
\* no other of that family.
Chosen(address, adapter, want) ==
    /\ \E i \in DOMAIN adapter.ips :
          address = [v6 |-> adapter.ips[i].v6, n |-> adapter.ips[i].n]
    /\ want # "either" => address.v6 = (want = "v6")
    /\ address.n \in LinkLocal =>
         \A i \in DOMAIN adapter.ips :
            adapter.ips[i].v6 = address.v6 => adapter.ips[i].n \in LinkLocal

\* What interface_address answers.
LEMMA AddressIs ==
    ASSUME NEW s, IsSpec(s)
    PROVE  \/ AddressOf(s) = NoneOf(s)
           \/ /\ s.query.kind \in {"interface", "mac", "name"} /\ FoundBy(s) # NoAdapter
              /\ Chosen(AddressOf(s), FoundBy(s), s.want)
           \/ /\ s.query.kind = "address"
              /\ AddressOf(s) = [v6 |-> s.query.v6, n |-> s.query.n]
              /\ s.strict => /\ s.want # "either" => s.query.v6 = (s.want = "v6")
                             /\ FoundBy(s) # NoAdapter \/ Degraded(s.again)
<1> DEFINE found == FoundBy(s)
           first == PrimaryIP(found, s.want = "v6", TRUE)
           chosen == IF first = NoAdapter /\ s.want = "either"
                     THEN PrimaryIP(found, TRUE, TRUE) ELSE first
<1>1. CASE s.query.kind \in {"interface", "mac", "name"}
  <2>1. AddressOf(s) = IF found = NoAdapter \/ chosen = NoAdapter THEN NoneOf(s)
                       ELSE [v6 |-> chosen.v6, n |-> chosen.n]
    BY <1>1 DEF AddressOf, InterfaceAddress, FoundBy, NoneOf
  <2>2. ASSUME found # NoAdapter, chosen # NoAdapter
        PROVE  Chosen([v6 |-> chosen.v6, n |-> chosen.n], found, s.want)
    <3>1. found \in Interface
      BY <2>2, FirstFound
    <3>2. PICK v6 \in BOOLEAN : /\ chosen = PrimaryIP(found, v6, TRUE)
                                /\ s.want # "either" => v6 = (s.want = "v6")
      <4>1. (s.want = "v6") \in BOOLEAN
        OBVIOUS
      <4>2. CASE first = NoAdapter /\ s.want = "either"
        BY <4>2
      <4>3. CASE ~(first = NoAdapter /\ s.want = "either")
        BY <4>1, <4>3
      <4> QED
        BY <4>2, <4>3
    <3> HIDE DEF found, chosen
    <3>3. /\ \E i \in DOMAIN found.ips : chosen = found.ips[i]
          /\ chosen.v6 = v6
          /\ chosen.n \in LinkLocal =>
                \A i \in DOMAIN found.ips :
                    found.ips[i].v6 = v6 => found.ips[i].n \in LinkLocal
      <4> PICK p : p = chosen
        OBVIOUS
      <4>1. PICK adapter \in Interface, ok \in BOOLEAN :
              adapter = found /\ ok = TRUE
        BY <3>1
      <4>2. p = PrimaryIP(adapter, v6, ok) /\ p # NoAdapter
        BY <2>2, <3>2, <4>1
      <4>3. /\ \E i \in DOMAIN adapter.ips : p = adapter.ips[i]
            /\ p.v6 = v6
            /\ ok /\ p.n \in LinkLocal =>
                \A i \in DOMAIN adapter.ips :
                    adapter.ips[i].v6 = v6 => adapter.ips[i].n \in LinkLocal
        BY <4>2, Primary
      <4> QED
        BY <4>1, <4>3
    <3>4. PICK a : a = [v6 |-> chosen.v6, n |-> chosen.n]
      OBVIOUS
    <3>5. a.v6 = v6 /\ a.n = chosen.n
      BY <3>3, <3>4
    <3>6. Chosen(a, found, s.want)
      BY <3>2, <3>3, <3>4, <3>5 DEF Chosen
    <3> QED
      BY <3>4, <3>6
  <2> HIDE DEF chosen, first
  <2> QED
    BY <1>1, <2>1, <2>2
<1>2. CASE s.query.kind = "address"
  BY <1>2 DEF AddressOf, InterfaceAddress, FoundBy, NoneOf, IsSpec
<1>3. CASE s.query.kind \notin {"interface", "mac", "name", "address"}
  BY <1>3 DEF AddressOf, InterfaceAddress, NoneOf
<1> QED
  BY <1>1, <1>2, <1>3

\* What interface_index answers.
LEMMA IndexIs ==
    ASSUME NEW s, IsSpec(s)
    PROVE  \/ IndexIn(s) = NoneOf(s)
           \/ /\ s.query.kind \in {"interface", "mac", "name", "address"}
              /\ FoundBy(s) # NoAdapter /\ FoundBy(s).index # 0
              /\ IndexIn(s) = [index |-> FoundBy(s).index]
  BY DEF IndexIn, InterfaceIndex, NoneOf, FoundBy

\* An address of an adapter the enumeration lists is local.
LEMMA ListedIsLocal ==
    ASSUME NEW adapters \in Seq(Interface), NEW i \in DOMAIN adapters, NEW v6, NEW n,
           Holds(adapters[i], [v6 |-> v6, n |-> n])
    PROVE  IsLocalAddress(adapters, [kind |-> "address", v6 |-> v6, n |-> n,
                                     zone |-> [by |-> "none"]])
<1>1. PICK q : q = [kind |-> "address", v6 |-> v6, n |-> n, zone |-> [by |-> "none"]]
  OBVIOUS
<1>2. q.kind = "address" /\ q.v6 = v6 /\ q.n = n /\ q.zone.by = "none"
  BY <1>1
<1>3. Holds(adapters[i], q)
  BY <1>2 DEF Holds
<1>4. Matches(adapters[i], q)
  BY <1>2, <1>3 DEF Matches
<1>5. i \in Matching(adapters, q)
  BY <1>2, <1>4 DEF Matching
<1>6. Interfaces(adapters, q) # {}
  BY <1>2, <1>5 DEF Interfaces
<1> QED
  BY <1>1, <1>6 DEF IsLocalAddress

\* All that OneAdapter says of a spec and the answers to it.
LEMMA OneAdapterSelected ==
    ASSUME IsSpec(value.of), value.address = AddressOf(value.of),
           value.index = IndexIn(value.of)
    PROVE  OneAdapter
<1>1. PICK s, address, index : s = value.of /\ address = value.address /\ index = value.index
  OBVIOUS
<1>2. PICK found, named, none :
        found = FoundBy(s) /\ named = Interfaces(s.adapters, s.query) /\ none = NoneOf(s)
  OBVIOUS
<1>3. PICK holders : holders = {a \in named : Holds(a, address)}
  OBVIOUS
<1>4. IsSpec(s) /\ address = AddressOf(s) /\ index = IndexIn(s)
  BY <1>1
<1>5. named \subseteq Interface /\ (found # NoAdapter => found \in named)
      /\ (named # {} => found # NoAdapter)
  BY <1>2, <1>4, FirstFound
<1>6. \/ address = none
      \/ /\ s.query.kind \in {"interface", "mac", "name"} /\ found # NoAdapter
         /\ Chosen(address, found, s.want)
      \/ /\ s.query.kind = "address"
         /\ address = [v6 |-> s.query.v6, n |-> s.query.n]
         /\ s.strict => /\ s.want # "either" => s.query.v6 = (s.want = "v6")
                        /\ found # NoAdapter \/ Degraded(s.again)
  BY <1>2, <1>4, AddressIs
<1>7. \/ index = none
      \/ /\ s.query.kind \in {"interface", "mac", "name", "address"}
         /\ found # NoAdapter /\ found.index # 0
         /\ index = [index |-> found.index]
  BY <1>2, <1>4, IndexIs
<1>8. none = IF s.strict THEN Failed ELSE NoAdapter
  BY <1>2 DEF NoneOf
<1>9. s.query.kind # "address" /\ address # none => Holds(found, address)
  BY <1>6 DEF Chosen, Holds
<1>10. s.query.kind = "address" /\ address # none => \A a \in named : Holds(a, address)
  <2> SUFFICES ASSUME s.query.kind = "address",
                      address = [v6 |-> s.query.v6, n |-> s.query.n], NEW a \in named
               PROVE  Holds(a, address)
    BY <1>6
  <2>1. PICK i \in DOMAIN s.adapters : a = s.adapters[i] /\ Matches(a, s.query)
    BY <1>2 DEF Interfaces, Matching
  <2>2. Holds(a, s.query)
    BY <2>1 DEF Matches
  <2> QED
    BY <2>2 DEF Holds
<1>11. address \notin {NoAdapter, Failed} /\ found # NoAdapter => found \in holders
  BY <1>3, <1>5, <1>8, <1>9, <1>10
<1>12. address # none => address \notin {NoAdapter, Failed}
  <2>1. ASSUME Chosen(address, found, s.want)
        PROVE  address \notin {NoAdapter, Failed}
    BY <2>1, AnswersDiffer DEF Chosen
  <2> QED
    BY <1>6, <2>1, AnswersDiffer
<1>13. index # none => index \notin {NoAdapter, Failed} /\ index.index = found.index
  BY <1>7, AnswersDiffer
<1>14. ~s.strict => Failed \notin {address, index}
  BY <1>8, <1>12, <1>13, AnswersDiffer
<1>15. s.strict => NoAdapter \notin {address, index}
  BY <1>8, <1>12, <1>13, AnswersDiffer
<1>16. index \notin {NoAdapter, Failed} =>
          /\ index.index = found.index /\ found.index # 0 /\ found \in named
          /\ found # NoAdapter
  BY <1>5, <1>7, <1>8, <1>13
<1>17. ASSUME s.strict, address \notin {NoAdapter, Failed}
       PROVE  /\ s.want # "either" => address.v6 = (s.want = "v6")
              /\ holders # {} \/ Degraded(s.again)
              /\ \A a \in holders : \A i \in DOMAIN a.ips :
                   s.query.kind # "address" /\ a = found
                     /\ a.ips[i].v6 = address.v6 /\ address.n \in LinkLocal =>
                         a.ips[i].n \in LinkLocal
  <2>1. address # none
    BY <1>8, <1>17
  <2>2. CASE s.query.kind = "address"
    <3>1. address = [v6 |-> s.query.v6, n |-> s.query.n]
          /\ (s.want # "either" => s.query.v6 = (s.want = "v6"))
          /\ (found # NoAdapter \/ Degraded(s.again))
      BY <1>6, <1>17, <2>1, <2>2
    <3> QED
      BY <1>11, <1>17, <2>2, <3>1
  <2>3. CASE s.query.kind # "address"
    <3>1. Chosen(address, found, s.want) /\ found # NoAdapter
      BY <1>6, <2>1, <2>3
    <3> QED
      BY <1>11, <1>17, <3>1 DEF Chosen
  <2> QED
    BY <2>2, <2>3
<1>18. ASSUME s.query.kind # "interface", holders # {}
       PROVE  IsLocalAddress(s.adapters, [kind |-> "address", v6 |-> address.v6,
                                          n |-> address.n, zone |-> [by |-> "none"]])
  <2>1. PICK i \in DOMAIN s.adapters : Holds(s.adapters[i], address)
    BY <1>2, <1>3, <1>18 DEF Interfaces, Matching
  <2>2. Holds(s.adapters[i], [v6 |-> address.v6, n |-> address.n])
    BY <2>1 DEF Holds
  <2>3. s.adapters \in Seq(Interface)
    BY <1>4 DEF IsSpec
  <2> QED
    BY <2>2, <2>3, ListedIsLocal
<1>19. ASSUME NEW a \in named, NEW v6 \in BOOLEAN, a.loopback = "unreported", IsLoopback(a)
       PROVE  PrimaryIP(a, v6, FALSE) = NoAdapter \/ PrimaryIP(a, v6, FALSE).n \in LinkLocal
  <2>1. PICK ok \in BOOLEAN : ok = FALSE
    OBVIOUS
  <2> PICK p : p = PrimaryIP(a, v6, ok)
    OBVIOUS
  <2>2. ASSUME p # NoAdapter
        PROVE  p.n \in LinkLocal
    <3>1. (\E i \in DOMAIN a.ips : p = a.ips[i]) /\ p.n \notin Loopback
      BY <1>5, <2>1, <2>2, Primary
    <3> QED
      BY <1>19, <3>1 DEF IsLoopback
  <2> QED
    BY <2>1, <2>2
<1>20. address \notin {NoAdapter, Failed} /\ index \notin {NoAdapter, Failed} =>
          \E a \in holders : a.index = index.index
  BY <1>11, <1>16
<1> QED
  BY <1>1, <1>2, <1>3, <1>14, <1>15, <1>16, <1>17, <1>18, <1>19, <1>20 DEF OneAdapter, FoundBy
-----------------------------------------------------------------------------
(* Names: what derives from names, and the relations between them.            *)

\* The labels names are made of, and a name.
Proper == {l \in Writable : l.key # 0}

IsValid(n) ==
    /\ n = [labels |-> n.labels, absolute |-> n.absolute]
    /\ n.labels \in Seq(Proper) /\ n.labels # <<>>
    /\ Octets(n.labels) <= MaxName /\ n.absolute \in BOOLEAN

\* The peers are names, and what is valid is one and no error.
LEMMA PeersAreValid ==
    ASSUME NEW p \in Peers
    PROVE  IsValid(p)
<1>1. p \in [labels : Seq(Writable), absolute : BOOLEAN] /\ IsName(p)
  BY NamesGiven
<1>2. \A i \in DOMAIN p.labels : p.labels[i] \in Proper
  BY <1>1 DEF IsName, Proper
<1>3. p.labels \in Seq(Proper)
  BY <1>1, <1>2
<1> QED
  BY <1>1, <1>3 DEF IsName, IsValid

LEMMA ValidIsName ==
    ASSUME NEW n, IsValid(n)
    PROVE  IsName(n)
BY DEF IsValid, IsName, Proper

LEMMA NameIsNotBad ==
    ASSUME NEW labels, NEW absolute
    PROVE  [labels |-> labels, absolute |-> absolute] \notin Nothing
<1>1. "labels" \in DOMAIN [labels |-> labels, absolute |-> absolute]
  OBVIOUS
<1>2. "labels" \notin DOMAIN None /\ "labels" \notin DOMAIN Bad
  BY DEF None, Bad
<1> QED
  BY <1>1, <1>2 DEF Nothing

\* What is accepted is valid, and has the labels it was given.
LEMMA FromLabelsIs ==
    ASSUME NEW labels \in Seq(Proper), NEW absolute \in BOOLEAN
    PROVE  /\ labels # <<>> /\ Octets(labels) <= MaxName =>
                FromLabels(labels, absolute) = [labels |-> labels, absolute |-> absolute]
           /\ FromLabels(labels, absolute) \notin Nothing =>
                /\ IsValid(FromLabels(labels, absolute))
                /\ FromLabels(labels, absolute).labels = labels
<1>1. PICK n : n = [labels |-> labels, absolute |-> absolute]
  OBVIOUS
<1>2. n.labels = labels /\ n.absolute = absolute
  BY <1>1
<1> PICK octets \in Int : octets = Octets(labels)
  BY DEF Octets
<1>3. labels # <<>> /\ Octets(labels) <= MaxName =>
        FromLabels(labels, absolute) = n
  BY <1>1, NamesAssumption DEF FromLabels
<1>4. ~(labels # <<>> /\ Octets(labels) <= MaxName) => FromLabels(labels, absolute) = Bad
  BY NamesAssumption DEF FromLabels
<1>5. labels # <<>> /\ Octets(labels) <= MaxName => IsValid(n)
  BY <1>1, <1>2 DEF IsValid
<1> QED
  BY <1>1, <1>2, <1>3, <1>4, <1>5 DEF Nothing

\* f joins the first k of some sequences, one after the other.
Joins(f, seqs, k, S) ==
    /\ f \in [1..k -> Seq(S)]
    /\ \A i \in 1..k : f[i] = IF i = 1 THEN seqs[i] ELSE f[i - 1] \o seqs[i]

\* What joins so many sequences can be continued by the next.
LEMMA JoinsOneMore ==
    ASSUME NEW S, NEW seqs \in Seq(Seq(S)), NEW k \in Nat \ {0}, k + 1 <= Len(seqs),
           NEW f, Joins(f, seqs, k, S)
    PROVE  \E g : Joins(g, seqs, k + 1, S)
<1>1. PICK m \in Nat : m = k + 1 /\ m \in 1..Len(seqs) /\ m # 1 /\ m - 1 = k
  OBVIOUS
<1>2. f[k] \in Seq(S) /\ seqs[m] \in Seq(S)
  BY <1>1 DEF Joins
<1>3. f[k] \o seqs[m] \in Seq(S)
  BY <1>2, ConcatProperties
<1> PICK new \in Seq(S) : new = f[k] \o seqs[m]
  BY <1>3
<1> DEFINE g == [i \in 1..m |-> IF i = m THEN new ELSE f[i]]
<1>4. g \in [1..m -> Seq(S)]
  BY <1>1, <1>3 DEF Joins
<1>5. ASSUME NEW i \in 1..m
      PROVE  g[i] = IF i = 1 THEN seqs[i] ELSE g[i - 1] \o seqs[i]
  <2>1. CASE i = m
    <3>1. i # 1 /\ i - 1 = k /\ k \in 1..m /\ k # m
      BY <1>1, <2>1
    <3>2. g[i] = new /\ g[k] = f[k]
      BY <2>1, <3>1
    <3> HIDE DEF g
    <3> QED
      BY <2>1, <3>1, <3>2
  <2>2. CASE i # m
    <3>1. i \in 1..k /\ (i # 1 => i - 1 \in 1..k /\ i - 1 \in 1..m /\ i - 1 # m)
      BY <1>1, <2>2
    <3>2. g[i] = f[i] /\ (i # 1 => g[i - 1] = f[i - 1])
      BY <2>2, <3>1
    <3>3. f[i] = IF i = 1 THEN seqs[i] ELSE f[i - 1] \o seqs[i]
      BY <3>1 DEF Joins
    <3> HIDE DEF g
    <3> QED
      BY <3>2, <3>3
  <2> QED
    BY <2>1, <2>2
<1> HIDE DEF g
<1> QED
  BY <1>1, <1>4, <1>5 DEF Joins

\* Flattening sequences joins them.
LEMMA FlattenedJoins ==
    ASSUME NEW S, NEW seqs \in Seq(Seq(S)), Len(seqs) # 0
    PROVE  \E f : Joins(f, seqs, Len(seqs), S) /\ FlattenSeq(seqs) = f[Len(seqs)]
<1>1. PICK n \in Nat : n = Len(seqs) /\ n > 0
  OBVIOUS
<1> DEFINE Flat(f) == f = [i \in 1..n |-> IF i = 1 THEN seqs[i] ELSE f[i - 1] \o seqs[i]]
           T == {k \in Nat : k < n => \E f : Joins(f, seqs, k + 1, S)}
<1>2. \A i \in 1..n : seqs[i] \in Seq(S)
  BY <1>1
<1>3. 0 \in T
  <2>1. Joins([i \in 1..1 |-> seqs[1]], seqs, 0 + 1, S)
    BY <1>1, <1>2 DEF Joins
  <2> QED
    BY <2>1
<1>4. ASSUME NEW k \in Nat, k \in T
      PROVE  k + 1 \in T
  <2> SUFFICES ASSUME k + 1 < n
               PROVE  \E f : Joins(f, seqs, (k + 1) + 1, S)
    OBVIOUS
  <2>1. \E f : Joins(f, seqs, k + 1, S)
    BY <1>4, <1>1
  <2> HIDE DEF T
  <2>2. PICK f : Joins(f, seqs, k + 1, S)
    BY <2>1
  <2>3. k + 1 \in Nat \ {0} /\ (k + 1) + 1 <= Len(seqs)
    BY <1>1
  <2> QED
    BY <2>2, <2>3, JoinsOneMore
<1>5. \E f : Flat(f)
  <2>1. n - 1 \in Nat /\ (n - 1) + 1 = n /\ n - 1 < n
    BY <1>1
  <2>2. n - 1 \in T
    <3> HIDE DEF T
    <3> QED
      BY <1>3, <1>4, <2>1, Induction
  <2>3. PICK f : Joins(f, seqs, n, S)
    BY <2>1, <2>2
  <2>4. Flat(f)
    BY <2>3 DEF Joins
  <2> QED
    BY <2>4
<1>6. PICK F : F = CHOOSE f : Flat(f)
  OBVIOUS
<1>7. Flat(F)
  BY <1>5, <1>6
<1>8. FlattenSeq(seqs) = F[n]
  BY <1>1, <1>6 DEF FlattenSeq
<1>9. \A i \in 1..n : F[i] = IF i = 1 THEN seqs[i] ELSE F[i - 1] \o seqs[i]
  BY <1>7
<1> HIDE DEF Flat
<1> DEFINE U == {k \in Nat : k < n => F[k + 1] \in Seq(S)}
<1>10. 0 \in U
  <2>1. 1 \in 1..n
    BY <1>1
  <2>2. F[1] = seqs[1]
    BY <1>9, <2>1
  <2>3. F[0 + 1] \in Seq(S)
    BY <1>2, <2>1, <2>2
  <2> QED
    BY <2>3
<1>11. ASSUME NEW k \in Nat, k \in U
       PROVE  k + 1 \in U
  <2> SUFFICES ASSUME k + 1 < n
               PROVE  F[(k + 1) + 1] \in Seq(S)
    OBVIOUS
  <2>1. PICK m \in 1..n : m = (k + 1) + 1 /\ m # 1 /\ m - 1 = k + 1
    BY <1>1
  <2>2. F[k + 1] \in Seq(S)
    BY <1>1, <1>11
  <2>3. F[m] = F[m - 1] \o seqs[m]
    BY <1>9, <2>1
  <2>4. seqs[m] \in Seq(S)
    BY <1>2
  <2> QED
    BY <2>1, <2>2, <2>3, <2>4
<1>12. ASSUME NEW i \in 1..n
       PROVE  F[i] \in Seq(S)
  <2>1. i - 1 \in Nat /\ (i - 1) + 1 = i /\ i - 1 < n
    BY <1>1
  <2>2. i - 1 \in U
    <3> HIDE DEF U
    <3> QED
      BY <1>10, <1>11, <2>1, Induction
  <2> QED
    BY <2>1, <2>2
<1>13. F = [i \in 1..n |-> F[i]]
  BY <1>7 DEF Flat
<1>14. F \in [1..n -> Seq(S)]
  BY <1>12, <1>13
<1>15. Joins(F, seqs, n, S)
  BY ONLY <1>9, <1>14 DEF Joins
<1> QED
  BY <1>1, <1>8, <1>15

\* Flattening sequences of labels gives a sequence of labels; one of them, itself.
LEMMA Flattened ==
    ASSUME NEW S, NEW seqs \in Seq(Seq(S))
    PROVE  /\ FlattenSeq(seqs) \in Seq(S)
           /\ Len(seqs) = 1 => FlattenSeq(seqs) = seqs[1]
<1>1. CASE Len(seqs) = 0
  BY <1>1 DEF FlattenSeq
<1>2. CASE Len(seqs) # 0
  <2>1. PICK f : Joins(f, seqs, Len(seqs), S) /\ FlattenSeq(seqs) = f[Len(seqs)]
    BY <1>2, FlattenedJoins
  <2>2. Len(seqs) \in 1..Len(seqs)
    BY <1>2
  <2> QED
    BY <2>1, <2>2 DEF Joins
<1> QED
  BY <1>1, <1>2

\* What a constructor accepts is a name.
LEMMA BuiltIsValid ==
    ASSUME NEW parts \in Pieces, FQDN(parts) \notin Nothing
    PROVE  IsValid(FQDN(parts))
<1> DEFINE each == [i \in DOMAIN parts |-> parts[i].labels]
           last == Len(parts)
<1> PICK labels : labels = FlattenSeq(each)
  OBVIOUS
<1>1. parts \in Seq([labels : Seq(Writable), absolute : BOOLEAN, text : BOOLEAN])
  BY NamesGiven
<1> PICK m \in Nat : m = last /\ DOMAIN parts = 1..m
  BY <1>1
<1>2. \A i \in 1..m : parts[i].labels \in Seq(Writable) /\ parts[i].absolute \in BOOLEAN
  <2> SUFFICES ASSUME NEW i \in 1..m
               PROVE  parts[i].labels \in Seq(Writable) /\ parts[i].absolute \in BOOLEAN
    OBVIOUS
  <2> PICK Given : Given = [labels : Seq(Writable), absolute : BOOLEAN, text : BOOLEAN]
    OBVIOUS
  <2>1. parts \in Seq(Given)
    BY <1>1
  <2>2. parts[i] \in Given
    <3>1. i \in 1..Len(parts)
      OBVIOUS
    <3> HIDE DEF each
    <3> QED
      BY <2>1, <3>1, ElementOfSeq
  <2> QED
    BY <2>2
<1>3. each \in Seq(Seq(Writable)) /\ Len(each) = last
  BY <1>2
<1>4. labels \in Seq(Writable)
  <2> HIDE DEF each
  <2> QED
    BY <1>3, Flattened
<1>5. FQDN(parts) = [labels |-> labels, absolute |-> parts[last].absolute]
         /\ labels # <<>> /\ ~(\E i \in DOMAIN labels : labels[i].key = 0)
         /\ ~(Octets(labels) > MaxName)
  BY DEF FQDN, Nothing
<1>6. last # 0
  <2> SUFFICES ASSUME last = 0
               PROVE  FALSE
    OBVIOUS
  <2>1. labels = <<>>
    <3> HIDE DEF each
    <3> QED
      BY <1>3 DEF FlattenSeq
  <2> QED
    BY <1>5, <2>1
<1>7. parts[last].absolute \in BOOLEAN
  BY <1>2, <1>6
<1>8. \A i \in DOMAIN labels : labels[i] \in Proper
  <2>1. \A i \in DOMAIN labels : labels[i] \in Writable
    BY <1>4
  <2>2. \A i \in DOMAIN labels : labels[i].key # 0
    BY <1>5
  <2> QED
    BY <2>1, <2>2 DEF Proper
<1>9. labels \in Seq(Proper)
  BY <1>4, <1>8
<1>10. Octets(labels) <= MaxName
  BY <1>4, <1>5, NamesAssumption DEF Octets
<1> PICK n : n = FQDN(parts)
  OBVIOUS
<1> PICK absolute \in BOOLEAN : absolute = parts[last].absolute
  BY <1>7
<1>11. n = [labels |-> labels, absolute |-> absolute]
  BY <1>5
<1>12. n.labels = labels /\ n.absolute = absolute
  BY <1>11
<1>13. IsValid(n)
  BY <1>5, <1>9, <1>10, <1>11, <1>12 DEF IsValid
<1> QED
  BY <1>13

\* The last labels of a name, and its keys.
LEMMA EndingIs ==
    ASSUME NEW S, NEW s \in Seq(S), NEW k \in 0..Len(s)
    PROVE  /\ Ending(s, k) \in Seq(S) /\ Len(Ending(s, k)) = k
           /\ \A i \in 1..k : Ending(s, k)[i] = s[Len(s) - k + i]
<1>1. PICK m \in Nat : m = Len(s) - k + 1
  OBVIOUS
<1>2. m \in 1..(Len(s) + 1)
  BY <1>1
<1>3. SubSeq(s, m, Len(s)) \in Seq(S) /\ Len(SubSeq(s, m, Len(s))) = k
         /\ \A i \in 1..k : SubSeq(s, m, Len(s))[i] = s[m + i - 1]
  BY <1>1, <1>2, SubSeqProperties
<1> QED
  BY <1>1, <1>3 DEF Ending

\* A name has a label, and a key for each.
LEMMA KeyIs ==
    ASSUME NEW n, IsValid(n)
    PROVE  /\ Len(n.labels) \in Nat \ {0} /\ DOMAIN n.labels = 1..Len(n.labels)
           /\ Key(n) \in Seq(Nat) /\ Len(Key(n)) = Len(n.labels)
           /\ \A i \in 1..Len(n.labels) : Key(n)[i] = n.labels[i].key
<1>1. n.labels \in Seq(Proper) /\ n.labels # <<>>
  BY DEF IsValid
<1>2. \A i \in 1..Len(n.labels) : n.labels[i].key \in Nat
  BY <1>1 DEF Proper, Writable, Label
<1> QED
  BY <1>1, <1>2 DEF Key

\* An operation that answers with a name at all answers with one that is valid.
Accepted(r) == r \notin Nothing => IsValid(r)

\* So do all operations on a name and a peer, and the endings of a name.
LEMMA DerivedIsValid ==
    ASSUME NEW n, IsValid(n), NEW p, IsValid(p)
    PROVE  /\ Accepted(Domain(n)) /\ Accepted(Reversed(n))
           /\ Accepted(Qualified(n, TRUE)) /\ Accepted(Qualified(n, FALSE))
           /\ Accepted(Under(n, p)) /\ Accepted(WithHostname(n, p))
           /\ Accepted(RelativeTo(n, p))
           /\ \A k \in 1..Len(n.labels) :
                /\ FromLabels(Ending(n.labels, k), n.absolute)
                      = [labels |-> Ending(n.labels, k), absolute |-> n.absolute]
                /\ IsValid(FromLabels(Ending(n.labels, k), n.absolute))
<1> PICK l \in Seq(Proper) : l = n.labels
  BY DEF IsValid
<1> PICK o \in Seq(Proper) : o = p.labels
  BY DEF IsValid
<1> PICK absolute \in BOOLEAN : absolute = n.absolute
  BY DEF IsValid
<1>1. l # <<>> /\ o # <<>>
  BY DEF IsValid
<1>2. Domain(n) \notin Nothing => IsValid(Domain(n))
  <2>1. Tail(l) \in Seq(Proper)
    BY <1>1
  <2>2. Domain(n) = None \/ Domain(n) = FromLabels(Tail(l), absolute)
    BY DEF Domain
  <2> QED
    BY <2>1, <2>2, FromLabelsIs DEF Nothing
<1>3. Reversed(n) \notin Nothing => IsValid(Reversed(n))
  <2>1. Reverse(l) \in Seq(Proper)
    BY DEF Reverse
  <2> QED
    BY <2>1, FromLabelsIs DEF Reversed
<1>4. ASSUME NEW b \in BOOLEAN
      PROVE  Qualified(n, b) \notin Nothing => IsValid(Qualified(n, b))
  BY FromLabelsIs DEF Qualified
<1>5. Under(n, p) \notin Nothing => IsValid(Under(n, p))
  <2>1. o \o l \in Seq(Proper)
    BY ConcatProperties
  <2> QED
    BY <2>1, FromLabelsIs DEF Under
<1>6. WithHostname(n, p) \notin Nothing => IsValid(WithHostname(n, p))
  <2>1. Tail(l) \in Seq(Proper)
    BY <1>1
  <2>2. o \o Tail(l) \in Seq(Proper)
    BY <2>1, ConcatProperties
  <2>3. WithHostname(n, p) = Bad \/ WithHostname(n, p) = FromLabels(o \o Tail(l), absolute)
    BY DEF WithHostname
  <2> QED
    BY <2>2, <2>3, FromLabelsIs DEF Nothing
<1>7. RelativeTo(n, p) \notin Nothing => IsValid(RelativeTo(n, p))
  <2> PICK no \in BOOLEAN : no = FALSE
    OBVIOUS
  <2> PICK part : part = SubSeq(l, 1, Len(l) - Len(o))
    OBVIOUS
  <2>1. IsSubdomainOf(n, p) => part \in Seq(Proper)
    BY DEF IsSubdomainOf
  <2>2. IF IsSubdomainOf(n, p) THEN RelativeTo(n, p) = FromLabels(part, no)
                               ELSE RelativeTo(n, p) = Bad
    BY DEF RelativeTo
  <2> QED
    BY <2>1, <2>2, FromLabelsIs DEF Nothing
<1>8. ASSUME NEW k \in 1..Len(n.labels)
      PROVE  /\ FromLabels(Ending(n.labels, k), n.absolute)
                    = [labels |-> Ending(n.labels, k), absolute |-> n.absolute]
             /\ IsValid(FromLabels(Ending(n.labels, k), n.absolute))
  <2> PICK e : e = Ending(l, k)
    OBVIOUS
  <2>1. e \in Seq(Proper) /\ Len(e) = k
    BY EndingIs
  <2>2. e # <<>> /\ Octets(e) <= MaxName
    BY <2>1, NamesAssumption DEF Octets, IsValid
  <2>3. FromLabels(e, absolute) = [labels |-> e, absolute |-> absolute]
    BY <2>1, <2>2, FromLabelsIs
  <2>4. FromLabels(e, absolute) \notin Nothing
    BY <2>3, NameIsNotBad
  <2> QED
    BY <2>1, <2>3, <2>4, FromLabelsIs
<1> QED
  <2>1. Accepted(Domain(n)) /\ Accepted(Reversed(n)) /\ Accepted(Under(n, p))
          /\ Accepted(WithHostname(n, p)) /\ Accepted(RelativeTo(n, p))
    BY <1>2, <1>3, <1>5, <1>6, <1>7 DEF Accepted
  <2>2. Accepted(Qualified(n, TRUE)) /\ Accepted(Qualified(n, FALSE))
    BY <1>4, Zenon DEF Accepted
  <2> QED
    BY <1>8, <2>1, <2>2, Zenon

\* A name reads back from its own text, except where that reads as an address.
LEMMA ReadsBack ==
    ASSUME NEW n, IsValid(n)
    PROVE  FQDN(<<Text(n)>>) = IF ReadsAsAddress(n.labels) THEN Bad ELSE n
<1> PICK l \in Seq(Proper) : l = n.labels
  BY DEF IsValid
<1> PICK absolute \in BOOLEAN : absolute = n.absolute
  BY DEF IsValid
<1>1. n = [labels |-> l, absolute |-> absolute] /\ l # <<>> /\ Octets(l) <= MaxName
  BY DEF IsValid
<1> PICK part : part = Text(n)
  OBVIOUS
<1>2. part = [labels |-> l, absolute |-> absolute, text |-> TRUE]
  BY DEF Text
<1>3. part.labels = l /\ part.absolute = absolute
  BY <1>2
<1> DEFINE parts == <<part>>
           each == [i \in DOMAIN parts |-> parts[i].labels]
<1>4. Len(parts) = 1 /\ DOMAIN parts = 1..1 /\ parts[1] = part
  OBVIOUS
<1>5. each \in Seq(Seq(Proper)) /\ Len(each) = 1 /\ each[1] = l
  BY <1>3, <1>4
<1>6. FlattenSeq(each) = l
  <2> HIDE DEF each
  <2> QED
    BY <1>5, Flattened
<1> PICK labels : labels = FlattenSeq(each)
  OBVIOUS
<1>7. labels = l
  BY <1>6
<1>8. ~(\E i \in DOMAIN parts : parts[i].labels = <<>> /\ ~parts[i].absolute)
         /\ ~(\E i \in 1..(Len(parts) - 1) : parts[i].text /\ parts[i].absolute)
  BY <1>1, <1>3, <1>4
<1>9. ~(\E i \in DOMAIN l : l[i].key = 0)
  BY DEF Proper
<1>10. ~(Octets(l) > MaxName)
  BY <1>1, NamesAssumption DEF Octets
<1> HIDE DEF parts
<1>11. IF ReadsAsAddress(l) THEN FQDN(parts) = Bad
       ELSE FQDN(parts) = [labels |-> l, absolute |-> parts[Len(parts)].absolute]
  BY <1>1, <1>7, <1>8, <1>9, <1>10 DEF FQDN
<1>12. IF ReadsAsAddress(l) THEN FQDN(parts) = Bad ELSE FQDN(parts) = n
  BY <1>1, <1>3, <1>4, <1>11
<1> QED
  BY <1>12 DEF parts

\* A name holds another where it is the other's last labels.
LEMMA HoldingIs ==
    ASSUME NEW z, NEW n, IsValid(z), IsValid(n)
    PROVE  Holding(z, n) <=>
              /\ Len(z.labels) <= Len(n.labels)
              /\ Ending(Key(n), Len(z.labels)) = Key(z)
<1> PICK s \in Seq(Nat) : s = Key(n) /\ Len(s) = Len(n.labels)
  BY KeyIs
<1> PICK t \in Seq(Nat) : t = Key(z) /\ Len(t) = Len(z.labels)
  BY KeyIs
<1>1. ASSUME NEW k \in 0..Len(s)
      PROVE  Len(SubSeq(s, k + 1, Len(s))) = Len(s) - k
  BY <1>1, SubSeqProperties
<1>2. ASSUME Len(t) <= Len(s), Ending(s, Len(t)) = t
      PROVE  \E k \in 0..Len(s) : SubSeq(s, k + 1, Len(s)) = t
  <2> PICK a \in Nat, b \in Nat : a = Len(s) /\ b = Len(t)
    BY LenProperties
  <2>1. b <= a
    BY <1>2
  <2>2. a - b \in 0..a
    BY ONLY <2>1, a \in Nat, b \in Nat
  <2>3. PICK k \in 0..Len(s) : k = Len(s) - Len(t)
    BY <2>2
  <2>4. k + 1 = Len(s) - Len(t) + 1
    BY <2>3
  <2> QED
    BY <1>2, <2>4 DEF Ending
<1>3. ASSUME NEW k \in 0..Len(s), SubSeq(s, k + 1, Len(s)) = t
      PROVE  Len(t) <= Len(s) /\ Ending(s, Len(t)) = t
  <2>1. Len(t) = Len(s) - k
    BY <1>1, <1>3
  <2>2. k + 1 = Len(s) - Len(t) + 1
    BY <2>1
  <2> QED
    BY <1>3, <2>1, <2>2 DEF Ending
<1> QED
  BY <1>2, <1>3 DEF Holding

\* The ancestors of a name are its endings.
EndingOf(n, k) == [labels |-> Ending(n.labels, k), absolute |-> n.absolute]

Lineage(n) == {n} \union ToSet(Domains(n))

LEMMA LineageIs ==
    ASSUME NEW n, IsValid(n)
    PROVE  Lineage(n) = {EndingOf(n, k) : k \in 1..Len(n.labels)}
<1> PICK l \in Seq(Proper) : l = n.labels /\ Len(l) \in Nat \ {0}
  BY KeyIs DEF IsValid
<1> PICK m \in Nat \ {0} : m = Len(l)
  OBVIOUS
<1>1. n = EndingOf(n, m)
  <2>1. \A k \in 0..Len(l) :
            /\ Ending(l, k) \in Seq(Proper) /\ Len(Ending(l, k)) = k
            /\ \A i \in 1..k : Ending(l, k)[i] = l[Len(l) - k + i]
    BY EndingIs
  <2>2. m \in 0..Len(l)
    OBVIOUS
  <2> PICK e : e = Ending(l, m)
    OBVIOUS
  <2>3. e \in Seq(Proper) /\ Len(e) = m /\ \A i \in 1..m : e[i] = l[Len(l) - m + i]
    BY ONLY <2>1, <2>2, e = Ending(l, m), m \in Nat \ {0}
  <2>4. \A i \in 1..m : e[i] = l[i]
    BY <2>3
  <2>5. Ending(l, m) = l
    BY <2>3, <2>4, SeqEqual
  <2>6. n = [labels |-> n.labels, absolute |-> n.absolute]
    BY DEF IsValid
  <2> QED
    BY <2>5, <2>6 DEF EndingOf
<1>2. ASSUME NEW k \in 1..m
      PROVE  FromLabels(Ending(n.labels, k), n.absolute) = EndingOf(n, k)
  BY DerivedIsValid DEF EndingOf
<1>3. DOMAIN Domains(n) = 1..(m - 1)
         /\ \A i \in 1..(m - 1) : Domains(n)[i] = EndingOf(n, m - i)
  <2> SUFFICES ASSUME NEW i \in 1..(m - 1)
               PROVE  FromLabels(Ending(n.labels, m - i), n.absolute) = EndingOf(n, m - i)
    BY DEF Domains
  <2>1. m - i \in 1..m
    OBVIOUS
  <2> QED
    BY <1>2, <2>1
<1>4. ToSet(Domains(n)) = {EndingOf(n, m - i) : i \in 1..(m - 1)}
  BY <1>3 DEF ToSet
<1>5. \A k \in 1..m : k = m \/ (m - k \in 1..(m - 1) /\ m - (m - k) = k)
  OBVIOUS
<1>6. \A i \in 1..(m - 1) : m - i \in 1..m
  OBVIOUS
<1> QED
  BY <1>1, <1>4, <1>5, <1>6 DEF Lineage

\* The keys of an ending, and whom it holds.
LEMMA EndingOfIs ==
    ASSUME NEW n, IsValid(n), NEW k \in 1..Len(n.labels)
    PROVE  /\ IsValid(EndingOf(n, k)) /\ Len(EndingOf(n, k).labels) = k
           /\ Key(EndingOf(n, k)) = Ending(Key(n), k)
<1> PICK l \in Seq(Proper) : l = n.labels
  BY DEF IsValid
<1>1. PICK e \in Seq(Proper) : e = Ending(l, k) /\ Len(e) = k
             /\ \A i \in 1..k : e[i] = l[Len(l) - k + i]
  BY EndingIs
<1>2. FromLabels(Ending(n.labels, k), n.absolute) = EndingOf(n, k)
         /\ IsValid(FromLabels(Ending(n.labels, k), n.absolute))
  BY DerivedIsValid DEF EndingOf
<1>3. PICK a : a = EndingOf(n, k)
  OBVIOUS
<1>4. a.labels = e /\ IsValid(a)
  BY <1>1, <1>2, <1>3 DEF EndingOf
<1>5. PICK short \in Seq(Nat) : short = Key(a) /\ Len(short) = k
             /\ \A i \in 1..k : short[i] = e[i].key
  <2>1. /\ Key(a) \in Seq(Nat) /\ Len(Key(a)) = Len(a.labels)
        /\ \A i \in 1..Len(a.labels) : Key(a)[i] = a.labels[i].key
    BY <1>4, KeyIs
  <2> QED
    BY <1>1, <1>4, <2>1
<1>6. PICK key \in Seq(Nat) : key = Key(n) /\ Len(key) = Len(l)
             /\ \A i \in 1..Len(l) : key[i] = l[i].key
  BY KeyIs
<1>7. PICK end \in Seq(Nat) : end = Ending(key, k) /\ Len(end) = k
             /\ \A i \in 1..k : end[i] = key[Len(key) - k + i]
  <2>1. k \in 0..Len(key)
    BY <1>6
  <2> QED
    BY <2>1, EndingIs
<1>8. \A i \in 1..k : Len(l) - k + i \in 1..Len(l)
  OBVIOUS
<1>9. \A i \in 1..k : short[i] = end[i]
  <2> SUFFICES ASSUME NEW i \in 1..k
               PROVE  short[i] = end[i]
    OBVIOUS
  <2>1. PICK j \in 1..Len(l) : j = Len(l) - k + i
    BY <1>8
  <2>2. short[i] = l[j].key
    <3>1. short[i] = e[i].key
      BY ONLY <1>5, i \in 1..k
    <3>2. e[i] = l[j]
      BY ONLY <1>1, <2>1, i \in 1..k
    <3> QED
      BY ONLY <3>1, <3>2
  <2>3. end[i] = l[j].key
    <3>1. end[i] = key[j]
      BY ONLY <1>6, <1>7, <2>1, i \in 1..k
    <3> QED
      BY ONLY <1>6, <3>1, j \in 1..Len(l)
  <2> QED
    BY <2>2, <2>3
<1>10. Key(a) = Ending(Key(n), k)
  BY <1>5, <1>6, <1>7, <1>9, SeqEqual
<1> QED
  BY <1>1, <1>3, <1>4, <1>10

\* One name is at or under another, or properly under it, where it is held.
LEMMA RelationsAgree ==
    ASSUME NEW n, NEW p, IsValid(n), IsValid(p)
    PROVE  /\ AtOrUnder(p, n) <=> Holding(p, n)
           /\ AtOrUnder(p, n) <=> \E a \in Lineage(n) : Key(a) = Key(p)
           /\ IsSubdomainOf(n, p) <=> Holding(p, n) /\ Key(p) # Key(n)
<1> PICK s \in Seq(Nat) : s = Key(n) /\ Len(s) = Len(n.labels)
  BY KeyIs
<1> PICK t \in Seq(Nat) : t = Key(p) /\ Len(t) = Len(p.labels)
  BY KeyIs
<1> PICK a \in Nat \ {0}, b \in Nat \ {0} : a = Len(n.labels) /\ b = Len(p.labels)
  BY KeyIs
<1>1. AtOrUnder(p, n) <=> Holding(p, n)
  BY HoldingIs DEF AtOrUnder
<1>2. Lineage(n) = {EndingOf(n, k) : k \in 1..a}
  BY LineageIs
<1>3. ASSUME NEW k \in 1..a
      PROVE  Key(EndingOf(n, k)) = Ending(s, k) /\ Len(Ending(s, k)) = k
  <2>1. \A j \in 0..Len(s) : Len(Ending(s, j)) = j
    BY EndingIs
  <2>2. Key(EndingOf(n, k)) = Ending(s, k)
    BY EndingOfIs
  <2> QED
    BY <2>1, <2>2
<1>4. Holding(p, n) <=> b <= a /\ Ending(s, b) = t
  BY HoldingIs
<1>5. ASSUME NEW k \in 1..a, Ending(s, k) = t
      PROVE  b <= a /\ Ending(s, b) = t
  BY <1>3, <1>5
<1>6. (\E x \in Lineage(n) : Key(x) = Key(p)) <=> \E k \in 1..a : Ending(s, k) = t
  BY <1>2, <1>3
<1>7. b <= a => b \in 1..a
  OBVIOUS
<1>8. AtOrUnder(p, n) <=> \E x \in Lineage(n) : Key(x) = Key(p)
  BY <1>1, <1>4, <1>5, <1>6, <1>7
<1>9. a = b /\ Ending(s, b) = t => s = t
  <2> SUFFICES ASSUME a = b, Ending(s, b) = t
               PROVE  s = t
    OBVIOUS
  <2>1. \A j \in 0..Len(s) : \A i \in 1..j : Ending(s, j)[i] = s[Len(s) - j + i]
    BY ONLY s \in Seq(Nat), EndingIs
  <2>2. b \in 0..Len(s) /\ Len(s) = b /\ Len(t) = b
    OBVIOUS
  <2>3. \A i \in 1..b : t[i] = s[i]
    BY ONLY <2>1, <2>2, Ending(s, b) = t, b \in Nat \ {0}
  <2> QED
    BY <2>2, <2>3, SeqEqual
<1>10. IsSubdomainOf(n, p) <=> b < a /\ Ending(s, b) = t
  BY DEF IsSubdomainOf
<1>11. Key(p) = Key(n) <=> s = t
  OBVIOUS
<1>12. s = t => a = b
  OBVIOUS
<1>13. IsSubdomainOf(n, p) <=> Holding(p, n) /\ Key(p) # Key(n)
  BY <1>4, <1>9, <1>10, <1>11, <1>12
<1> QED
  BY <1>1, <1>8, <1>13

\* What is relative to a domain goes back under it.
LEMMA GoesBackUnder ==
    ASSUME NEW n, NEW p, IsValid(n), IsValid(p), IsSubdomainOf(n, p)
    PROVE  Key(Under(p, RelativeTo(n, p))) = Key(n)
<1> PICK l \in Seq(Proper) : l = n.labels
  BY DEF IsValid
<1> PICK o \in Seq(Proper) : o = p.labels
  BY DEF IsValid
<1> PICK a \in Nat \ {0}, b \in Nat \ {0} : a = Len(l) /\ b = Len(o)
  BY KeyIs
<1> PICK absolute \in BOOLEAN : absolute = p.absolute
  BY DEF IsValid
<1> PICK no \in BOOLEAN : no = FALSE
  OBVIOUS
<1>1. b < a
  BY DEF IsSubdomainOf
<1>2. PICK c \in Nat \ {0} : a = b + c /\ Len(l) - Len(o) = c
  <2>1. a - b \in Nat \ {0} /\ a = b + (a - b)
    BY ONLY <1>1, a \in Nat \ {0}, b \in Nat \ {0}
  <2> QED
    BY <2>1
<1>3. PICK part \in Seq(Proper) : part = SubSeq(l, 1, c) /\ Len(part) = c
            /\ \A i \in 1..c : part[i] = l[i]
  <2>1. c <= Len(l)
    BY <1>2
  <2>2. SubSeq(l, 1, c) \in Seq(Proper) /\ Len(SubSeq(l, 1, c)) = c
          /\ \A i \in 1..c : SubSeq(l, 1, c)[i] = l[i]
    BY ONLY <2>1, l \in Seq(Proper), c \in Nat \ {0}
  <2> QED
    BY <2>2
<1>4. PICK r : r = RelativeTo(n, p)
  OBVIOUS
<1>5. r = FromLabels(part, no)
  BY <1>2, <1>3, <1>4 DEF RelativeTo
<1>6. Octets(l) <= MaxName /\ MaxName \in Nat
  BY NamesAssumption DEF IsValid
<1>7. part # <<>> /\ Octets(part) <= MaxName
  <2>1. 2 * a - 1 <= MaxName
    BY <1>6 DEF Octets
  <2>2. 2 * c - 1 <= MaxName
    BY ONLY <1>2, <1>6, <2>1, a \in Nat, b \in Nat, c \in Nat
  <2> QED
    BY <1>3, <2>2 DEF Octets
<1>8. r.labels = part
  <2>1. r = [labels |-> part, absolute |-> no]
    BY <1>5, <1>7, FromLabelsIs
  <2> QED
    BY <2>1
<1>9. PICK whole \in Seq(Proper) : whole = part \o o /\ Len(whole) = a
            /\ \A i \in 1..a : whole[i] = IF i <= c THEN part[i] ELSE o[i - c]
  <2>1. /\ part \o o \in Seq(Proper) /\ Len(part \o o) = Len(part) + Len(o)
        /\ \A i \in 1..(Len(part) + Len(o)) :
              (part \o o)[i] = IF i <= Len(part) THEN part[i] ELSE o[i - Len(part)]
    BY ConcatProperties
  <2>2. Len(part) + Len(o) = a /\ Len(part) = c
    BY ONLY <1>2, <1>3, b = Len(o), b \in Nat, c \in Nat
  <2> QED
    BY <2>1, <2>2
<1>10. PICK u : u = Under(p, r)
  OBVIOUS
<1>11. u = FromLabels(whole, absolute)
  BY <1>8, <1>9, <1>10 DEF Under
<1>12. whole # <<>> /\ Octets(whole) <= MaxName
  BY <1>6, <1>9 DEF Octets
<1>13. u.labels = whole
  <2>1. u = [labels |-> whole, absolute |-> absolute]
    BY <1>11, <1>12, FromLabelsIs
  <2> QED
    BY <2>1
<1>14. IsValid(u)
  BY <1>11, <1>12, FromLabelsIs, NameIsNotBad
<1>15. PICK s \in Seq(Nat) : s = Key(n) /\ Len(s) = a /\ \A i \in 1..a : s[i] = l[i].key
  BY KeyIs
<1>16. PICK t \in Seq(Nat) : t = Key(p) /\ Len(t) = b /\ \A i \in 1..b : t[i] = o[i].key
  BY KeyIs
<1>17. PICK w \in Seq(Nat) : w = Key(u) /\ Len(w) = a /\ \A i \in 1..a : w[i] = whole[i].key
  <2>1. /\ Key(u) \in Seq(Nat) /\ Len(Key(u)) = Len(u.labels)
        /\ \A i \in 1..Len(u.labels) : Key(u)[i] = u.labels[i].key
    BY <1>14, KeyIs
  <2>2. Len(u.labels) = a
    BY ONLY <1>9, <1>13
  <2>3. \A i \in 1..a : Key(u)[i] = whole[i].key
    BY ONLY <1>13, <2>1, <2>2
  <2> QED
    BY ONLY <2>1, <2>2, <2>3
<1>18. \A i \in 1..b : t[i] = s[c + i]
  <2>1. Ending(s, b) = t
    BY <1>15, <1>16 DEF IsSubdomainOf
  <2>2. \A j \in 0..Len(s) : \A i \in 1..j : Ending(s, j)[i] = s[Len(s) - j + i]
    BY EndingIs
  <2>3. \A i \in 1..b : t[i] = s[c + i]
    <3>1. b \in 0..Len(s)
      BY ONLY <1>2, <1>15, a \in Nat, b \in Nat, c \in Nat
    <3>2. \A i \in 1..b : t[i] = s[Len(s) - b + i]
      BY ONLY <2>1, <2>2, <3>1
    <3>3. \A i \in 1..b : Len(s) - b + i = c + i
      BY ONLY <1>2, <1>15, a \in Nat, b \in Nat, c \in Nat
    <3> QED
      BY ONLY <3>2, <3>3
  <2> QED
    BY <2>3
<1>19. \A i \in 1..a : w[i] = s[i]
  <2> SUFFICES ASSUME NEW i \in 1..a
               PROVE  w[i] = s[i]
    OBVIOUS
  <2>1. CASE i <= c
    <3>1. i \in 1..c
      BY <2>1
    <3>2. whole[i] = l[i]
      BY <1>3, <1>9, <2>1, <3>1
    <3>3. w[i] = whole[i].key /\ s[i] = l[i].key
      BY <1>15, <1>17
    <3> QED
      BY <3>2, <3>3
  <2>2. CASE ~(i <= c)
    <3>1. i - c \in 1..b /\ i = c + (i - c)
      BY ONLY <1>2, <2>2, i \in 1..a, a \in Nat, b \in Nat, c \in Nat
    <3>2. PICK j \in 1..b : j = i - c /\ i = c + j
      BY <3>1
    <3>3. w[i] = o[j].key
      BY <1>9, <1>17, <2>2, <3>2
    <3> QED
      BY <1>16, <1>18, <3>2, <3>3
  <2> QED
    BY <2>1, <2>2
<1> QED
  BY <1>4, <1>10, <1>15, <1>17, <1>19, SeqEqual

\* The last labels of the last labels are the last of all.
LEMMA EndingTwice ==
    ASSUME NEW S, NEW s \in Seq(S), NEW h \in 0..Len(s), NEW k \in 0..h
    PROVE  Ending(Ending(s, h), k) = Ending(s, k)
<1>1. PICK e \in Seq(S) : e = Ending(s, h) /\ Len(e) = h
             /\ \A i \in 1..h : e[i] = s[Len(s) - h + i]
  BY EndingIs
<1>2. k \in 0..Len(e) /\ k \in 0..Len(s)
  BY <1>1
<1>3. PICK f \in Seq(S) : f = Ending(e, k) /\ Len(f) = k
             /\ \A i \in 1..k : f[i] = e[Len(e) - k + i]
  BY <1>2, EndingIs
<1>4. PICK g \in Seq(S) : g = Ending(s, k) /\ Len(g) = k
             /\ \A i \in 1..k : g[i] = s[Len(s) - k + i]
  <2>1. Ending(s, k) \in Seq(S) /\ Len(Ending(s, k)) = k
          /\ \A i \in 1..k : Ending(s, k)[i] = s[Len(s) - k + i]
    BY <1>2, EndingIs
  <2> QED
    BY <2>1
<1>5. \A i \in 1..k : f[i] = g[i]
  <2> SUFFICES ASSUME NEW i \in 1..k
               PROVE  f[i] = g[i]
    OBVIOUS
  <2>1. h - k + i \in 1..h /\ Len(s) - h + (h - k + i) = Len(s) - k + i
    OBVIOUS
  <2>2. f[i] = e[h - k + i]
    BY <1>1, <1>3
  <2>3. e[h - k + i] = s[Len(s) - k + i]
    BY <1>1, <2>1
  <2> QED
    BY <1>4, <2>2, <2>3
<1> QED
  BY <1>1, <1>3, <1>4, <1>5, SeqEqual

\* The common ancestor is the nearest domain of both.
LEMMA CommonIsNearest ==
    ASSUME NEW n, NEW p, IsValid(n), IsValid(p),
           NEW above, above = {a \in Lineage(n) : Holding(a, p)}
    PROVE  IF above = {} THEN CommonAncestor(n, p) = None
           ELSE /\ CommonAncestor(n, p) \in above
                /\ \A a \in above : Holding(a, CommonAncestor(n, p))
<1> PICK s \in Seq(Nat) : s = Key(n) /\ Len(s) = Len(n.labels)
  BY KeyIs
<1> PICK t \in Seq(Nat) : t = Key(p) /\ Len(t) = Len(p.labels)
  BY KeyIs
<1> PICK a \in Nat \ {0}, b \in Nat \ {0} : a = Len(n.labels) /\ b = Len(p.labels)
  BY KeyIs
<1> DEFINE Q == {k \in 0..Min({a, b}) : Ending(s, k) = Ending(t, k)}
<1>1. PICK m \in Nat : m = Min({a, b}) /\ m \in {a, b} /\ m <= a /\ m <= b
  <2>1. {a, b} \in SUBSET Nat /\ {a, b} # {}
    OBVIOUS
  <2> QED
    BY <2>1, MinOf
<1>2. \A k \in Nat : k \in Q <=> k <= a /\ k <= b /\ Ending(s, k) = Ending(t, k)
  BY <1>1
<1>3. 0 \in Q
  <2>1. 0 \in 0..Len(s) /\ 0 \in 0..Len(t)
    OBVIOUS
  <2>2. Ending(s, 0) \in Seq(Nat) /\ Ending(t, 0) \in Seq(Nat)
          /\ Len(Ending(s, 0)) = 0 /\ Len(Ending(t, 0)) = 0
    BY <2>1, EndingIs
  <2>3. Ending(s, 0) = Ending(t, 0)
    BY <2>2
  <2> HIDE DEF Q
  <2> QED
    BY ONLY <1>2, <2>3, a \in Nat, b \in Nat
<1>4. Q \in SUBSET Nat /\ Q # {} /\ \A k \in Q : k <= m
  <2>1. Q \in SUBSET (0..m)
    BY <1>1
  <2> HIDE DEF Q
  <2> QED
    BY <1>3, <2>1
<1>5. Max(Q) \in Q /\ \A k \in Q : k <= Max(Q)
  <2> HIDE DEF Q
  <2> QED
    BY <1>4, MaxOf
<1>6. PICK h \in Nat : h = Max(Q) /\ h \in Q /\ \A k \in Q : k <= h
  BY <1>4, <1>5
<1>7. Shared(n, p) = h
  BY <1>6 DEF Shared
<1>8. h <= a
  BY <1>2, <1>6
<1> HIDE DEF Q
<1>9. ASSUME NEW k \in 1..a
      PROVE  Holding(EndingOf(n, k), p) <=> k \in Q
  <2>1. IsValid(EndingOf(n, k)) /\ Len(EndingOf(n, k).labels) = k
          /\ Key(EndingOf(n, k)) = Ending(s, k)
    BY EndingOfIs
  <2>2. Holding(EndingOf(n, k), p) <=> k <= b /\ Ending(t, k) = Ending(s, k)
    BY <2>1, HoldingIs
  <2> QED
    BY <1>2, <2>2
<1>10. Lineage(n) = {EndingOf(n, k) : k \in 1..a}
  BY LineageIs
<1>11. \A x : x \in above <=> \E k \in 1..a : x = EndingOf(n, k) /\ k \in Q
  BY <1>9, <1>10
<1>12. CASE h = 0
  <2>1. \A k \in 1..a : k \notin Q
    BY <1>6, <1>12
  <2>2. above = {}
    BY <1>11, <2>1
  <2> QED
    BY <1>7, <1>12, <2>2 DEF CommonAncestor
<1>13. CASE h # 0
  <2>1. h \in 1..a
    BY <1>8, <1>13
  <2>2. CommonAncestor(n, p) = EndingOf(n, h)
    <3>1. CommonAncestor(n, p) = FromLabels(Ending(n.labels, h), n.absolute)
      BY <1>7, <1>13 DEF CommonAncestor
    <3> QED
      BY <2>1, <3>1, DerivedIsValid DEF EndingOf
  <2>3. EndingOf(n, h) \in above
    BY <1>6, <1>11, <2>1
  <2>4. ASSUME NEW x \in above
        PROVE  Holding(x, EndingOf(n, h))
    <3>1. PICK k \in 1..a : x = EndingOf(n, k) /\ k \in Q
      BY <1>11, <2>4
    <3>2. k <= h
      BY <1>6, <3>1
    <3>3. IsValid(x) /\ Len(x.labels) = k /\ Key(x) = Ending(s, k)
      BY <3>1, EndingOfIs
    <3>4. IsValid(EndingOf(n, h)) /\ Len(EndingOf(n, h).labels) = h
            /\ Key(EndingOf(n, h)) = Ending(s, h)
      BY <2>1, EndingOfIs
    <3>5. Ending(Ending(s, h), k) = Ending(s, k)
      <4>1. h \in 0..Len(s) /\ k \in 0..h
        BY <2>1, <3>2
      <4> QED
        BY <4>1, EndingTwice
    <3> QED
      BY <3>2, <3>3, <3>4, <3>5, HoldingIs
  <2> QED
    BY <2>2, <2>3, <2>4
<1> QED
  BY <1>12, <1>13
-----------------------------------------------------------------------------
(* Names: the order.                                                          *)

\* The order of tuples is total and strict, and keeps those together that
\* begin in the same way.
LEMMA OrderIsTotal ==
    ASSUME NEW s \in Seq(Nat), NEW t \in Seq(Nat)
    PROVE  Before(s, t) \/ Before(t, s) \/ s = t
<1> DEFINE D == {i \in 1..Len(s) : i <= Len(t) /\ s[i] # t[i]}
<1>1. CASE D = {}
  <2>1. \A j \in DOMAIN s \cap DOMAIN t : s[j] = t[j]
    BY ONLY SMTT(30), <1>1, s \in Seq(Nat), t \in Seq(Nat)
  <2>2. CASE Len(s) < Len(t)
    <3>1. \A j \in DOMAIN s : s[j] = t[j]
      BY <2>1, <2>2
    <3> QED
      BY <2>2, <3>1 DEF Before
  <2>3. CASE Len(t) < Len(s)
    <3>1. \A j \in DOMAIN t : t[j] = s[j]
      BY <2>1, <2>3
    <3> QED
      BY <2>3, <3>1 DEF Before
  <2>4. CASE Len(s) = Len(t)
    <3>1. \A j \in 1..Len(s) : s[j] = t[j]
      <4>1. DOMAIN s = 1..Len(s) /\ DOMAIN t = 1..Len(s)
        BY <2>4
      <4> QED
        BY <2>1, <4>1
    <3> QED
      BY <2>4, <3>1, SeqEqual
  <2> QED
    BY <2>2, <2>3, <2>4
<1>2. CASE D # {}
  <2>1. D \in SUBSET Nat
    OBVIOUS
  <2>2. Min(D) \in D /\ \A j \in D : Min(D) <= j
    <3> HIDE DEF D
    <3> QED
      BY <1>2, <2>1, MinOf
  <2>3. PICK i \in 1..Len(s) : i = Min(D) /\ i <= Len(t) /\ s[i] # t[i]
    BY <2>2
  <2>4. \A j \in 1..(i - 1) : s[j] = t[j]
    <3> SUFFICES ASSUME NEW j \in 1..(i - 1), s[j] # t[j]
                 PROVE  FALSE
      OBVIOUS
    <3>1. j \in 1..Len(s) /\ j <= Len(t)
      BY ONLY SMTT(30), <2>3, j \in 1..(i - 1), s \in Seq(Nat), t \in Seq(Nat)
    <3>2. j \in D
      BY <3>1
    <3>3. i <= j
      BY <2>2, <2>3, <3>2
    <3> QED
      BY <3>3
  <2>5. i \in DOMAIN s \cap DOMAIN t /\ s[i] \in Nat /\ t[i] \in Nat
    BY <2>3
  <2>6. s[i] < t[i] \/ t[i] < s[i]
    BY <2>3, <2>5
  <2> HIDE DEF D
  <2> QED
    BY <2>4, <2>5, <2>6 DEF Before
<1> QED
  BY <1>1, <1>2

\* No tuple is before one that is before it, or before itself.
LEMMA OrderIsStrict ==
    ASSUME NEW s \in Seq(Nat), NEW t \in Seq(Nat), Before(s, t)
    PROVE  ~Before(t, s) /\ s # t
<1>1. CASE \E i \in DOMAIN s \cap DOMAIN t :
              s[i] < t[i] /\ \A j \in 1..(i - 1) : s[j] = t[j]
  <2>1. PICK i \in DOMAIN s \cap DOMAIN t :
              s[i] < t[i] /\ \A j \in 1..(i - 1) : s[j] = t[j]
    BY <1>1
  <2>2. i \in Nat \ {0} /\ s[i] \in Nat /\ t[i] \in Nat
    BY <2>1
  <2>3. ASSUME NEW k \in DOMAIN s \cap DOMAIN t,
               t[k] < s[k], \A j \in 1..(k - 1) : t[j] = s[j]
        PROVE  FALSE
    <3>1. k \in Nat \ {0} /\ s[k] \in Nat /\ t[k] \in Nat
      OBVIOUS
    <3>2. k = i \/ k \in 1..(i - 1) \/ i \in 1..(k - 1)
      BY <2>2, <3>1
    <3> QED
      BY <2>1, <2>2, <2>3, <3>1, <3>2
  <2>4. ~(\A j \in DOMAIN t : t[j] = s[j])
    BY <2>1, <2>2
  <2> QED
    BY <2>1, <2>2, <2>3, <2>4 DEF Before
<1>2. CASE Len(s) < Len(t) /\ \A j \in DOMAIN s : s[j] = t[j]
  <2>1. ~(Len(t) < Len(s)) /\ s # t
    BY <1>2
  <2>2. ASSUME NEW k \in DOMAIN s \cap DOMAIN t, t[k] < s[k]
        PROVE  FALSE
    BY <1>2, <2>2
  <2> QED
    BY <2>1, <2>2 DEF Before
<1> QED
  BY <1>1, <1>2 DEF Before

\* s begins with z.
Starts(s, z) == Len(z) <= Len(s) /\ \A j \in 1..Len(z) : s[j] = z[j]

\* Where two tuples first differ, the earlier one has the smaller number or ends.
LEMMA FirstDifference ==
    ASSUME NEW s \in Seq(Nat), NEW t \in Seq(Nat), Before(s, t) \/ s = t,
           NEW i \in Nat \ {0}, \A j \in 1..(i - 1) : j <= Len(t) /\ s[j] = t[j],
           i <= Len(s), i <= Len(t) => s[i] # t[i]
    PROVE  i <= Len(t) /\ s[i] < t[i]
<1>1. s # t
  OBVIOUS
<1>2. CASE \E k \in DOMAIN s \cap DOMAIN t :
              s[k] < t[k] /\ \A j \in 1..(k - 1) : s[j] = t[j]
  <2>1. PICK k \in DOMAIN s \cap DOMAIN t :
              s[k] < t[k] /\ \A j \in 1..(k - 1) : s[j] = t[j]
    BY <1>2
  <2>2. k \in Nat \ {0} /\ k <= Len(t) /\ s[k] \in Nat /\ t[k] \in Nat
    BY <2>1
  <2>3. k = i \/ k \in 1..(i - 1) \/ i \in 1..(k - 1)
    BY <2>2
  <2>4. k \notin 1..(i - 1)
    BY <2>1, <2>2
  <2>5. i \notin 1..(k - 1)
    BY <2>1, <2>2
  <2> QED
    BY <2>1, <2>2, <2>3, <2>4, <2>5
<1>3. CASE Len(s) < Len(t) /\ \A j \in DOMAIN s : s[j] = t[j]
  <2>1. i \in DOMAIN s /\ i <= Len(t)
    BY <1>3
  <2> QED
    BY <1>3, <2>1
<1> QED
  BY <1>1, <1>2, <1>3 DEF Before

\* What lies between two tuples that begin with z begins with it.
LEMMA OrderKeepsTogether ==
    ASSUME NEW s \in Seq(Nat), NEW t \in Seq(Nat), NEW u \in Seq(Nat), NEW z \in Seq(Nat),
           Before(s, t) \/ s = t, Before(t, u) \/ t = u, Starts(s, z), Starts(u, z)
    PROVE  Starts(t, z)
<1> DEFINE D == {i \in 1..Len(z) : ~(i <= Len(t) /\ t[i] = z[i])}
<1>1. CASE D = {}
  <2>1. \A i \in 1..Len(z) : i <= Len(t) /\ t[i] = z[i]
    BY ONLY <1>1
  <2>2. Len(z) <= Len(t)
    <3>1. PICK m \in Nat, k \in Nat : m = Len(z) /\ k = Len(t)
      BY LenProperties
    <3>2. m # 0 => m \in 1..m
      BY ONLY m \in Nat
    <3>3. m # 0 => m <= k
      BY ONLY <2>1, <3>1, <3>2
    <3> QED
      BY ONLY <3>1, <3>3, m \in Nat, k \in Nat
  <2> QED
    BY <2>1, <2>2 DEF Starts
<1>2. CASE D # {}
  <2>1. D \in SUBSET Nat
    OBVIOUS
  <2>2. Min(D) \in D /\ \A j \in D : Min(D) <= j
    <3> HIDE DEF D
    <3> QED
      BY <1>2, <2>1, MinOf
  <2>3. PICK i \in 1..Len(z) : i = Min(D) /\ ~(i <= Len(t) /\ t[i] = z[i])
    BY <2>2
  <2>4. \A j \in 1..(i - 1) : j <= Len(t) /\ t[j] = z[j]
    <3> SUFFICES ASSUME NEW j \in 1..(i - 1), ~(j <= Len(t) /\ t[j] = z[j])
                 PROVE  FALSE
      OBVIOUS
    <3>1. j \in 1..Len(z)
      BY <2>3
    <3>2. j \in D
      BY <3>1
    <3>3. i <= j
      BY <2>2, <2>3, <3>2
    <3> QED
      BY <3>3
  <2>5. \A j \in 1..i : j <= Len(s) /\ j <= Len(u) /\ s[j] = z[j] /\ u[j] = z[j]
    <3>1. /\ Len(z) <= Len(s) /\ Len(z) <= Len(u)
          /\ \A j \in 1..Len(z) : s[j] = z[j] /\ u[j] = z[j]
      BY DEF Starts
    <3> QED
      BY ONLY <3>1, i \in 1..Len(z), s \in Seq(Nat), u \in Seq(Nat), z \in Seq(Nat)
  <2>6. i \in Nat \ {0} /\ i <= Len(s) /\ i <= Len(u) /\ s[i] = z[i] /\ u[i] = z[i]
          /\ s[i] \in Nat
    BY <2>5
  <2>7. \A j \in 1..(i - 1) : j <= Len(t) /\ s[j] = t[j] /\ j <= Len(u) /\ t[j] = u[j]
    BY <2>4, <2>5
  <2> HIDE DEF D
  <2>8. i <= Len(t) /\ s[i] < t[i]
    BY <2>3, <2>6, <2>7, FirstDifference
  <2>9. t[i] < u[i]
    BY <2>3, <2>6, <2>7, <2>8, FirstDifference
  <2>10. t[i] \in Nat
    BY <2>8
  <2> QED
    BY <2>6, <2>8, <2>9, <2>10
<1> QED
  BY <1>1, <1>2

\* What names are sorted by, and how it tells who holds whom.
SortKey(n) == Reverse(Key(n))

LEMMA ReverseIs ==
    ASSUME NEW s \in Seq(Nat)
    PROVE  /\ Reverse(s) \in Seq(Nat) /\ Len(Reverse(s)) = Len(s)
           /\ \A i \in 1..Len(s) : Reverse(s)[i] = s[Len(s) - i + 1]
<1>1. \A i \in 1..Len(s) : (Len(s) - i) + 1 \in 1..Len(s)
  OBVIOUS
<1>2. Reverse(s) = [i \in 1..Len(s) |-> s[(Len(s) - i) + 1]]
  BY DEF Reverse
<1> QED
  BY <1>1, <1>2

LEMMA SortKeysTell ==
    ASSUME NEW n, NEW z, IsValid(n), IsValid(z)
    PROVE  /\ SortKey(n) \in Seq(Nat)
           /\ SortKey(n) = SortKey(z) <=> Key(n) = Key(z)
           /\ Holding(z, n) <=> Starts(SortKey(n), SortKey(z))
<1>1. PICK s \in Seq(Nat) : s = Key(n) /\ Len(s) = Len(n.labels)
  BY KeyIs
<1>2. PICK t \in Seq(Nat) : t = Key(z) /\ Len(t) = Len(z.labels)
  BY KeyIs
<1>3. PICK a \in Nat, b \in Nat : a = Len(s) /\ b = Len(t)
  BY LenProperties
<1>4. PICK r \in Seq(Nat) : r = SortKey(n) /\ Len(r) = a
             /\ \A i \in 1..a : r[i] = s[a - i + 1]
  BY <1>1, <1>3, ReverseIs DEF SortKey
<1>5. PICK q \in Seq(Nat) : q = SortKey(z) /\ Len(q) = b
             /\ \A i \in 1..b : q[i] = t[b - i + 1]
  BY <1>2, <1>3, ReverseIs DEF SortKey
<1>6. r = q => s = t
  <2> SUFFICES ASSUME r = q
               PROVE  s = t
    OBVIOUS
  <2>1. a = b
    BY <1>4, <1>5
  <2>2. ASSUME NEW i \in 1..a
        PROVE  s[i] = t[i]
    <3>1. a - i + 1 \in 1..a /\ a - (a - i + 1) + 1 = i
      BY ONLY i \in 1..a, a \in Nat
    <3>2. r[a - i + 1] = s[i] /\ q[a - i + 1] = t[i]
      BY <1>4, <1>5, <2>1, <3>1
    <3> QED
      BY <3>2
  <2> QED
    BY <1>3, <2>1, <2>2, SeqEqual
<1>7. Holding(z, n) <=> b <= a /\ Ending(s, b) = t
  BY <1>1, <1>2, <1>3, HoldingIs
<1>8. Starts(r, q) <=> b <= a /\ \A j \in 1..b : r[j] = q[j]
  BY <1>4, <1>5 DEF Starts
<1>9. ASSUME b <= a
      PROVE  Ending(s, b) = t <=> \A j \in 1..b : r[j] = q[j]
  <2>1. PICK e \in Seq(Nat) : e = Ending(s, b) /\ Len(e) = b
               /\ \A i \in 1..b : e[i] = s[a - b + i]
    <3>1. \A k \in 0..Len(s) :
              /\ Ending(s, k) \in Seq(Nat) /\ Len(Ending(s, k)) = k
              /\ \A i \in 1..k : Ending(s, k)[i] = s[Len(s) - k + i]
      BY EndingIs
    <3>2. b \in 0..Len(s)
      BY ONLY <1>3, <1>9, b \in Nat
    <3> QED
      BY ONLY <1>3, <3>1, <3>2
  <2>2. \A j \in 1..b : r[j] = e[b - j + 1]
    <3> SUFFICES ASSUME NEW j \in 1..b
                 PROVE  r[j] = e[b - j + 1]
      OBVIOUS
    <3>1. j \in 1..a /\ b - j + 1 \in 1..b /\ a - b + (b - j + 1) = a - j + 1
      BY ONLY <1>9, j \in 1..b, a \in Nat, b \in Nat
    <3>2. r[j] = s[a - j + 1]
      BY <1>4, <3>1
    <3>3. e[b - j + 1] = s[a - j + 1]
      BY ONLY <2>1, <3>1
    <3> QED
      BY ONLY <3>2, <3>3
  <2>3. e = t => \A j \in 1..b : r[j] = q[j]
    <3> SUFFICES ASSUME e = t, NEW j \in 1..b
                 PROVE  r[j] = q[j]
      OBVIOUS
    <3>1. q[j] = t[b - j + 1]
      BY ONLY <1>5, j \in 1..b
    <3>2. r[j] = e[b - j + 1]
      BY ONLY <2>2, j \in 1..b
    <3> QED
      BY ONLY <3>1, <3>2, e = t
  <2>4. ASSUME \A j \in 1..b : r[j] = q[j]
        PROVE  e = t
    <3>1. ASSUME NEW i \in 1..b
          PROVE  e[i] = t[i]
      <4>1. PICK j \in 1..b : j = b - i + 1 /\ b - j + 1 = i
        BY ONLY i \in 1..b, b \in Nat
      <4>2. r[j] = e[i] /\ q[j] = t[i]
        BY <1>5, <2>2, <4>1
      <4> QED
        BY <2>4, <4>2
    <3> QED
      BY <1>3, <2>1, <3>1, SeqEqual
  <2> QED
    BY <2>1, <2>3, <2>4
<1>10. Holding(z, n) <=> Starts(r, q)
  BY <1>7, <1>8, <1>9
<1>11. s = t => r = q
  BY <1>1, <1>2, <1>4, <1>5 DEF SortKey
<1> QED
  BY <1>1, <1>2, <1>4, <1>5, <1>6, <1>10, <1>11

\* Sorting is total and strict up to the spelling, and keeps a domain together.
LEMMA LessIs ==
    ASSUME NEW n, NEW p
    PROVE  Less(n, p) <=> \/ Before(SortKey(n), SortKey(p))
                          \/ SortKey(n) = SortKey(p) /\ ~n.absolute /\ p.absolute
BY DEF Less, SortKey

\* Of two names one is less, or they are the same, and never two of these.
LEMMA SortingOrders ==
    ASSUME NEW n, NEW p, IsValid(n), IsValid(p)
    PROVE  /\ Less(n, p) \/ Less(p, n) \/ Same(n, p)
           /\ ~(Less(n, p) /\ Less(p, n)) /\ (Same(n, p) => ~Less(n, p))
<1> PICK s \in Seq(Nat) : s = SortKey(n)
  BY SortKeysTell
<1> PICK t \in Seq(Nat) : t = SortKey(p)
  BY SortKeysTell
<1> PICK a \in BOOLEAN, b \in BOOLEAN : a = n.absolute /\ b = p.absolute
  BY DEF IsValid
<1>1. Less(n, p) <=> Before(s, t) \/ (s = t /\ ~a /\ b)
  BY LessIs
<1>2. Less(p, n) <=> Before(t, s) \/ (t = s /\ ~b /\ a)
  BY LessIs
<1>3. Same(n, p) <=> s = t /\ a = b
  BY SortKeysTell DEF Same
<1>4. Before(s, t) \/ Before(t, s) \/ s = t
  BY OrderIsTotal
<1>5. Before(s, t) => ~Before(t, s) /\ s # t
  BY OrderIsStrict
<1>6. Before(t, s) => s # t
  BY OrderIsStrict
<1>7. (a <=> b) <=> a = b
  OBVIOUS
<1> QED
  BY <1>1, <1>2, <1>3, <1>4, <1>5, <1>6, <1>7

\* What sorts between two names that z holds is held by z.
LEMMA SortingKeepsTogether ==
    ASSUME NEW n, NEW p, NEW q, NEW z, IsValid(n), IsValid(p), IsValid(q), IsValid(z),
           Less(p, n), Less(n, q), Holding(z, p), Holding(z, q)
    PROVE  Holding(z, n)
<1> PICK s \in Seq(Nat) : s = SortKey(p)
  BY SortKeysTell
<1> PICK t \in Seq(Nat) : t = SortKey(n)
  BY SortKeysTell
<1> PICK u \in Seq(Nat) : u = SortKey(q)
  BY SortKeysTell
<1> PICK o \in Seq(Nat) : o = SortKey(z)
  BY SortKeysTell
<1>1. (Before(s, t) \/ s = t) /\ (Before(t, u) \/ t = u)
  BY LessIs
<1>2. Starts(s, o) /\ Starts(u, o)
  BY SortKeysTell
<1>3. Starts(t, o)
  BY <1>1, <1>2, OrderKeepsTogether
<1> QED
  BY <1>3, SortKeysTell

\* All that NamesFormATree says of a name.
LEMMA NameInTree ==
    ASSUME value.kind = "name", IsValid(value.name)
    PROVE  NamesFormATree
<1>1. PICK n : n = value.name
  OBVIOUS
<1>2. IsValid(n) /\ IsName(n)
  BY <1>1, ValidIsName
<1>3. FQDN(<<Text(n)>>) = IF ReadsAsAddress(n.labels) THEN Bad ELSE n
  BY <1>2, ReadsBack
<1>4. PICK ancestors : ancestors = {n} \union ToSet(Domains(n))
  OBVIOUS
<1>5. ancestors = Lineage(n)
  BY <1>4 DEF Lineage
<1>6. ASSUME NEW p \in Peers
      PROVE  /\ AtOrUnder(p, n) <=> Holding(p, n)
             /\ AtOrUnder(p, n) <=> \E a \in ancestors : Key(a) = Key(p)
             /\ IsSubdomainOf(n, p) <=> Holding(p, n) /\ Key(p) # Key(n)
             /\ IsSubdomainOf(n, p) => Key(Under(p, RelativeTo(n, p))) = Key(n)
             /\ Less(n, p) \/ Less(p, n) \/ Same(n, p)
             /\ ~(Less(n, p) /\ Less(p, n)) /\ (Same(n, p) => ~Less(n, p))
  <2>1. IsValid(p)
    BY PeersAreValid
  <2>2. /\ AtOrUnder(p, n) <=> Holding(p, n)
        /\ AtOrUnder(p, n) <=> \E a \in ancestors : Key(a) = Key(p)
        /\ IsSubdomainOf(n, p) <=> Holding(p, n) /\ Key(p) # Key(n)
    BY <1>2, <1>5, <2>1, RelationsAgree
  <2>3. IsSubdomainOf(n, p) => Key(Under(p, RelativeTo(n, p))) = Key(n)
    BY <1>2, <2>1, GoesBackUnder
  <2>4. /\ Less(n, p) \/ Less(p, n) \/ Same(n, p)
        /\ ~(Less(n, p) /\ Less(p, n)) /\ (Same(n, p) => ~Less(n, p))
    BY <1>2, <2>1, SortingOrders
  <2> QED
    BY <2>2, <2>3, <2>4
<1>7. ASSUME NEW p \in Peers,
             NEW above, above = {a \in ancestors : Holding(a, p)}
      PROVE  IF above = {} THEN CommonAncestor(n, p) = None
             ELSE /\ CommonAncestor(n, p) \in above
                  /\ \A a \in above : Holding(a, CommonAncestor(n, p))
  BY <1>2, <1>5, <1>7, PeersAreValid, CommonIsNearest
<1>8. ASSUME NEW p \in Peers, NEW q \in Peers, NEW z \in Peers,
             Less(p, n), Less(n, q), Holding(z, p), Holding(z, q)
      PROVE  Holding(z, n)
  BY <1>2, <1>8, PeersAreValid, SortingKeepsTogether
<1>9. ASSUME NEW p \in Peers
      PROVE  IF {a \in ancestors : Holding(a, p)} = {} THEN CommonAncestor(n, p) = None
             ELSE /\ CommonAncestor(n, p) \in {a \in ancestors : Holding(a, p)}
                  /\ \A a \in {x \in ancestors : Holding(x, p)} :
                        Holding(a, CommonAncestor(n, p))
  BY <1>7
<1> QED
  BY <1>1, <1>2, <1>3, <1>4, <1>6, <1>8, <1>9 DEF NamesFormATree
-----------------------------------------------------------------------------
(* Names in messages: what a reading has taken, and what is still to come.    *)

\* From the octet after so many are the labels of the name that follow its first k,
\* up to the m-th.
Spelled(data, at, labels, k, m) ==
    /\ at + 2 * (m - k) <= Len(data)
    /\ \A i \in (k + 1)..m :
          /\ data[at + 2 * (i - k) - 1] = 1
          /\ data[at + 2 * (i - k)] = LabelOctet(labels[i])

\* All of them, and the root.
Rooted(data, at, labels, k) ==
    /\ Spelled(data, at, labels, k, Len(labels))
    /\ at + 2 * (Len(labels) - k) < Len(data)
    /\ data[at + 2 * (Len(labels) - k) + 1] = 0

\* A pointer to another place.
Points(data, at, target) ==
    at + 1 < Len(data) /\ data[at + 1] = Pointer /\ data[at + 2] = target

\* Where the rest of the name is: here; behind a pointer that was not followed yet; or
\* here up to a pointer, the first, to the rest or to a pointer to it.
Here(r, sent) ==
    /\ Rooted(r.data, r.pos, sent.name.labels, Len(r.labels))
    /\ IF r.end = -1
       THEN sent.end = r.pos + 2 * (Len(sent.name.labels) - Len(r.labels)) + 1
       ELSE sent.end = r.end

Behind(r, sent) ==
    \E p \in Nat :
      /\ Points(r.data, r.pos, p) /\ Rooted(r.data, p, sent.name.labels, Len(r.labels))
      /\ p \notin r.visited /\ r.pointers < MaxPointers
      /\ sent.end = IF r.end = -1 THEN r.pos + 2 ELSE r.end

Ahead(r, sent) ==
    /\ r.end = -1 /\ r.visited = {} /\ r.pointers = 0
    /\ \E m \in Len(r.labels)..Len(sent.name.labels), at \in Nat, p \in Nat :
         /\ at = r.pos + 2 * (m - Len(r.labels)) /\ sent.end = at + 2
         /\ Spelled(r.data, r.pos, sent.name.labels, Len(r.labels), m)
         /\ Points(r.data, at, p)
         /\ \/ Rooted(r.data, p, sent.name.labels, m)
            \/ \E q \in Nat : q # p /\ Points(r.data, p, q)
                                /\ Rooted(r.data, q, sent.name.labels, m)

\* The labels taken are the first of the name, each with its one octet.
TakenOf(r, labels) ==
    /\ Len(r.labels) <= Len(labels) /\ r.size = 1 + 2 * Len(r.labels)
    /\ \A i \in 1..Len(r.labels) : r.labels[i] = <<LabelOctet(labels[i])>>

IsReading(r) ==
    /\ r = [data |-> r.data, pos |-> r.pos, labels |-> r.labels, end |-> r.end,
            visited |-> r.visited, pointers |-> r.pointers, size |-> r.size]
    /\ r.data \in Seq(Nat) /\ r.pos \in Nat /\ r.end \in Nat \cup {-1}
    /\ r.labels \in Seq(Seq(Nat) \ {<<>>})
    /\ r.pointers \in Nat /\ r.size \in Nat

ReadingIsOf(r, sent) ==
    /\ IsReading(r)
    /\ sent # None =>
         /\ sent = [name |-> sent.name, end |-> sent.end] /\ IsValid(sent.name)
         /\ TakenOf(r, sent.name.labels)
         /\ Here(r, sent) \/ Behind(r, sent) \/ Ahead(r, sent)

\* A pair of octets.
LEMMA LengthAndText ==
    ASSUME NEW o \in Nat
    PROVE  \E s \in Seq(Nat) : s = <<1, o>> /\ Len(s) = 2 /\ s[1] = 1 /\ s[2] = o
<1>1. PICK s : s = <<1, o>>
  OBVIOUS
<1>2. s \in Seq(Nat) /\ Len(s) = 2 /\ s[1] = 1 /\ s[2] = o
  BY <1>1
<1> QED
  BY <1>1, <1>2

\* Two octets for each label, the first of them its length.
LEMMA LabelOctetsAre ==
    ASSUME NEW labels \in Seq(Proper)
    PROVE  /\ LabelOctets(labels) \in Seq(Nat) /\ Len(LabelOctets(labels)) = 2 * Len(labels)
           /\ Spelled(LabelOctets(labels), 0, labels, 0, Len(labels))
<1>1. PICK n \in Nat : n = Len(labels) /\ DOMAIN labels = 1..n
  OBVIOUS
<1>2. \A i \in 1..n : LabelOctet(labels[i]) \in Nat
  BY <1>1, WireAssumption DEF Proper, Writable, Label, LabelOctet
<1>3. PICK seqs : seqs = [i \in DOMAIN labels |-> <<1, LabelOctet(labels[i])>>]
  OBVIOUS
<1>4. /\ seqs \in Seq(Seq(Nat)) /\ Len(seqs) = n
      /\ \A i \in 1..n : seqs[i] = <<1, LabelOctet(labels[i])>>
  BY <1>1, <1>2, <1>3
<1>5. LabelOctets(labels) = FlattenSeq(seqs)
  BY <1>3 DEF LabelOctets
<1>6. CASE n = 0
  <2>1. FlattenSeq(seqs) = seqs /\ seqs = <<>>
    BY <1>4, <1>6 DEF FlattenSeq
  <2> QED
    BY <1>1, <1>5, <1>6, <2>1 DEF Spelled
<1>7. CASE n # 0
  <2>1. PICK f : Joins(f, seqs, n, Nat) /\ FlattenSeq(seqs) = f[n]
    BY <1>4, <1>7, FlattenedJoins
  <2> DEFINE Spells(k) == Len(f[k]) = 2 * k /\ Spelled(f[k], 0, labels, 0, k)
             T == {k \in Nat : k < n => Spells(k + 1)}
  <2>2. ASSUME NEW k \in 1..n
        PROVE  /\ f[k] \in Seq(Nat) /\ LabelOctet(labels[k]) \in Nat
               /\ f[k] = IF k = 1 THEN <<1, LabelOctet(labels[k])>>
                         ELSE f[k - 1] \o <<1, LabelOctet(labels[k])>>
    BY <1>2, <1>4, <2>1 DEF Joins
  <2>3. 0 \in T
    <3>1. PICK k \in 1..n : k = 1
      BY <1>7
    <3>2. f[k] = <<1, LabelOctet(labels[k])>>
      BY <2>2, <3>1
    <3>3. PICK o \in Nat : o = LabelOctet(labels[k])
      BY <2>2
    <3>4. PICK s \in Seq(Nat) : s = <<1, o>> /\ Len(s) = 2 /\ s[1] = 1 /\ s[2] = o
      BY LengthAndText
    <3>5. Spelled(s, 0, labels, 0, 1)
      <4>1. \A i \in (0 + 1)..1 : i = k
        BY <3>1
      <4> QED
        BY <3>1, <3>3, <3>4, <4>1 DEF Spelled
    <3>6. f[1] = s
      BY <3>1, <3>2, <3>3, <3>4
    <3>7. Spells(1)
      BY <3>4, <3>5, <3>6
    <3> HIDE DEF Spells
    <3> QED
      BY <3>7
  <2>4. ASSUME NEW k \in Nat, k \in T
        PROVE  k + 1 \in T
    <3> SUFFICES ASSUME k + 1 < n
                 PROVE  Spells((k + 1) + 1)
      OBVIOUS
    <3>1. PICK m \in 1..n : m = (k + 1) + 1 /\ m # 1 /\ m - 1 = k + 1 /\ m - 1 \in 1..n
      OBVIOUS
    <3>2. PICK s \in Seq(Nat) : s = f[m - 1]
      BY <2>2, <3>1
    <3>3. PICK o \in Nat : o = LabelOctet(labels[m])
      BY <2>2
    <3>4. PICK t : t = s \o <<1, o>>
      OBVIOUS
    <3>5. f[m] = t
      BY <2>2, <3>1, <3>2, <3>3, <3>4
    <3>6. Spells(m - 1)
      BY <2>4, <3>1
    <3>7. Len(s) = 2 * (m - 1) /\ Spelled(s, 0, labels, 0, m - 1)
      BY <3>2, <3>6
    <3>8. /\ Len(t) = 2 * m /\ t[2 * m - 1] = 1 /\ t[2 * m] = o
          /\ \A i \in 1..(2 * (m - 1)) : t[i] = s[i]
      <4>1. PICK e \in Seq(Nat) : e = <<1, o>> /\ Len(e) = 2 /\ e[1] = 1 /\ e[2] = o
        BY LengthAndText
      <4>2. PICK l \in Nat : l = 2 * (m - 1) /\ l = Len(s)
        BY <3>1, <3>7
      <4>3. /\ Len(s \o e) = l + 2 /\ (s \o e)[l + 1] = e[1] /\ (s \o e)[l + 2] = e[2]
            /\ \A i \in 1..l : (s \o e)[i] = s[i]
        BY <4>1, <4>2
      <4>4. l + 2 = 2 * m /\ l + 1 = 2 * m - 1
        BY <3>1, <4>2
      <4> QED
        BY <3>4, <4>1, <4>2, <4>3, <4>4
    <3>9. ASSUME NEW i \in 1..m
          PROVE  t[2 * i - 1] = 1 /\ t[2 * i] = LabelOctet(labels[i])
      <4>1. CASE i = m
        BY <3>3, <3>8, <4>1
      <4>2. CASE i # m
        <5>1. /\ i \in (0 + 1)..(m - 1) /\ 2 * i - 1 \in 1..(2 * (m - 1))
              /\ 2 * i \in 1..(2 * (m - 1)) /\ i - 0 = i
          BY <4>2
        <5>2. s[2 * i - 1] = 1 /\ s[2 * i] = LabelOctet(labels[i])
          BY <3>7, <5>1 DEF Spelled
        <5> QED
          BY <3>8, <5>1, <5>2
      <4> QED
        BY <4>1, <4>2
    <3>10. Spelled(t, 0, labels, 0, m)
      BY <3>8, <3>9 DEF Spelled
    <3>11. Spells(m)
      BY <3>5, <3>8, <3>10
    <3> HIDE DEF Spells
    <3> QED
      BY <3>1, <3>11
  <2>5. Spells(n)
    <3>1. n - 1 \in Nat /\ (n - 1) + 1 = n /\ n - 1 < n
      BY <1>7
    <3>2. n - 1 \in T
      <4> HIDE DEF T
      <4> QED
        BY <2>3, <2>4, <3>1, Induction
    <3> HIDE DEF Spells
    <3> QED
      BY <3>1, <3>2
  <2>6. n \in 1..n
    BY <1>7
  <2> QED
    BY <1>1, <1>5, <2>1, <2>2, <2>5, <2>6
<1> QED
  BY <1>6, <1>7

\* What is spelled stays so with more octets behind it, or before it.
LEMMA SpelledBehind ==
    ASSUME NEW s \in Seq(Nat), NEW t \in Seq(Nat), NEW at \in Nat, NEW labels,
           NEW k \in Nat, NEW m \in Nat, k <= m, Spelled(s, at, labels, k, m)
    PROVE  Spelled(s \o t, at, labels, k, m)
<1>1. PICK u : u = s \o t
  OBVIOUS
<1>2. u \in Seq(Nat) /\ Len(u) = Len(s) + Len(t) /\ \A i \in 1..Len(s) : u[i] = s[i]
  BY <1>1
<1>3. ASSUME NEW i \in (k + 1)..m
      PROVE  /\ u[at + 2 * (i - k) - 1] = 1
             /\ u[at + 2 * (i - k)] = LabelOctet(labels[i])
  <2>1. at + 2 * (i - k) - 1 \in 1..Len(s) /\ at + 2 * (i - k) \in 1..Len(s)
    BY DEF Spelled
  <2> QED
    BY <1>2, <2>1 DEF Spelled
<1>4. at + 2 * (m - k) <= Len(u)
  BY <1>2 DEF Spelled
<1>5. Spelled(u, at, labels, k, m)
  BY <1>3, <1>4 DEF Spelled
<1> QED
  BY <1>1, <1>5

LEMMA SpelledAfter ==
    ASSUME NEW s \in Seq(Nat), NEW t \in Seq(Nat), NEW at \in Nat, NEW labels,
           NEW k \in Nat, NEW m \in Nat, k <= m, Spelled(t, at, labels, k, m)
    PROVE  Spelled(s \o t, Len(s) + at, labels, k, m)
<1>1. PICK u : u = s \o t
  OBVIOUS
<1>2. /\ u \in Seq(Nat) /\ Len(u) = Len(s) + Len(t)
      /\ \A i \in 1..Len(t) : u[Len(s) + i] = t[i]
  BY <1>1
<1>3. ASSUME NEW i \in (k + 1)..m
      PROVE  /\ u[(Len(s) + at) + 2 * (i - k) - 1] = 1
             /\ u[(Len(s) + at) + 2 * (i - k)] = LabelOctet(labels[i])
  <2>1. PICK a \in 1..Len(t) : a = at + 2 * (i - k) - 1
    BY DEF Spelled
  <2>2. PICK b \in 1..Len(t) : b = at + 2 * (i - k)
    BY DEF Spelled
  <2>3. /\ (Len(s) + at) + 2 * (i - k) - 1 = Len(s) + a
        /\ (Len(s) + at) + 2 * (i - k) = Len(s) + b
    BY <2>1, <2>2
  <2>4. t[a] = 1 /\ t[b] = LabelOctet(labels[i])
    BY <2>1, <2>2 DEF Spelled
  <2> QED
    BY <1>2, <2>3, <2>4
<1>4. (Len(s) + at) + 2 * (m - k) <= Len(u)
  BY <1>2 DEF Spelled
<1>5. Spelled(u, Len(s) + at, labels, k, m)
  BY <1>3, <1>4 DEF Spelled
<1> QED
  BY <1>1, <1>5

\* So does the root, and a pointer.
LEMMA RootedBehind ==
    ASSUME NEW s \in Seq(Nat), NEW t \in Seq(Nat), NEW at \in Nat, NEW labels,
           Len(labels) \in Nat, NEW k \in Nat, k <= Len(labels), Rooted(s, at, labels, k)
    PROVE  Rooted(s \o t, at, labels, k)
<1>1. PICK m \in Nat : m = Len(labels)
  OBVIOUS
<1>2. Spelled(s \o t, at, labels, k, m)
  BY <1>1, SpelledBehind DEF Rooted
<1>3. PICK b \in 1..Len(s) : b = at + 2 * (m - k) + 1 /\ s[b] = 0
  BY <1>1 DEF Rooted
<1>4. (s \o t)[b] = 0 /\ Len(s \o t) = Len(s) + Len(t)
  BY <1>3
<1> PICK u : u = s \o t
  OBVIOUS
<1>5. Rooted(u, at, labels, k)
  BY <1>1, <1>2, <1>3, <1>4 DEF Rooted
<1> QED
  BY <1>5

LEMMA PointsBehind ==
    ASSUME NEW s \in Seq(Nat), NEW t \in Seq(Nat), NEW at \in Nat, NEW p, Points(s, at, p)
    PROVE  Points(s \o t, at, p)
<1>1. at + 1 \in 1..Len(s) /\ at + 2 \in 1..Len(s)
  BY DEF Points
<1>2. /\ (s \o t)[at + 1] = s[at + 1] /\ (s \o t)[at + 2] = s[at + 2]
      /\ Len(s \o t) = Len(s) + Len(t)
  BY <1>1
<1> PICK u : u = s \o t
  OBVIOUS
<1>3. Points(u, at, p)
  BY <1>1, <1>2 DEF Points
<1> QED
  BY <1>3

LEMMA PointsAtEnd ==
    ASSUME NEW s \in Seq(Nat), NEW p \in Nat
    PROVE  /\ s \o <<Pointer, p>> \in Seq(Nat) /\ Len(s \o <<Pointer, p>>) = Len(s) + 2
           /\ Points(s \o <<Pointer, p>>, Len(s), p)
<1>1. PICK c \in Nat : c = Pointer
  BY DEF Pointer
<1>2. PICK e \in Seq(Nat) : e = <<c, p>> /\ Len(e) = 2 /\ e[1] = c /\ e[2] = p
  <2>1. PICK e : e = <<c, p>>
    OBVIOUS
  <2>2. e \in Seq(Nat) /\ Len(e) = 2 /\ e[1] = c /\ e[2] = p
    BY <2>1
  <2> QED
    BY <2>1, <2>2
<1>4. PICK u : u = s \o e
  OBVIOUS
<1>5. /\ u \in Seq(Nat) /\ Len(u) = Len(s) + 2
      /\ u[Len(s) + 1] = c /\ u[Len(s) + 2] = p
  <2>1. PICK l \in Nat : l = Len(s)
    OBVIOUS
  <2>2. s \o e \in Seq(Nat)
    OBVIOUS
  <2>3. /\ Len(s \o e) = l + 2
        /\ (s \o e)[l + 1] = e[1] /\ (s \o e)[l + 2] = e[2]
    BY <1>2, <2>1
  <2> QED
    BY <1>2, <1>4, <2>1, <2>2, <2>3
<1>6. Points(u, Len(s), p)
  BY <1>1, <1>5 DEF Points
<1> QED
  BY <1>1, <1>2, <1>4, <1>5, <1>6

\* One octet more.
LEMMA OneMore ==
    ASSUME NEW s \in Seq(Nat), NEW x \in Nat
    PROVE  /\ s \o <<x>> \in Seq(Nat) /\ Len(s \o <<x>>) = Len(s) + 1
           /\ (s \o <<x>>)[Len(s) + 1] = x
<1>1. PICK e \in Seq(Nat) : e = <<x>> /\ Len(e) = 1 /\ e[1] = x
  <2>1. PICK e : e = <<x>>
    OBVIOUS
  <2>2. e \in Seq(Nat) /\ Len(e) = 1 /\ e[1] = x
    BY <2>1
  <2> QED
    BY <2>1, <2>2
<1>2. PICK m \in Nat : m = Len(s)
  OBVIOUS
<1>3. s \o e \in Seq(Nat) /\ Len(s \o e) = Len(s) + Len(e)
  OBVIOUS
<1>4. (s \o e)[m + 1] = e[1]
  BY <1>1, <1>2
<1> QED
  BY <1>1, <1>2, <1>3, <1>4

\* The encoding of a name.
LEMMA EncodedIs ==
    ASSUME NEW n, IsValid(n)
    PROVE  /\ Encode(n) \in Seq(Nat) /\ Len(Encode(n)) = 2 * Len(n.labels) + 1
           /\ Rooted(Encode(n), 0, n.labels, 0)
<1>1. PICK l \in Seq(Proper) : l = n.labels
  BY DEF IsValid
<1>2. PICK s \in Seq(Nat) : s = LabelOctets(l)
  BY LabelOctetsAre
<1>3. Len(s) = 2 * Len(l) /\ Spelled(s, 0, l, 0, Len(l))
  BY <1>2, LabelOctetsAre
<1>4. PICK e \in Seq(Nat) : e = <<0>>
  <2>1. <<0>> \in Seq(Nat)
    OBVIOUS
  <2> QED
    BY <2>1
<1>5. PICK u : u = s \o e
  OBVIOUS
<1>6. u \in Seq(Nat) /\ Len(u) = 2 * Len(l) + 1 /\ u[2 * Len(l) + 1] = 0
  <2>1. /\ s \o <<0>> \in Seq(Nat) /\ Len(s \o <<0>>) = Len(s) + 1
        /\ (s \o <<0>>)[Len(s) + 1] = 0
    BY OneMore
  <2> QED
    BY <1>3, <1>4, <1>5, <2>1
<1>7. Spelled(u, 0, l, 0, Len(l))
  <2>1. PICK k \in Nat : k = 0
    OBVIOUS
  <2>2. PICK m \in Nat : m = Len(l) /\ k <= m
    BY <2>1
  <2>3. Spelled(s, k, l, k, m)
    BY <1>3, <2>1, <2>2
  <2>4. Spelled(s \o e, k, l, k, m)
    BY <2>2, <2>3, SpelledBehind
  <2> QED
    BY <1>5, <2>1, <2>2, <2>4
<1>8. Rooted(u, 0, l, 0)
  BY <1>6, <1>7 DEF Rooted
<1>9. Encode(n) = u
  BY <1>1, <1>2, <1>4, <1>5 DEF Encode
<1> QED
  BY <1>1, <1>6, <1>8, <1>9

\* The last labels of a name are found in the encoding of another that ends alike.
LEMMA EndsAlike ==
    ASSUME NEW n, IsValid(n), NEW p, IsValid(p),
           NEW c \in Nat \ {0}, c <= Len(p.labels), c <= Len(n.labels),
           Ending(n.labels, c) = Ending(p.labels, c)
    PROVE  Rooted(Encode(p), 2 * (Len(p.labels) - c), n.labels, Len(n.labels) - c)
<1>1. PICK l \in Seq(Proper) : l = n.labels
  BY DEF IsValid
<1>2. PICK o \in Seq(Proper) : o = p.labels
  BY DEF IsValid
<1>3. PICK u \in Seq(Nat) : u = Encode(p)
  BY EncodedIs
<1>4. Len(u) = 2 * Len(o) + 1 /\ Rooted(u, 0, o, 0)
  BY <1>2, <1>3, EncodedIs
<1>13. c <= Len(l) /\ c <= Len(o)
  BY <1>1, <1>2
<1>14. c \in 0..Len(l) /\ c \in 0..Len(o) /\ Len(l) - c \in Nat /\ Len(o) - c \in Nat
  BY <1>13
<1>5. PICK k \in Nat : k = Len(l) - c
  BY <1>14
<1>6. PICK j \in Nat : j = Len(o) - c
  BY <1>14
<1>7. ASSUME NEW i \in 1..c
      PROVE  l[k + i] = o[j + i]
  <2>1. Ending(l, c)[i] = l[k + i]
    BY <1>5, <1>14, EndingIs
  <2>2. Ending(o, c)[i] = o[j + i]
    BY <1>6, <1>14, EndingIs
  <2> QED
    BY <1>1, <1>2, <2>1, <2>2
<1>8. ASSUME NEW i \in (k + 1)..Len(l)
      PROVE  /\ u[2 * j + 2 * (i - k) - 1] = 1
             /\ u[2 * j + 2 * (i - k)] = LabelOctet(l[i])
  <2>5. i - k \in 1..c
    BY <1>5, <1>14
  <2>1. PICK h \in 1..c : h = i - k
    BY <2>5
  <2>6. j + h \in (0 + 1)..Len(o)
    BY <1>6, <1>14
  <2>2. PICK x \in (0 + 1)..Len(o) : x = j + h
    BY <2>6
  <2>3. u[0 + 2 * (x - 0) - 1] = 1 /\ u[0 + 2 * (x - 0)] = LabelOctet(o[x])
    BY <1>4 DEF Rooted, Spelled
  <2>4. /\ 0 + 2 * (x - 0) - 1 = 2 * j + 2 * (i - k) - 1
        /\ 0 + 2 * (x - 0) = 2 * j + 2 * (i - k) /\ i = k + h
    BY <2>1, <2>2
  <2>7. o[x] = l[i]
    BY <1>7, <2>2, <2>4
  <2> QED
    BY <2>3, <2>4, <2>7
<1>9. 2 * j + 2 * (Len(l) - k) = 2 * Len(o)
  BY <1>5, <1>6
<1>10. u[2 * Len(o) + 1] = 0
  <2>1. 0 + 2 * (Len(o) - 0) + 1 = 2 * Len(o) + 1
    OBVIOUS
  <2> QED
    BY <1>4, <2>1 DEF Rooted
<1>11. Spelled(u, 2 * j, l, k, Len(l))
  BY <1>4, <1>8, <1>9 DEF Spelled
<1>12. Rooted(u, 2 * j, l, k)
  BY <1>4, <1>9, <1>10, <1>11 DEF Rooted
<1> QED
  BY <1>1, <1>2, <1>3, <1>5, <1>6, <1>12

\* A reading begins with nothing taken, wherever it begins.
LEMMA BeginsWithNothing ==
    ASSUME NEW data \in Seq(Nat), NEW offset \in Nat
    PROVE  /\ IsReading(Reading(data, offset))
           /\ Reading(data, offset).data = data /\ Reading(data, offset).pos = offset
           /\ Reading(data, offset).labels = <<>> /\ Reading(data, offset).end = -1
           /\ Reading(data, offset).visited = {} /\ Reading(data, offset).pointers = 0
           /\ Len(Reading(data, offset).labels) = 0
           /\ \A labels : Len(labels) \in Nat => TakenOf(Reading(data, offset), labels)
<1>1. PICK r : r = Reading(data, offset)
  OBVIOUS
<1>2. /\ r.data = data /\ r.pos = offset /\ r.labels = <<>> /\ r.end = -1
      /\ r.visited = {} /\ r.pointers = 0 /\ r.size = 1
      /\ r = [data |-> r.data, pos |-> r.pos, labels |-> r.labels, end |-> r.end,
              visited |-> r.visited, pointers |-> r.pointers, size |-> r.size]
  BY <1>1 DEF Reading
<1>3. Len(r.labels) = 0 /\ r.labels \in Seq(Seq(Nat) \ {<<>>})
  BY <1>2
<1>4. IsReading(r)
  BY <1>2, <1>3 DEF IsReading
<1>5. \A labels : Len(labels) \in Nat => TakenOf(r, labels)
  BY <1>2, <1>3 DEF TakenOf
<1> QED
  BY <1>1, <1>2, <1>3, <1>4, <1>5

\* A name sent alone is there to be read.
LEMMA AloneIsHere ==
    ASSUME NEW n, IsValid(n)
    PROVE  ReadingIsOf(Reading(Encode(n), 0), [name |-> n, end |-> Len(Encode(n))])
<1>1. PICK data \in Seq(Nat) : data = Encode(n)
  BY EncodedIs
<1>2. PICK l \in Seq(Proper) : l = n.labels
  BY DEF IsValid
<1>3. PICK r : r = Reading(data, 0)
  OBVIOUS
<1>4. PICK sent : sent = [name |-> n, end |-> Len(data)]
  OBVIOUS
<1>5. sent.name = n /\ sent.end = Len(data)
  BY <1>4
<1>6. /\ IsReading(r) /\ r.data = data /\ r.pos = 0 /\ r.end = -1 /\ Len(r.labels) = 0
      /\ TakenOf(r, l)
  BY <1>3, BeginsWithNothing
<1>7. Len(data) = 2 * Len(l) + 1 /\ Rooted(data, 0, l, 0)
  BY <1>1, <1>2, EncodedIs
<1>8. Here(r, sent)
  BY <1>2, <1>5, <1>6, <1>7 DEF Here
<1>9. ReadingIsOf(r, sent)
  BY <1>2, <1>4, <1>5, <1>6, <1>8 DEF ReadingIsOf
<1> QED
  BY <1>1, <1>3, <1>4, <1>9

\* Where the labels of a name after the m-th can be read in a message: at p, or behind
\* a pointer at p.
Found(data, p, labels, m) ==
    \/ Rooted(data, p, labels, m)
    \/ \E q \in Nat : q # p /\ Points(data, p, q) /\ Rooted(data, q, labels, m)

LEMMA FoundBehind ==
    ASSUME NEW s \in Seq(Nat), NEW t \in Seq(Nat), NEW p \in Nat, NEW labels,
           Len(labels) \in Nat, NEW m \in Nat, m <= Len(labels), Found(s, p, labels, m)
    PROVE  Found(s \o t, p, labels, m)
<1>1. CASE Rooted(s, p, labels, m)
  BY <1>1, RootedBehind DEF Found
<1>2. CASE \E q \in Nat : q # p /\ Points(s, p, q) /\ Rooted(s, q, labels, m)
  <2>1. PICK q \in Nat : q # p /\ Points(s, p, q) /\ Rooted(s, q, labels, m)
    BY <1>2
  <2>2. Points(s \o t, p, q) /\ Rooted(s \o t, q, labels, m)
    BY <2>1, PointsBehind, RootedBehind
  <2> QED
    BY <2>1, <2>2 DEF Found
<1> QED
  BY <1>1, <1>2 DEF Found

\* The first labels of a name behind what is already in a message, and a pointer to where
\* the others are.
LEMMA CompressedIsAhead ==
    ASSUME NEW n, IsValid(n), NEW before \in Seq(Nat),
           NEW m \in Nat, m <= Len(n.labels), NEW p \in Nat,
           Found(before, p, n.labels, m),
           NEW own, own = SubSeq(n.labels, 1, m),
           NEW data, data = before \o LabelOctets(own) \o <<Pointer, p>>
    PROVE  ReadingIsOf(Reading(data \o <<0>>, Len(before)), [name |-> n, end |-> Len(data)])
<1>1. PICK l \in Seq(Proper) : l = n.labels /\ Len(l) \in Nat /\ m <= Len(l)
  BY DEF IsValid
<1>2. own \in Seq(Proper) /\ Len(own) = m /\ \A i \in 1..m : own[i] = l[i]
  BY <1>1, SubSeqProperties
<1>3. PICK s \in Seq(Nat) : s = LabelOctets(own)
  BY <1>2, LabelOctetsAre
<1>4. Len(s) = 2 * m /\ Spelled(s, 0, own, 0, m)
  BY <1>2, <1>3, LabelOctetsAre
<1>5. Spelled(s, 0, l, 0, m)
  BY <1>2, <1>4 DEF Spelled
<1>6. PICK u \in Seq(Nat) : u = before \o s /\ Len(u) = Len(before) + Len(s)
  <2>1. before \o s \in Seq(Nat) /\ Len(before \o s) = Len(before) + Len(s)
    BY ConcatProperties
  <2> QED
    BY <2>1
<1>7. PICK b \in Nat : b = Len(before)
  OBVIOUS
<1>8. Len(u) = b + 2 * m
  BY <1>4, <1>6, <1>7
<1>9. Spelled(u, b, l, 0, m)
  <2>1. PICK z \in Nat : z = 0 /\ z <= m /\ Len(before) + z = b
    BY <1>7
  <2>2. Spelled(s, z, l, z, m)
    BY <1>5, <2>1
  <2>3. Spelled(before \o s, Len(before) + z, l, z, m)
    BY <2>1, <2>2, SpelledAfter
  <2> QED
    BY <1>6, <2>1, <2>3
<1>10. data = u \o <<Pointer, p>>
  BY <1>3, <1>6
<1>11. data \in Seq(Nat) /\ Len(data) = b + 2 * m + 2 /\ Points(data, b + 2 * m, p)
  BY <1>8, <1>10, PointsAtEnd
<1>12. PICK pair \in Seq(Nat) : pair = <<Pointer, p>>
  <2>1. <<Pointer, p>> \in Seq(Nat)
    BY DEF Pointer
  <2> QED
    BY <2>1
<1>13. PICK root \in Seq(Nat) : root = <<0>>
  <2>1. <<0>> \in Seq(Nat)
    OBVIOUS
  <2> QED
    BY <2>1
<1>14. PICK d \in Seq(Nat) : d = data \o root
  <2>1. data \o root \in Seq(Nat)
    BY <1>11, ConcatProperties
  <2> QED
    BY <2>1
<1>15. Points(d, b + 2 * m, p)
  <2>1. PICK at \in Nat : at = b + 2 * m
    OBVIOUS
  <2>2. Points(data, at, p)
    BY <1>11, <2>1
  <2>3. Points(data \o root, at, p)
    BY <1>11, <2>2, PointsBehind
  <2> QED
    BY <1>14, <2>1, <2>3
<1>16. Spelled(d, b, l, 0, m)
  <2>1. PICK z \in Nat : z = 0 /\ z <= m
    OBVIOUS
  <2>2. Spelled(u, b, l, z, m)
    BY <1>9, <2>1
  <2>3. Spelled(u \o pair, b, l, z, m)
    BY <2>1, <2>2, SpelledBehind
  <2>4. Spelled(data \o root, b, l, z, m)
    BY <1>10, <1>11, <1>12, <2>1, <2>3, SpelledBehind
  <2> QED
    BY <1>14, <2>1, <2>4
<1>17. Found(d, p, l, m)
  <2>1. Found(u, p, l, m)
    BY <1>1, <1>6, FoundBehind
  <2>2. Found(u \o pair, p, l, m)
    BY <1>1, <2>1, FoundBehind
  <2>3. Found(data \o root, p, l, m)
    BY <1>1, <1>10, <1>11, <1>12, <2>2, FoundBehind
  <2> QED
    BY <1>14, <2>3
<1>18. PICK r : r = Reading(d, b)
  OBVIOUS
<1>19. PICK sent : sent = [name |-> n, end |-> Len(data)]
  OBVIOUS
<1>20. sent.name = n /\ sent.end = Len(data)
  BY <1>19
<1>21. /\ IsReading(r) /\ r.data = d /\ r.pos = b /\ r.end = -1 /\ Len(r.labels) = 0
       /\ r.visited = {} /\ r.pointers = 0 /\ TakenOf(r, l)
  BY <1>1, <1>18, BeginsWithNothing
<1>22. Ahead(r, sent)
  <2>1. PICK at \in Nat : at = b + 2 * m
    OBVIOUS
  <2>2. /\ at = r.pos + 2 * (m - Len(r.labels)) /\ sent.end = at + 2
        /\ m \in Len(r.labels)..Len(sent.name.labels)
    BY <1>1, <1>11, <1>20, <1>21, <2>1
  <2>3. /\ Spelled(r.data, r.pos, sent.name.labels, Len(r.labels), m)
        /\ Points(r.data, at, p) /\ Found(r.data, p, sent.name.labels, m)
    BY <1>1, <1>15, <1>16, <1>17, <1>20, <1>21, <2>1
  <2> QED
    BY <1>21, <2>2, <2>3 DEF Ahead, Found
<1>23. ReadingIsOf(r, sent)
  BY <1>1, <1>19, <1>20, <1>21, <1>22 DEF ReadingIsOf
<1> QED
  BY <1>7, <1>13, <1>14, <1>18, <1>19, <1>23

\* A reading has so many labels.
LEMMA CountIsNat == ASSUME NEW r, IsReading(r) PROVE Len(r.labels) \in Nat
<1>1. r.labels \in Seq(Seq(Nat) \ {<<>>})
  BY DEF IsReading
<1> QED
  BY <1>1

\* A pointer is followed to an offset of the message.
LEMMA FollowedIs ==
    ASSUME NEW r, IsReading(r), CanFollow(r)
    PROVE  /\ IsReading(Followed(r)) /\ Target(r) \in Nat
           /\ Followed(r).data = r.data /\ Followed(r).labels = r.labels
           /\ Followed(r).size = r.size /\ Followed(r).pos = Target(r)
           /\ Followed(r).end = IF r.end = -1 THEN r.pos + 2 ELSE r.end
           /\ Followed(r).visited = r.visited \union {Target(r)}
           /\ Followed(r).pointers = r.pointers + 1
<1>1. PICK f : f = Followed(r)
  OBVIOUS
<1>2. PICK d \in Seq(Nat), pos \in Nat : d = r.data /\ pos = r.pos
  BY DEF IsReading
<1>3. d[pos + 1] \in Nat /\ d[pos + 2] \in Nat /\ d[pos + 1] >= 192
  <2>1. pos + 1 \in 1..Len(d) /\ pos + 2 \in 1..Len(d)
    BY <1>2 DEF CanFollow
  <2>2. d[pos + 1] >= 192
    BY <1>2 DEF CanFollow, AtPointer, Octet, Pointer
  <2> QED
    BY <2>1, <2>2
<1>4. Target(r) = 256 * (d[pos + 1] - 192) + d[pos + 2]
  <2>1. (pos + 1) + 1 = pos + 2
    OBVIOUS
  <2> QED
    BY <1>2, <2>1 DEF Target, Octet, Pointer
<1>5. Target(r) \in Nat
  BY <1>3, <1>4
<1> PICK t \in Nat : t = Target(r)
  BY <1>5
<1>6. f = [data |-> r.data, pos |-> t, labels |-> r.labels,
           end |-> IF r.end = -1 THEN r.pos + 2 ELSE r.end,
           visited |-> r.visited \union {t}, pointers |-> r.pointers + 1, size |-> r.size]
  BY <1>1 DEF Followed, IsReading
<1>7. /\ f.data = r.data /\ f.labels = r.labels /\ f.size = r.size /\ f.pos = t
      /\ f.end = IF r.end = -1 THEN r.pos + 2 ELSE r.end
      /\ f.visited = r.visited \union {t} /\ f.pointers = r.pointers + 1
  BY <1>6
<1>8. f = [data |-> f.data, pos |-> f.pos, labels |-> f.labels, end |-> f.end,
           visited |-> f.visited, pointers |-> f.pointers, size |-> f.size]
  BY <1>6
<1>9. f.end \in Nat \cup {-1} /\ f.pointers \in Nat
  BY <1>7 DEF IsReading
<1>10. IsReading(f)
  BY <1>7, <1>8, <1>9 DEF IsReading
<1> QED
  BY <1>1, <1>5, <1>7, <1>10

\* A label is taken as it is in the message, and is not empty.
LEMMA TakenIs ==
    ASSUME NEW r, IsReading(r), CanTake(r)
    PROVE  /\ IsReading(Taken(r)) /\ Taken(r).data = r.data /\ Taken(r).end = r.end
           /\ Taken(r).visited = r.visited /\ Taken(r).pointers = r.pointers
           /\ Taken(r).pos = r.pos + 1 + Octet(r, r.pos)
           /\ Taken(r).size = r.size + 1 + Octet(r, r.pos)
           /\ Taken(r).labels = Append(r.labels, SubSeq(r.data, r.pos + 2, r.pos + 1 + Octet(r, r.pos)))
<1>1. PICK f : f = Taken(r)
  OBVIOUS
<1>2. PICK n \in Nat \ {0} : n = Octet(r, r.pos) /\ r.pos + 1 + n <= Len(r.data)
  BY WireAssumption DEF CanTake, Pointer
<1>3. PICK label : label = SubSeq(r.data, r.pos + 2, r.pos + 1 + n)
  OBVIOUS
<1>4. label \in Seq(Nat) \ {<<>>}
  <2>1. PICK d \in Seq(Nat), pos \in Nat : d = r.data /\ pos = r.pos
    BY DEF IsReading
  <2>2. PICK from \in Nat \ {0}, to \in Nat : from = pos + 2 /\ to = pos + 1 + n
    OBVIOUS
  <2>3. from <= to + 1 /\ to <= Len(d) /\ to - from + 1 = n
    BY <1>2, <2>1, <2>2, SMTT(30)
  <2>4. \A i \in from..to : d[i] \in Nat
    BY <2>3
  <2>5. SubSeq(d, from, to) \in Seq(Nat) /\ Len(SubSeq(d, from, to)) = n
    BY <2>2, <2>3, <2>4, SubSeqProperties
  <2>6. label = SubSeq(d, from, to)
    BY <1>3, <2>1, <2>2
  <2> QED
    BY <2>5, <2>6
<1>5. PICK labels : labels = Append(r.labels, label)
  OBVIOUS
<1>6. labels \in Seq(Seq(Nat) \ {<<>>})
  <2>1. r.labels \in Seq(Seq(Nat) \ {<<>>})
    BY DEF IsReading
  <2> QED
    BY <1>4, <1>5, <2>1
<1>7. f = [data |-> r.data, pos |-> r.pos + 1 + n, labels |-> labels, end |-> r.end,
           visited |-> r.visited, pointers |-> r.pointers, size |-> r.size + 1 + n]
  BY <1>1, <1>2, <1>3, <1>5 DEF Taken, IsReading
<1>8. /\ f.data = r.data /\ f.labels = labels /\ f.size = r.size + 1 + n
      /\ f.pos = r.pos + 1 + n /\ f.end = r.end
      /\ f.visited = r.visited /\ f.pointers = r.pointers
  BY <1>7
<1>9. f = [data |-> f.data, pos |-> f.pos, labels |-> f.labels, end |-> f.end,
           visited |-> f.visited, pointers |-> f.pointers, size |-> f.size]
  BY <1>7
<1>10. f.pos \in Nat /\ f.size \in Nat
  BY <1>8 DEF IsReading
<1>11. IsReading(f)
  BY <1>6, <1>8, <1>9, <1>10 DEF IsReading
<1> QED
  BY <1>1, <1>2, <1>3, <1>5, <1>8, <1>11

\* What the octet at a reading says to do, and nothing else.
LEMMA AtAPointer ==
    ASSUME NEW r, IsReading(r), NEW p \in Nat, Points(r.data, r.pos, p),
           p \notin r.visited, r.pointers < MaxPointers
    PROVE  CanFollow(r) /\ Target(r) = p /\ ~CanTake(r) /\ ~AtRoot(r)
<1>1. /\ Octet(r, r.pos) = 192 /\ Octet(r, r.pos + 1) = p /\ r.pos + 1 < Len(r.data)
      /\ r.pos < Len(r.data)
  BY DEF Points, Octet, Pointer, IsReading
<1>2. Target(r) = p
  BY <1>1 DEF Target, Pointer
<1>3. CanFollow(r)
  BY <1>1, <1>2 DEF CanFollow, AtPointer, Within, Pointer
<1>4. ~(192 \in 1..MaxLabel)
  BY WireAssumption DEF Pointer
<1>5. ~CanTake(r) /\ ~AtRoot(r)
  BY <1>1, <1>4 DEF CanTake, AtRoot
<1> QED
  BY <1>2, <1>3, <1>5

LEMMA AtTheRoot ==
    ASSUME NEW r, IsReading(r), r.pos < Len(r.data), r.data[r.pos + 1] = 0
    PROVE  AtRoot(r) /\ ~CanTake(r) /\ ~CanFollow(r)
<1>1. Octet(r, r.pos) = 0 /\ Within(r)
  BY DEF Octet, Within
<1> QED
  BY <1>1, WireAssumption DEF CanTake, CanFollow, AtRoot, AtPointer, Pointer

\* The next label of a name that was written is taken.
LEMMA AtALabel ==
    ASSUME NEW r, IsReading(r), NEW n, IsValid(n), TakenOf(r, n.labels),
           NEW m \in Nat, Len(r.labels) < m, m <= Len(n.labels),
           Spelled(r.data, r.pos, n.labels, Len(r.labels), m)
    PROVE  /\ CanTake(r) /\ ~CanFollow(r) /\ ~AtRoot(r)
           /\ IsReading(Taken(r)) /\ TakenOf(Taken(r), n.labels)
           /\ Taken(r).data = r.data /\ Taken(r).pos = r.pos + 2
           /\ Len(Taken(r).labels) = Len(r.labels) + 1
           /\ Taken(r).end = r.end /\ Taken(r).visited = r.visited
           /\ Taken(r).pointers = r.pointers
           /\ Spelled(r.data, r.pos + 2, n.labels, Len(r.labels) + 1, m)
<1>1. PICK l \in Seq(Proper) : l = n.labels /\ m <= Len(l) /\ Octets(l) <= MaxName
  BY DEF IsValid
<1>2. PICK k \in Nat : k = Len(r.labels) /\ k < m
  BY CountIsNat
<1>3. PICK d \in Seq(Nat), pos \in Nat : d = r.data /\ pos = r.pos
  BY DEF IsReading
<1>4. /\ pos + 2 * (m - k) <= Len(d)
      /\ \A i \in (k + 1)..m : d[pos + 2 * (i - k) - 1] = 1 /\ d[pos + 2 * (i - k)] = LabelOctet(l[i])
  BY <1>1, <1>2, <1>3 DEF Spelled
<1>5. PICK o : o = LabelOctet(l[k + 1])
  OBVIOUS
<1>6. d[pos + 1] = 1 /\ d[pos + 2] = o /\ pos + 2 <= Len(d)
  <2>1. k + 1 \in (k + 1)..m
    BY <1>2
  <2>2. PICK i \in (k + 1)..m : i = k + 1
    BY <2>1
  <2>3. pos + 2 * (i - k) - 1 = pos + 1 /\ pos + 2 * (i - k) = pos + 2
    BY <2>2
  <2>4. d[pos + 2 * (i - k) - 1] = 1 /\ d[pos + 2 * (i - k)] = LabelOctet(l[i])
    BY <1>4
  <2>5. pos + 2 <= Len(d)
    BY <1>2, <1>4
  <2> QED
    BY ONLY <1>5, <2>2, <2>3, <2>4, <2>5
<1>7. Octet(r, r.pos) = 1
  BY <1>3, <1>6 DEF Octet
<1>8. r.size = 1 + 2 * k
  BY <1>2 DEF TakenOf
<1>9. r.size + 2 <= MaxName + 2
  BY <1>1, <1>2, <1>8, NamesAssumption DEF Octets
<1>10. CanTake(r)
  BY <1>3, <1>6, <1>7, <1>8, <1>9, WireAssumption, SMTT(30) DEF CanTake, Within, Pointer
<1>11. ~CanFollow(r) /\ ~AtRoot(r)
  BY <1>7 DEF CanFollow, AtPointer, AtRoot, Pointer
<1>12. PICK f : f = Taken(r)
  OBVIOUS
<1>13. /\ IsReading(f) /\ f.data = r.data /\ f.end = r.end /\ f.visited = r.visited
       /\ f.pointers = r.pointers /\ f.pos = pos + 2 /\ f.size = r.size + 2
       /\ f.labels = Append(r.labels, SubSeq(d, pos + 2, pos + 2))
  <2>1. pos + 1 + 1 = pos + 2 /\ r.size + 1 + 1 = r.size + 2
    BY <1>8
  <2> QED
    BY <1>3, <1>7, <1>10, <1>12, <2>1, TakenIs
<1>14. SubSeq(d, pos + 2, pos + 2) = <<o>>
  <2>1. PICK a \in 1..Len(d) : a = pos + 2
    BY <1>6
  <2>2. d[a] \in Nat /\ a \in Nat \ {0} /\ a <= Len(d)
    OBVIOUS
  <2> PICK x \in Nat : x = d[a]
    BY <2>2
  <2>3. PICK t \in Seq(Nat) : t = <<x>>
    <3>1. <<x>> \in Seq(Nat)
      OBVIOUS
    <3> QED
      BY <3>1
  <2>4. Len(t) = a - a + 1
    BY <2>2, <2>3
  <2>5. \A i \in 1..Len(t) : t[i] = d[a + i - 1]
    <3>1. \A i \in 1..Len(t) : i = 1
      BY <2>3
    <3>2. t[1] = d[a + 1 - 1]
      BY <2>2, <2>3
    <3> QED
      BY <3>1, <3>2
  <2>6. SubSeq(d, a, a) = t
    BY <2>2, <2>4, <2>5, SubSeqIs, ZenonT(30)
  <2> QED
    BY <1>6, <2>1, <2>3, <2>6
<1>15. r.labels \in Seq(Seq(Nat) \ {<<>>})
  BY DEF IsReading
<1>16. Len(f.labels) = k + 1 /\ f.labels[k + 1] = <<o>> /\ \A i \in 1..k : f.labels[i] = r.labels[i]
  <2>1. f.labels = Append(r.labels, <<o>>)
    BY <1>13, <1>14
  <2> QED
    BY <1>2, <1>15, <2>1
<1>17. TakenOf(f, l)
  <2>1. ASSUME NEW i \in 1..(k + 1)
        PROVE  f.labels[i] = <<LabelOctet(l[i])>>
    <3>1. CASE i = k + 1
      BY <1>5, <1>16, <3>1
    <3>2. CASE i # k + 1
      <4>1. i \in 1..k
        BY <3>2
      <4>2. \A j \in 1..k : r.labels[j] = <<LabelOctet(l[j])>>
        BY <1>1, <1>2 DEF TakenOf
      <4> QED
        BY <1>16, <4>1, <4>2
    <3> QED
      BY <3>1, <3>2
  <2>2. f.size = 1 + 2 * (k + 1)
    <3>1. f.size = r.size + 2
      BY <1>13
    <3> QED
      BY ONLY <1>8, <3>1, k \in Nat
  <2>3. k + 1 <= Len(l)
    BY <1>1, <1>2
  <2> QED
    BY <1>16, <2>1, <2>2, <2>3 DEF TakenOf
<1>18. Spelled(d, pos + 2, l, k + 1, m)
  <2>1. ASSUME NEW i \in ((k + 1) + 1)..m
        PROVE  /\ d[(pos + 2) + 2 * (i - (k + 1)) - 1] = 1
               /\ d[(pos + 2) + 2 * (i - (k + 1))] = LabelOctet(l[i])
    <3>1. /\ (pos + 2) + 2 * (i - (k + 1)) - 1 = pos + 2 * (i - k) - 1
          /\ (pos + 2) + 2 * (i - (k + 1)) = pos + 2 * (i - k)
          /\ i \in (k + 1)..m
      OBVIOUS
    <3> QED
      BY <1>4, <3>1
  <2>2. (pos + 2) + 2 * (m - (k + 1)) = pos + 2 * (m - k)
    OBVIOUS
  <2> QED
    BY <1>4, <2>1, <2>2 DEF Spelled
<1> QED
  BY <1>1, <1>2, <1>3, <1>10, <1>11, <1>12, <1>13, <1>16, <1>17, <1>18

\* The first octets of a name, or its root, where a reading is.
LEMMA HereGoesOn ==
    ASSUME NEW r, NEW sent, sent # None, ReadingIsOf(r, sent), Here(r, sent)
    PROVE  /\ CanTake(r) \/ AtRoot(r)
           /\ ~CanFollow(r)
           /\ CanTake(r) => Here(Taken(r), sent) /\ TakenOf(Taken(r), sent.name.labels)
           /\ AtRoot(r) => Len(r.labels) = Len(sent.name.labels) /\ EndOf(r) = sent.end
<1>1. /\ IsReading(r) /\ IsValid(sent.name) /\ TakenOf(r, sent.name.labels)
  BY DEF ReadingIsOf
<1>2. PICK l \in Seq(Proper) : l = sent.name.labels
  BY <1>1 DEF IsValid
<1>3. PICK k \in Nat : k = Len(r.labels) /\ k <= Len(l)
  BY <1>1, <1>2, CountIsNat DEF TakenOf
<1>4. PICK d \in Seq(Nat), pos \in Nat : d = r.data /\ pos = r.pos
  BY <1>1 DEF IsReading
<1>5. /\ Spelled(d, pos, l, k, Len(l)) /\ pos + 2 * (Len(l) - k) < Len(d)
      /\ d[pos + 2 * (Len(l) - k) + 1] = 0
  BY <1>2, <1>3, <1>4 DEF Here, Rooted
<1>6. IF r.end = -1 THEN sent.end = pos + 2 * (Len(l) - k) + 1 ELSE sent.end = r.end
  BY <1>2, <1>3, <1>4 DEF Here
<1>7. CASE k = Len(l)
  <2>1. pos + 2 * (Len(l) - k) = pos /\ pos + 2 * (Len(l) - k) + 1 = pos + 1
    BY <1>7
  <2>2. pos < Len(d) /\ d[pos + 1] = 0
    BY <1>5, <2>1
  <2>3. AtRoot(r) /\ ~CanTake(r) /\ ~CanFollow(r)
    BY <1>1, <1>4, <2>2, AtTheRoot
  <2>4. EndOf(r) = sent.end
    BY <1>4, <1>6, <2>1 DEF EndOf
  <2> QED
    BY <1>2, <1>3, <1>7, <2>3, <2>4
<1>8. CASE k < Len(l)
  <2>1. PICK m \in Nat : m = Len(l)
    OBVIOUS
  <2>2. /\ CanTake(r) /\ ~CanFollow(r) /\ ~AtRoot(r)
        /\ TakenOf(Taken(r), sent.name.labels)
        /\ Taken(r).data = r.data /\ Taken(r).pos = r.pos + 2
        /\ Len(Taken(r).labels) = Len(r.labels) + 1 /\ Taken(r).end = r.end
        /\ Spelled(r.data, r.pos + 2, sent.name.labels, Len(r.labels) + 1, m)
    BY <1>1, <1>2, <1>3, <1>4, <1>5, <1>8, <2>1, AtALabel
  <2>3. PICK f : f = Taken(r)
    OBVIOUS
  <2>4. /\ f.data = d /\ f.pos = pos + 2 /\ Len(f.labels) = k + 1 /\ f.end = r.end
        /\ Spelled(d, pos + 2, l, k + 1, m)
    BY <1>2, <1>3, <1>4, <2>2, <2>3
  <2>5. (pos + 2) + 2 * (Len(l) - (k + 1)) = pos + 2 * (Len(l) - k)
    OBVIOUS
  <2>6. Rooted(d, pos + 2, l, k + 1)
    BY <1>5, <2>1, <2>4, <2>5 DEF Rooted
  <2>7. Here(f, sent)
    BY <1>2, <1>6, <2>4, <2>5, <2>6 DEF Here
  <2> QED
    BY <2>2, <2>3, <2>7
<1> QED
  BY <1>3, <1>7, <1>8

\* The last pointer leads to where the rest of the name is.
LEMMA BehindGoesOn ==
    ASSUME NEW r, NEW sent, sent # None, ReadingIsOf(r, sent), Behind(r, sent)
    PROVE  CanFollow(r) /\ ~CanTake(r) /\ ~AtRoot(r) /\ Here(Followed(r), sent)
<1>1. IsReading(r)
  BY DEF ReadingIsOf
<1>2. PICK p \in Nat :
        /\ Points(r.data, r.pos, p) /\ Rooted(r.data, p, sent.name.labels, Len(r.labels))
        /\ p \notin r.visited /\ r.pointers < MaxPointers
        /\ sent.end = IF r.end = -1 THEN r.pos + 2 ELSE r.end
  BY DEF Behind
<1>3. CanFollow(r) /\ Target(r) = p /\ ~CanTake(r) /\ ~AtRoot(r)
  BY <1>1, <1>2, AtAPointer
<1>4. PICK f : f = Followed(r)
  OBVIOUS
<1>5. /\ f.data = r.data /\ f.labels = r.labels /\ f.pos = p
      /\ f.end = IF r.end = -1 THEN r.pos + 2 ELSE r.end
  BY <1>1, <1>3, <1>4, FollowedIs
<1>6. f.end # -1 /\ sent.end = f.end
  BY <1>1, <1>2, <1>5 DEF IsReading
<1>7. Here(f, sent)
  BY <1>2, <1>5, <1>6 DEF Here
<1> QED
  BY <1>3, <1>4, <1>7

\* The labels before the first pointer are taken, and it is followed.
LEMMA AheadGoesOn ==
    ASSUME NEW r, NEW sent, sent # None, ReadingIsOf(r, sent), Ahead(r, sent)
    PROVE  /\ CanTake(r) \/ CanFollow(r)
           /\ ~AtRoot(r)
           /\ CanTake(r) => Ahead(Taken(r), sent) /\ TakenOf(Taken(r), sent.name.labels)
           /\ CanFollow(r) => Here(Followed(r), sent) \/ Behind(Followed(r), sent)
<1>1. /\ IsReading(r) /\ IsValid(sent.name) /\ TakenOf(r, sent.name.labels)
  BY DEF ReadingIsOf
<1>2. PICK l \in Seq(Proper) : l = sent.name.labels
  BY <1>1 DEF IsValid
<1>3. PICK k \in Nat : k = Len(r.labels) /\ k <= Len(l)
  BY <1>1, <1>2, CountIsNat DEF TakenOf
<1>4. PICK d \in Seq(Nat), pos \in Nat : d = r.data /\ pos = r.pos
  BY <1>1 DEF IsReading
<1>5. r.end = -1 /\ r.visited = {} /\ r.pointers = 0
  BY DEF Ahead
<1>6. PICK m \in k..Len(l), at \in Nat, p \in Nat :
        /\ at = pos + 2 * (m - k) /\ sent.end = at + 2
        /\ Spelled(d, pos, l, k, m) /\ Points(d, at, p) /\ Found(d, p, l, m)
  <2>1. \E m \in k..Len(l), at \in Nat, p \in Nat :
          /\ at = pos + 2 * (m - k) /\ sent.end = at + 2
          /\ Spelled(d, pos, l, k, m) /\ Points(d, at, p)
          /\ \/ Rooted(d, p, l, m)
             \/ \E q \in Nat : q # p /\ Points(d, p, q) /\ Rooted(d, q, l, m)
    BY <1>2, <1>3, <1>4 DEF Ahead
  <2> QED
    BY <2>1 DEF Found
<1>7. CASE k < m
  <2>1. /\ CanTake(r) /\ ~CanFollow(r) /\ ~AtRoot(r)
        /\ TakenOf(Taken(r), sent.name.labels)
        /\ Taken(r).data = r.data /\ Taken(r).pos = r.pos + 2
        /\ Len(Taken(r).labels) = Len(r.labels) + 1 /\ Taken(r).end = r.end
        /\ Taken(r).visited = r.visited /\ Taken(r).pointers = r.pointers
        /\ Spelled(r.data, r.pos + 2, sent.name.labels, Len(r.labels) + 1, m)
    <3>1. m \in Nat /\ m <= Len(l)
      BY <1>6
    <3> QED
      BY <1>1, <1>2, <1>3, <1>4, <1>6, <1>7, <3>1, AtALabel
  <2>2. PICK f : f = Taken(r)
    OBVIOUS
  <2>3. /\ f.data = d /\ f.pos = pos + 2 /\ Len(f.labels) = k + 1 /\ f.end = -1
        /\ f.visited = {} /\ f.pointers = 0 /\ Spelled(d, pos + 2, l, k + 1, m)
    BY <1>2, <1>3, <1>4, <1>5, <2>1, <2>2
  <2>4. at = (pos + 2) + 2 * (m - (k + 1)) /\ m \in (k + 1)..Len(l)
    BY <1>6, <1>7
  <2>5. Ahead(f, sent)
    BY <1>2, <1>6, <2>3, <2>4 DEF Ahead, Found
  <2> QED
    BY <2>1, <2>2, <2>5
<1>8. CASE k = m
  <2>1. at = pos
    BY <1>6, <1>8
  <2>2. Points(r.data, r.pos, p) /\ p \notin r.visited /\ r.pointers < MaxPointers
    BY <1>4, <1>5, <1>6, <2>1, WireAssumption
  <2>3. CanFollow(r) /\ Target(r) = p /\ ~CanTake(r) /\ ~AtRoot(r)
    BY <1>1, <2>2, AtAPointer
  <2>4. PICK f : f = Followed(r)
    OBVIOUS
  <2>5. /\ f.data = d /\ f.labels = r.labels /\ f.pos = p /\ f.end = r.pos + 2
        /\ f.visited = {p} /\ f.pointers = 1
    BY <1>1, <1>4, <1>5, <2>3, <2>4, FollowedIs, SMTT(30)
  <2>6. sent.end = f.end /\ f.end # -1 /\ Len(f.labels) = m
    <3>1. f.end = pos + 2 /\ sent.end = pos + 2
      BY <1>4, <1>6, <2>1, <2>5
    <3>2. Len(f.labels) = m
      BY <1>3, <1>8, <2>5
    <3> QED
      BY <3>1, <3>2
  <2>7. CASE Rooted(d, p, l, m)
    <3>1. Here(f, sent)
      BY <1>2, <2>5, <2>6, <2>7 DEF Here
    <3> QED
      BY <2>3, <2>4, <3>1
  <2>8. CASE \E q \in Nat : q # p /\ Points(d, p, q) /\ Rooted(d, q, l, m)
    <3>1. PICK q \in Nat : q # p /\ Points(d, p, q) /\ Rooted(d, q, l, m)
      BY <2>8
    <3>2. q \notin f.visited /\ f.pointers < MaxPointers
      BY <2>5, <3>1, WireAssumption
    <3>3. sent.end = IF f.end = -1 THEN f.pos + 2 ELSE f.end
      BY <2>6
    <3>4. Points(f.data, f.pos, q) /\ Rooted(f.data, q, sent.name.labels, Len(f.labels))
      BY <1>2, <2>5, <2>6, <3>1
    <3>5. Behind(f, sent)
      BY <3>2, <3>3, <3>4 DEF Behind
    <3> QED
      BY <2>3, <2>4, <3>5
  <2> QED
    BY <1>6, <2>7, <2>8 DEF Found
<1> QED
  BY <1>6, <1>7, <1>8

\* A reading of what was sent goes on with what is still to come, and at the root has the
\* whole name.
LEMMA SentGoesOn ==
    ASSUME NEW r, NEW sent, sent # None, ReadingIsOf(r, sent)
    PROVE  /\ CanFollow(r) \/ CanTake(r) \/ AtRoot(r)
           /\ CanFollow(r) => ReadingIsOf(Followed(r), sent)
           /\ CanTake(r) => ReadingIsOf(Taken(r), sent)
           /\ AtRoot(r) => Len(r.labels) = Len(sent.name.labels) /\ EndOf(r) = sent.end
<1>1. /\ IsReading(r) /\ TakenOf(r, sent.name.labels) /\ IsValid(sent.name)
      /\ sent = [name |-> sent.name, end |-> sent.end]
      /\ Here(r, sent) \/ Behind(r, sent) \/ Ahead(r, sent)
  BY DEF ReadingIsOf
<1>2. /\ CanFollow(r) \/ CanTake(r) \/ AtRoot(r)
      /\ CanTake(r) => /\ TakenOf(Taken(r), sent.name.labels)
                       /\ Here(Taken(r), sent) \/ Ahead(Taken(r), sent)
      /\ CanFollow(r) => Here(Followed(r), sent) \/ Behind(Followed(r), sent)
      /\ AtRoot(r) => Len(r.labels) = Len(sent.name.labels) /\ EndOf(r) = sent.end
  <2>1. CASE Here(r, sent)
    BY <2>1, HereGoesOn
  <2>2. CASE Behind(r, sent)
    BY <2>2, BehindGoesOn
  <2>3. CASE Ahead(r, sent)
    BY <2>3, AheadGoesOn
  <2> QED
    BY <1>1, <2>1, <2>2, <2>3
<1>3. CanTake(r) => ReadingIsOf(Taken(r), sent)
  <2>1. CanTake(r) => IsReading(Taken(r))
    BY <1>1, TakenIs
  <2> QED
    BY <1>1, <1>2, <2>1 DEF ReadingIsOf
<1>4. CanFollow(r) => ReadingIsOf(Followed(r), sent)
  <2>1. CanFollow(r) => /\ IsReading(Followed(r)) /\ Followed(r).labels = r.labels
                        /\ Followed(r).size = r.size
    BY <1>1, FollowedIs
  <2>2. CanFollow(r) => TakenOf(Followed(r), sent.name.labels)
    BY <1>1, <2>1 DEF TakenOf
  <2> QED
    BY <1>1, <1>2, <2>1, <2>2 DEF ReadingIsOf
<1> QED
  BY <1>2, <1>3, <1>4

\* A label that was written reads as one: its octet is that of no other.
LEMMA LabelReadsBack ==
    ASSUME NEW x \in Proper, NEW o, o = LabelOctet(x)
    PROVE  /\ o \in (Letter + 2)..LastLetter
           /\ [key |-> (o - Letter) \div 2, upper |-> o % 2 = 1] = x
<1>1. x = [key |-> x.key, upper |-> x.upper]
  BY DEF Proper, Writable, Label
<1>2. /\ x.key \in Nat \ {0} /\ x.upper \in BOOLEAN /\ LabelOctet(x) <= LastLetter
  BY DEF Proper, Writable, Label
<1>3. PICK k \in Nat \ {0} : k = x.key
  BY <1>2
<1>4. PICK half \in Nat : Letter = 2 * half
  <2>1. Letter \in Nat /\ Letter % 2 = 0
    BY WireAssumption
  <2>2. Letter \div 2 \in Nat /\ Letter = 2 * (Letter \div 2)
    BY <2>1
  <2> QED
    BY <2>2
<1>5. o \in (Letter + 2)..LastLetter
  BY <1>2, <1>3, WireAssumption DEF LabelOctet
<1>6. CASE x.upper
  <2>1. o = 2 * (half + k) + 1
    BY <1>3, <1>4, <1>6 DEF LabelOctet
  <2>2. o - Letter = 2 * k + 1
    BY <1>4, <2>1
  <2>3. (o - Letter) \div 2 = k /\ o % 2 = 1
    BY <2>1, <2>2
  <2> QED
    BY <1>1, <1>3, <1>5, <1>6, <2>3
<1>7. CASE ~x.upper
  <2>1. o = 2 * (half + k)
    BY <1>3, <1>4, <1>7 DEF LabelOctet
  <2>2. o - Letter = 2 * k
    BY <1>4, <2>1
  <2>3. (o - Letter) \div 2 = k /\ o % 2 = 0
    BY <2>1, <2>2
  <2> QED
    BY <1>1, <1>2, <1>3, <1>5, <1>7, <2>3
<1> QED
  BY <1>2, <1>6, <1>7

\* The whole of a name reads as the name, fully qualified.
LEMMA DecodedIsSent ==
    ASSUME NEW n, IsValid(n), NEW r, TakenOf(r, n.labels), IsReading(r),
           Len(r.labels) = Len(n.labels)
    PROVE  Decoded(r) = Qualified(n, TRUE)
<1>1. PICK l \in Seq(Proper) : l = n.labels /\ l # <<>>
  BY DEF IsValid
<1>2. PICK m \in Nat \ {0} : m = Len(l) /\ DOMAIN l = 1..m
  BY <1>1
<1>3. DOMAIN r.labels = 1..m /\ r.labels # <<>>
  <2>1. r.labels \in Seq(Seq(Nat) \ {<<>>})
    BY DEF IsReading
  <2> QED
    BY <1>1, <1>2, <2>1
<1>4. ASSUME NEW i \in 1..m
      PROVE  /\ IsLabel(r.labels[i])
             /\ [key |-> (r.labels[i][1] - Letter) \div 2,
                 upper |-> r.labels[i][1] % 2 = 1] = l[i]
  <2>1. PICK o : o = LabelOctet(l[i])
    OBVIOUS
  <2>2. r.labels[i] = <<o>>
    BY <1>1, <1>2, <2>1 DEF TakenOf
  <2>3. l[i] \in Proper
    BY <1>2
  <2>4. /\ o \in (Letter + 2)..LastLetter
        /\ [key |-> (o - Letter) \div 2, upper |-> o % 2 = 1] = l[i]
    BY <2>1, <2>3, LabelReadsBack
  <2>5. r.labels[i][1] = o /\ DOMAIN r.labels[i] = {1}
    BY <2>2
  <2>6. IsLabel(r.labels[i])
    BY <2>4, <2>5 DEF IsLabel
  <2> QED
    BY <2>4, <2>5, <2>6
<1>5. [i \in DOMAIN r.labels |-> [key |-> (r.labels[i][1] - Letter) \div 2,
                                  upper |-> r.labels[i][1] % 2 = 1]] = l
  <2>1. [i \in 1..m |-> [key |-> (r.labels[i][1] - Letter) \div 2,
                         upper |-> r.labels[i][1] % 2 = 1]] = [i \in 1..m |-> l[i]]
    BY <1>4
  <2>2. l = [i \in 1..m |-> l[i]]
    BY <1>2
  <2> QED
    BY <1>3, <2>1, <2>2
<1>6. Decoded(r) = FromLabels(l, TRUE)
  <2>1. ~(r.labels = <<>> \/ \E i \in DOMAIN r.labels : ~IsLabel(r.labels[i]))
    BY <1>3, <1>4
  <2> QED
    BY <1>5, <2>1 DEF Decoded
<1> QED
  BY <1>1, <1>6 DEF Qualified

\* Of any message only a name comes out, or none.
LEMMA DecodedIsName ==
    ASSUME NEW r, IsReading(r), Decoded(r) # Bad
    PROVE  IsName(Decoded(r)) /\ Decoded(r).absolute
<1>1. PICK s \in Seq(Seq(Nat) \ {<<>>}) : s = r.labels
  BY DEF IsReading
<1>2. PICK l : l = [i \in DOMAIN s |-> [key |-> (s[i][1] - Letter) \div 2,
                                        upper |-> s[i][1] % 2 = 1]]
  OBVIOUS
<1>3. /\ s # <<>> /\ \A i \in DOMAIN s : IsLabel(s[i])
      /\ Decoded(r) = FromLabels(l, TRUE)
  BY <1>1, <1>2 DEF Decoded
<1>4. PICK n : n = [labels |-> l, absolute |-> TRUE]
  OBVIOUS
<1>5. ~(Octets(l) > MaxName) /\ l # <<>> /\ FromLabels(l, TRUE) = n
  BY <1>3, <1>4 DEF FromLabels
<1>6. n.labels = l /\ n.absolute
  BY <1>4
<1>7. ASSUME NEW i \in DOMAIN s
      PROVE  l[i].key # 0
  <2>1. PICK o : o = s[i][1]
    OBVIOUS
  <2>2. s[i] \in Seq(Nat) \ {<<>>} /\ IsLabel(s[i])
    BY <1>3
  <2>3. 1 \in DOMAIN s[i]
    BY <2>2
  <2>4. o \in (Letter + 2)..LastLetter
    BY <2>1, <2>2, <2>3 DEF IsLabel
  <2>5. (o - Letter) \div 2 # 0
    BY <2>4, WireAssumption
  <2>6. l[i].key = (o - Letter) \div 2
    BY <1>2, <2>1
  <2> QED
    BY <2>5, <2>6
<1>8. DOMAIN l = DOMAIN s /\ Octets(l) <= MaxName
  <2>1. DOMAIN l = DOMAIN s /\ DOMAIN s = 1..Len(s)
    BY <1>2
  <2>2. Len(l) = Len(s)
    BY <2>1
  <2> QED
    BY <1>5, <2>1, <2>2, NamesAssumption DEF Octets
<1>9. IsName(n)
  BY <1>5, <1>6, <1>7, <1>8 DEF IsName
<1> QED
  BY <1>3, <1>5, <1>6, <1>9

\* Behind a peer that ends alike the rest of a name is found in the peer, or at a
\* pointer into it.
LEMMA FoundInPeer ==
    ASSUME NEW n, IsValid(n), NEW p, IsValid(p),
           NEW c \in Nat \ {0}, c <= Len(p.labels), c <= Len(n.labels),
           Ending(n.labels, c) = Ending(p.labels, c),
           NEW at, at = 2 * (Len(p.labels) - c)
    PROVE  /\ Encode(p) \in Seq(Nat) /\ at \in Nat /\ Len(Encode(p)) \in Nat
           /\ Found(Encode(p), at, n.labels, Len(n.labels) - c)
           /\ Encode(p) \o <<Pointer, at>> \in Seq(Nat)
           /\ Found(Encode(p) \o <<Pointer, at>>, Len(Encode(p)), n.labels,
                    Len(n.labels) - c)
<1>1. PICK l \in Seq(Proper) : l = n.labels
  BY DEF IsValid
<1>2. PICK k \in Seq(Proper) : k = p.labels
  BY DEF IsValid
<1>3. Len(l) - c \in Nat /\ Len(k) - c \in Nat /\ Len(l) - c <= Len(l)
  BY <1>1, <1>2
<1>4. PICK s \in Seq(Nat) : s = Encode(p) /\ Len(s) = 2 * Len(k) + 1
  BY <1>2, EncodedIs
<1>5. at \in Nat /\ at # Len(s) /\ Len(s) \in Nat
  <2>1. PICK d \in Nat : d = Len(k) - c
    BY <1>3
  <2>2. PICK z \in Nat : z = Len(k)
    OBVIOUS
  <2>3. d <= z /\ at = 2 * d /\ Len(s) = 2 * z + 1
    BY <1>2, <1>4, <2>1, <2>2
  <2> QED
    BY <2>3
<1>6. Rooted(s, at, l, Len(l) - c)
  BY <1>1, <1>2, <1>4, EndsAlike
<1>7. PICK pair \in Seq(Nat) : pair = <<Pointer, at>>
  <2>1. <<Pointer, at>> \in Seq(Nat)
    BY <1>5 DEF Pointer
  <2> QED
    BY <2>1
<1>8. Rooted(s \o pair, at, l, Len(l) - c)
  <2>1. PICK m \in Nat : m = Len(l) - c /\ m <= Len(l)
    BY <1>3
  <2>2. Len(l) \in Nat /\ Rooted(s, at, l, m)
    BY <1>6, <2>1
  <2>3. Rooted(s \o pair, at, l, m)
    BY <1>5, <2>1, <2>2, RootedBehind
  <2> QED
    BY <2>1, <2>3
<1>9. s \o pair \in Seq(Nat) /\ Points(s \o pair, Len(s), at)
  BY <1>5, <1>7, PointsAtEnd
<1>10. Found(s \o pair, Len(s), l, Len(l) - c)
  BY <1>5, <1>8, <1>9 DEF Found
<1> QED
  BY <1>1, <1>4, <1>5, <1>6, <1>7, <1>9, <1>10 DEF Found

\* What comes before a name behind a peer, where its pointer leads, and all of it.
Preceding(peer, c, chained) ==
    Encode(peer) \o IF chained THEN <<Pointer, 2 * (Len(peer.labels) - c)>> ELSE <<>>

PointedAt(peer, c, chained) ==
    IF chained THEN Len(Encode(peer)) ELSE 2 * (Len(peer.labels) - c)

Compressed(n, peer, c, chained) ==
    Preceding(peer, c, chained)
        \o LabelOctets(SubSeq(n.labels, 1, Len(n.labels) - c))
        \o <<Pointer, PointedAt(peer, c, chained)>>

\* What a name was sent in is read as the name.
LEMMA SentIsReading ==
    ASSUME IsValid(value.name), Send
    PROVE  \E r, sent : /\ value' = [kind |-> "reading", r |-> r, sent |-> sent]
                        /\ ReadingIsOf(r, sent)
<1>1. PICK n : n = value.name /\ IsValid(n)
  OBVIOUS
<1>2. CASE value' = [kind |-> "reading", r |-> Reading(Encode(n), 0),
                     sent |-> [name |-> n, end |-> Len(Encode(n))]]
  BY <1>1, <1>2, AloneIsHere
<1>3. ASSUME NEW peer \in Peers, NEW c \in 1..Len(peer.labels), NEW chained \in BOOLEAN,
             c <= Len(n.labels), Ending(n.labels, c) = Ending(peer.labels, c),
             NEW data, data = Compressed(n, peer, c, chained),
             NEW before, before = Preceding(peer, c, chained)
      PROVE  ReadingIsOf(Reading(data \o <<0>>, Len(before)), [name |-> n, end |-> Len(data)])
  <2>1. IsValid(peer)
    BY PeersAreValid
  <2>2. PICK l \in Seq(Proper) : l = n.labels
    BY <1>1 DEF IsValid
  <2>3. PICK m \in Nat : m = Len(n.labels) - c /\ m <= Len(n.labels)
    <3>1. Len(l) - c \in Nat /\ Len(l) - c <= Len(l)
      BY <1>3, <2>2
    <3> QED
      BY <2>2, <3>1
  <2>4. c \in Nat \ {0} /\ c <= Len(peer.labels)
    <3>1. Len(peer.labels) \in Nat
      BY <2>1 DEF IsValid
    <3> QED
      BY <1>3, <3>1
  <2> PICK at, target, own : /\ at = 2 * (Len(peer.labels) - c)
                             /\ target = PointedAt(peer, c, chained)
                             /\ own = SubSeq(n.labels, 1, m)
    OBVIOUS
  <2>5. /\ Encode(peer) \in Seq(Nat) /\ at \in Nat /\ Len(Encode(peer)) \in Nat
        /\ Found(Encode(peer), at, n.labels, m)
        /\ Encode(peer) \o <<Pointer, at>> \in Seq(Nat)
        /\ Found(Encode(peer) \o <<Pointer, at>>, Len(Encode(peer)), n.labels, m)
    BY <1>1, <1>3, <2>1, <2>3, <2>4, FoundInPeer
  <2>6. before \in Seq(Nat) /\ target \in Nat /\ Found(before, target, n.labels, m)
    <3>1. CASE chained
      BY <1>3, <2>5, <3>1 DEF Preceding, PointedAt
    <3>2. CASE ~chained
      <4>1. PICK s \in Seq(Nat) : s = Encode(peer)
        BY <2>5
      <4>2. s \o <<>> = s
        BY ConcatEmptySeq
      <4>3. before = Encode(peer) /\ target = at
        BY <1>3, <3>2, <4>1, <4>2 DEF Preceding, PointedAt
      <4> QED
        BY <2>5, <4>3
    <3> QED
      BY <3>1, <3>2
  <2>7. data = before \o LabelOctets(own) \o <<Pointer, target>>
    BY <1>3, <2>3 DEF Compressed
  <2> QED
    BY <1>1, <1>3, <2>3, <2>6, <2>7, CompressedIsAhead
<1>4. CASE \E peer \in Peers : \E c \in 1..Len(peer.labels), chained \in BOOLEAN :
             LET data == Compressed(n, peer, c, chained)
             IN  /\ c <= Len(n.labels) /\ Ending(n.labels, c) = Ending(peer.labels, c)
                 /\ value' = [kind |-> "reading",
                              r |-> Reading(data \o <<0>>, Len(Preceding(peer, c, chained))),
                              sent |-> [name |-> n, end |-> Len(data)]]
  BY <1>3, <1>4, ZenonT(40)
<1> QED
  BY <1>1, <1>2, <1>4, ZenonT(40) DEF Send, Preceding, PointedAt, Compressed

\* A message that was given is read as one.
LEMMA GivenIsReading ==
    ASSUME NEW m \in Messages, NEW offset \in 0..Len(m)
    PROVE  ReadingIsOf(Reading(m, offset), None)
<1>1. m \in Seq(0..255)
  BY MessagesGiven
<1>2. PICK data \in Seq(Nat) : data = m
  <2>1. PICK Byte : Byte = 0..255
    OBVIOUS
  <2>2. PICK t \in Seq(Byte) : t = m
    BY <1>1, <2>1
  <2>3. ASSUME NEW i \in DOMAIN t
        PROVE  t[i] \in Nat
    <3>1. t[i] \in Byte
      OBVIOUS
    <3>2. \A b \in Byte : b \in Nat
      BY ONLY <2>1
    <3> QED
      BY ONLY <3>1, <3>2
  <2>4. t \in Seq(Nat)
    BY <2>2, <2>3
  <2> QED
    BY <2>2, <2>4
<1>3. offset \in Nat
  BY <1>2
<1> QED
  BY <1>2, <1>3, BeginsWithNothing DEF ReadingIsOf

\* A step of a reading leads to a reading, or to the name.
LEMMA ReadOn ==
    ASSUME NEW r, NEW sent, ReadingIsOf(r, sent)
    PROVE  /\ CanFollow(r) => ReadingIsOf(Followed(r), sent)
           /\ CanTake(r) => ReadingIsOf(Taken(r), sent)
           /\ sent # None => CanFollow(r) \/ CanTake(r) \/ AtRoot(r)
           /\ AtRoot(r) => IF sent = None
                           THEN Decoded(r) # Bad => IsName(Decoded(r)) /\ Decoded(r).absolute
                           ELSE Decoded(r) = Qualified(sent.name, TRUE) /\ EndOf(r) = sent.end
<1>1. IsReading(r)
  BY DEF ReadingIsOf
<1>2. CASE sent = None
  BY <1>1, <1>2, FollowedIs, TakenIs, DecodedIsName DEF ReadingIsOf
<1>3. CASE sent # None
  <2>1. IsValid(sent.name) /\ TakenOf(r, sent.name.labels)
    BY <1>3 DEF ReadingIsOf
  <2>2. /\ CanFollow(r) \/ CanTake(r) \/ AtRoot(r)
        /\ CanFollow(r) => ReadingIsOf(Followed(r), sent)
        /\ CanTake(r) => ReadingIsOf(Taken(r), sent)
        /\ AtRoot(r) => Len(r.labels) = Len(sent.name.labels) /\ EndOf(r) = sent.end
    BY <1>3, SentGoesOn
  <2>3. AtRoot(r) => Decoded(r) = Qualified(sent.name, TRUE)
    BY <1>1, <2>1, <2>2, DecodedIsSent
  <2> QED
    BY <1>3, <2>2, <2>3
<1> QED
  BY <1>2, <1>3
-----------------------------------------------------------------------------
(* Values: the invariant, step by step.                                       *)

\* What every value is that the calls lead to: a name that was accepted, a reading that
\* has taken the first labels of what was sent and still finds the others, a text that
\* was joined from an endpoint, the answers the code gives for what was asked.
ValueInv ==
    /\ value.kind = "parts" => value.parts \in Pieces
    /\ value.kind = "name" => IsValid(value.name)
    /\ value.kind = "reading" =>
          /\ value = [kind |-> "reading", r |-> value.r, sent |-> value.sent]
          /\ ReadingIsOf(value.r, value.sent)
    /\ WireHoldsTheName
    /\ value.kind \in {"endpoint", "text"} => IsEndpoint(value.of)
    /\ value.kind = "text" => value.joined = JoinHost(value.of.host, value.of.port)
    /\ EndpointSurvivesItsText
    /\ value.kind \in {"spec", "selected"} => IsSpec(value.of)
    /\ value.kind = "selected" =>
          value.address = AddressOf(value.of) /\ value.index = IndexIn(value.of)
    /\ value.kind \in {"destination", "route"} => IsDestination(value.of)
    /\ value.kind = "route" => value.route = RouteOf(value.of)

LEMMA ValuesInitInv == ValuesInit => ValueInv
<1> SUFFICES ASSUME ValuesInit
             PROVE  ValueInv
  OBVIOUS
<1>1. CASE \E p \in Pieces : value = [kind |-> "parts", parts |-> p]
  BY <1>1 DEF ValueInv, EndpointSurvivesItsText, WireHoldsTheName
<1>2. CASE \E m \in Messages : \E offset \in 0..Len(m) :
              value = [kind |-> "reading", r |-> Reading(m, offset), sent |-> None]
  <2>1. PICK r : /\ value = [kind |-> "reading", r |-> r, sent |-> None]
                 /\ ReadingIsOf(r, None)
    BY <1>2, GivenIsReading
  <2>2. value.kind = "reading" /\ value.r = r /\ value.sent = None
    BY <2>1
  <2> QED
    BY <2>1, <2>2 DEF ValueInv, EndpointSurvivesItsText, WireHoldsTheName
<1>3. CASE \E e \in Endpoints : value = [kind |-> "endpoint", of |-> e]
  <2>1. PICK e \in Endpoints : value = [kind |-> "endpoint", of |-> e]
    BY <1>3
  <2>2. IsEndpoint(e)
    BY EndpointsGiven DEF IsEndpoint, Plain
  <2> QED
    BY <2>1, <2>2 DEF ValueInv, EndpointSurvivesItsText, WireHoldsTheName
<1>4. CASE \E e \in Enumerations, q \in Queries, want \in {"v4", "v6", "either"} :
            \E again \in {e} \union {d \in Enumerations : Degraded(d)}, strict \in BOOLEAN :
               value = [kind |-> "spec",
                        of |-> [adapters |-> e, again |-> again, query |-> q,
                                want |-> want, strict |-> strict]]
  <2>1. PICK e \in Enumerations, q \in Queries, want \in {"v4", "v6", "either"} :
            \E again \in {e} \union {d \in Enumerations : Degraded(d)}, strict \in BOOLEAN :
               value = [kind |-> "spec",
                        of |-> [adapters |-> e, again |-> again, query |-> q,
                                want |-> want, strict |-> strict]]
    BY <1>4
  <2>2. PICK again : \E strict \in BOOLEAN :
               value = [kind |-> "spec",
                        of |-> [adapters |-> e, again |-> again, query |-> q,
                                want |-> want, strict |-> strict]]
    BY <2>1
  <2>3. PICK strict \in BOOLEAN :
               value = [kind |-> "spec",
                        of |-> [adapters |-> e, again |-> again, query |-> q,
                                want |-> want, strict |-> strict]]
    BY <2>2
  <2>4. e \in Seq(Interface) /\ q \in Query
    BY AdaptersGiven
  <2>5. value.kind = "spec" /\ IsSpec(value.of)
    BY <2>3, <2>4 DEF IsSpec
  <2> QED
    BY <2>5 DEF ValueInv, EndpointSurvivesItsText, WireHoldsTheName
<1>5. CASE \E t \in Tables, n \in Addresses, resolved \in BOOLEAN :
            \E system \in {"linux", "bsd", "windows"} :
               value = [kind |-> "destination",
                        of |-> [table |-> t.rows, address |-> [v6 |-> t.v6, n |-> n],
                                system |-> system, resolved |-> resolved,
                                loopbackAdapter |-> 1]]
  <2>1. PICK t \in Tables, n \in Addresses, resolved \in BOOLEAN,
             system \in {"linux", "bsd", "windows"} :
               value = [kind |-> "destination",
                        of |-> [table |-> t.rows, address |-> [v6 |-> t.v6, n |-> n],
                                system |-> system, resolved |-> resolved,
                                loopbackAdapter |-> 1]]
    BY <1>5
  <2>2. t.v6 \in BOOLEAN /\ t.rows \in Seq(Row)
          /\ (t.v6 \/ \A i \in DOMAIN t.rows : t.rows[i].up)
    BY TablesGiven
  <2>3. value.kind = "destination" /\ IsDestination(value.of)
    BY <2>1, <2>2 DEF IsDestination
  <2> QED
    BY <2>3 DEF ValueInv, EndpointSurvivesItsText, WireHoldsTheName
<1> QED
  BY <1>1, <1>2, <1>3, <1>4, <1>5 DEF ValuesInit

\* A name made by a constructor or an operation is one.
LEMMA NamedInv ==
    ASSUME NEW n, Named(n), n \notin Nothing => IsValid(n)
    PROVE  ValueInv'
<1>1. value' = [kind |-> "name", name |-> n] /\ IsValid(n)
  BY DEF Named
<1>2. value'.kind = "name" /\ value'.name = n
  BY <1>1
<1> QED
  BY <1>1, <1>2 DEF ValueInv, EndpointSurvivesItsText, WireHoldsTheName

\* Whatever a name is asked for is a name, or no answer.
LEMMA DeriveInv == ASSUME ValueInv, Derive PROVE ValueInv'
<1>1. PICK n : n = value.name
  OBVIOUS
<1>2. IsValid(n)
  BY <1>1 DEF ValueInv, Derive
<1>3. /\ Accepted(Domain(n)) /\ Accepted(Reversed(n))
      /\ Accepted(Qualified(n, TRUE)) /\ Accepted(Qualified(n, FALSE))
  BY <1>2, DerivedIsValid
<1>4. ASSUME NEW p \in Peers
      PROVE  /\ Accepted(Under(n, p)) /\ Accepted(WithHostname(n, p))
             /\ Accepted(RelativeTo(n, p)) /\ Accepted(CommonAncestor(n, p))
  <2>1. IsValid(p)
    BY PeersAreValid
  <2>2. Accepted(Under(n, p)) /\ Accepted(WithHostname(n, p)) /\ Accepted(RelativeTo(n, p))
    BY <1>2, <2>1, DerivedIsValid
  <2>3. PICK above : above = {a \in Lineage(n) : Holding(a, p)}
    OBVIOUS
  <2>4. CommonAncestor(n, p) = None \/ CommonAncestor(n, p) \in Lineage(n)
    BY <1>2, <2>1, <2>3, CommonIsNearest
  <2>5. \A a \in Lineage(n) : IsValid(a)
    BY <1>2, LineageIs, EndingOfIs
  <2>6. Accepted(CommonAncestor(n, p))
    BY <2>4, <2>5 DEF Nothing, Accepted
  <2> QED
    BY <2>2, <2>6
<1>5. CASE Named(Domain(n)) \/ Named(Reversed(n))
  BY <1>3, <1>5, NamedInv DEF Accepted
<1>6. CASE \E absolute \in BOOLEAN : Named(Qualified(n, absolute))
  <2>1. Named(Qualified(n, TRUE)) \/ Named(Qualified(n, FALSE))
    BY <1>6
  <2> QED
    BY <1>3, <2>1, NamedInv DEF Accepted
<1>7. CASE \E p \in Peers : \/ Named(Under(n, p)) \/ Named(WithHostname(n, p))
                            \/ Named(RelativeTo(n, p)) \/ Named(CommonAncestor(n, p))
  BY <1>4, <1>7, NamedInv DEF Accepted
<1> QED
  BY <1>1, <1>5, <1>6, <1>7 DEF Derive

\* A message being read stays one until the name is decoded, and then it is that name.
LEMMA ReadingInv == ASSUME ValueInv, Send \/ ReadStep PROVE ValueInv'
<1>1. ASSUME NEW r, NEW sent, ReadingIsOf(r, sent),
             value' = [kind |-> "reading", r |-> r, sent |-> sent]
      PROVE  ValueInv'
  <2>1. value'.kind = "reading" /\ value'.r = r /\ value'.sent = sent
    BY <1>1
  <2> QED
    BY <1>1, <2>1 DEF ValueInv, EndpointSurvivesItsText, WireHoldsTheName
<1>2. ASSUME NEW name, NEW end, NEW sent,
             value' = [kind |-> "decoded", name |-> name, end |-> end, sent |-> sent],
             IF sent = None THEN name # Bad => IsName(name) /\ name.absolute
             ELSE name = Qualified(sent.name, TRUE) /\ end = sent.end
      PROVE  ValueInv'
  <2>1. /\ value'.kind = "decoded" /\ value'.name = name
        /\ value'.end = end /\ value'.sent = sent
    BY <1>2
  <2>2. WireHoldsTheName'
    BY <1>2, <2>1 DEF WireHoldsTheName
  <2> QED
    BY <2>1, <2>2 DEF ValueInv, EndpointSurvivesItsText
<1>3. CASE Send
  <2>1. value.kind = "name" /\ IsValid(value.name)
    BY <1>3 DEF Send, ValueInv
  <2> QED
    BY <1>1, <1>3, <2>1, SentIsReading
<1>4. CASE ReadStep
  <2>1. value.kind = "reading"
    BY <1>4 DEF ReadStep, Follow, Take, Finish, Refuse
  <2>2. PICK r, sent : r = value.r /\ sent = value.sent
    OBVIOUS
  <2>3. value = [kind |-> "reading", r |-> r, sent |-> sent] /\ ReadingIsOf(r, sent)
    BY <2>1, <2>2 DEF ValueInv
  <2>4. /\ CanFollow(r) => ReadingIsOf(Followed(r), sent)
        /\ CanTake(r) => ReadingIsOf(Taken(r), sent)
        /\ sent # None => CanFollow(r) \/ CanTake(r) \/ AtRoot(r)
        /\ AtRoot(r) => IF sent = None
                        THEN Decoded(r) # Bad => IsName(Decoded(r)) /\ Decoded(r).absolute
                        ELSE Decoded(r) = Qualified(sent.name, TRUE) /\ EndOf(r) = sent.end
    BY <2>3, ReadOn
  <2>5. CASE Follow \/ Take
    <3>1. PICK s : ReadingIsOf(s, sent) /\ Reads(s)
      BY <2>2, <2>4, <2>5 DEF Follow, Take
    <3>2. value' = [kind |-> "reading", r |-> s, sent |-> sent]
      BY <2>3, <3>1 DEF Reads
    <3> QED
      BY <1>1, <3>1, <3>2
  <2>6. CASE Finish
    <3>1. AtRoot(r) /\ value' = [kind |-> "decoded", name |-> Decoded(r), end |-> EndOf(r),
                                 sent |-> sent]
      BY <2>2, <2>6 DEF Finish
    <3> QED
      BY <1>2, <2>4, <3>1
  <2>7. CASE Refuse
    <3>1. /\ ~(CanFollow(r) \/ CanTake(r) \/ AtRoot(r))
          /\ value' = [kind |-> "decoded", name |-> Bad, end |-> -1, sent |-> sent]
      BY <2>2, <2>7 DEF Refuse
    <3>2. sent = None
      BY <2>4, <3>1
    <3> QED
      BY <1>2, <3>1, <3>2
  <2> QED
    BY <1>4, <2>5, <2>6, <2>7 DEF ReadStep
<1> QED
  BY <1>3, <1>4

\* A text is what the endpoint was joined into, and splits into it.
LEMMA HostTextInv == ASSUME ValueInv, Join \/ Split PROVE ValueInv'
<1>1. PICK e : e = value.of
  OBVIOUS
<1>2. IsEndpoint(e)
  BY <1>1 DEF ValueInv, Join, Split
<1>3. PICK joined : joined = JoinHost(e.host, e.port)
  OBVIOUS
<1>4. \/ joined = Malformed /\ ~IsIPv6Literal(e.bare) /\ e.host # e.bare
      \/ /\ joined # Malformed
         /\ SplitHost(joined.text, NoPort) = [host |-> e.bare, port |-> e.port]
         /\ SplitPair(joined.text, e.port, NoPort) = [host |-> e.bare, port |-> e.port]
  BY <1>2, <1>3, Joined
<1>5. CASE Join
  <2>1. value' = [kind |-> "text", of |-> e, joined |-> joined]
    BY <1>1, <1>3, <1>5 DEF Join
  <2>2. value'.kind = "text" /\ value'.of = e /\ value'.joined = joined
    BY <2>1
  <2>3. joined = Malformed => ~IsIPv6Literal(e.bare) /\ e.host # e.bare
    BY <1>4
  <2> QED
    BY <1>2, <1>3, <2>1, <2>2, <2>3 DEF ValueInv, EndpointSurvivesItsText, WireHoldsTheName
<1>6. CASE Split
  <2>1. value.joined = joined /\ joined # Malformed
    BY <1>1, <1>3, <1>6 DEF Split, ValueInv
  <2>2. PICK both : both = [host |-> e.bare, port |-> e.port]
    OBVIOUS
  <2>3. value' = [kind |-> "split", of |-> e, alone |-> both, beside |-> both]
    BY <1>1, <1>4, <1>6, <2>1, <2>2 DEF Split
  <2>4. value'.kind = "split" /\ value'.of = e /\ value'.alone = both /\ value'.beside = both
    BY <2>3
  <2> QED
    BY <2>2, <2>3, <2>4 DEF ValueInv, EndpointSurvivesItsText, WireHoldsTheName
<1> QED
  BY <1>5, <1>6

\* Adapters and routes are the answers to what was asked.
LEMMA AnswersInv == ASSUME ValueInv, Select \/ Look PROVE ValueInv'
<1>1. CASE Select
  <2>1. PICK s : s = value.of
    OBVIOUS
  <2>2. IsSpec(s)
    BY <1>1, <2>1 DEF ValueInv, Select
  <2>3. value' = [kind |-> "selected", of |-> s, address |-> AddressOf(s),
                  index |-> IndexIn(s)]
    BY <1>1, <2>1 DEF Select, AddressOf, IndexIn
  <2>4. /\ value'.kind = "selected" /\ value'.of = s
        /\ value'.address = AddressOf(s) /\ value'.index = IndexIn(s)
    BY <2>3
  <2> QED
    BY <2>2, <2>4 DEF ValueInv, EndpointSurvivesItsText, WireHoldsTheName
<1>2. CASE Look
  <2>1. PICK d : d = value.of
    OBVIOUS
  <2>2. IsDestination(d)
    BY <1>2, <2>1 DEF ValueInv, Look
  <2>3. value' = [kind |-> "route", of |-> d, route |-> RouteOf(d)]
    BY <1>2, <2>1 DEF Look, RouteOf
  <2>4. value'.kind = "route" /\ value'.of = d /\ value'.route = RouteOf(d)
    BY <2>3
  <2> QED
    BY <2>2, <2>4 DEF ValueInv, EndpointSurvivesItsText, WireHoldsTheName
<1> QED
  BY <1>1, <1>2

\* What every value is, whatever is called in whatever order: the strengthening that
\* the properties follow from (_fqdn/_name.py, _fqdn/_wire.py, _ip/_hosttext.py,
\* _ifaddrs/_lookup.py, _nexthop.py).
THEOREM ValuesInvariance == ValuesSpec => []ValueInv
<1>1. ValuesInit => ValueInv
  BY ValuesInitInv
<1>2. ValueInv /\ [ValuesNext]_value => ValueInv'
  <2> SUFFICES ASSUME ValueInv, [ValuesNext]_value
               PROVE  ValueInv'
    OBVIOUS
  <2>1. CASE Build
    <3>1. value.parts \in Pieces /\ Named(FQDN(value.parts))
      BY <2>1 DEF Build, ValueInv
    <3> QED
      BY <3>1, BuiltIsValid, NamedInv
  <2>2. CASE Derive
    BY <2>2, DeriveInv
  <2>3. CASE Send \/ ReadStep
    BY <2>3, ReadingInv
  <2>4. CASE Join \/ Split
    BY <2>4, HostTextInv
  <2>5. CASE Select \/ Look
    BY <2>5, AnswersInv
  <2>6. CASE UNCHANGED value
    BY <2>6 DEF ValueInv, EndpointSurvivesItsText, WireHoldsTheName
  <2> QED
    BY <2>1, <2>2, <2>3, <2>4, <2>5, <2>6 DEF ValuesNext
<1> QED
  BY <1>1, <1>2, PTL DEF ValuesSpec

\* Of every name that derives from names by parents, joins, reversals, relative parts
\* and common ancestors: it is valid, reads back from its text unless that reads as an
\* address, is at or under exactly its own domains, meets every other name in their
\* nearest common domain, and sorts so that each domain stays together; for labels,
\* names and limits of any number (_fqdn/_name.py).
THEOREM NamesAgree == ValuesSpec => []NamesFormATree
<1>1. ValueInv => NamesFormATree
  <2>1. CASE value.kind = "name"
    BY <2>1, NameInTree DEF ValueInv
  <2>2. CASE value.kind # "name"
    BY <2>2 DEF NamesFormATree
  <2> QED
    BY <2>1, <2>2
<1> QED
  BY <1>1, ValuesInvariance, PTL

\* Of every name that is read from a message: it is the one that was written there, fully
\* qualified, and the record goes on right after it, written alone or with its last
\* labels behind a pointer, or behind a pointer to a pointer; of any other octets only a
\* name within the limits comes out, or none (read_labels, FQDN.encode, FQDN.decode_at).
THEOREM MessagesHoldTheName == ValuesSpec => []WireHoldsTheName
<1>1. ValueInv => WireHoldsTheName
  BY DEF ValueInv
<1> QED
  BY <1>1, ValuesInvariance, PTL

\* split_host gives back the host and the port that join_host made a text of, with the
\* same port beside the text too, for names of any shape without colons and for IPv6
\* addresses with brackets or without; only a name in brackets is refused
\* (_ip/_hosttext.py).
THEOREM HostAndPortComeBack == ValuesSpec => []EndpointSurvivesItsText
<1>1. ValueInv => EndpointSurvivesItsText
  BY DEF ValueInv
<1> QED
  BY <1>1, ValuesInvariance, PTL

\* The address and the index interface_address and interface_index give for a spec are
\* those of one adapter that it names, of the family asked for and link-local only where
\* the adapter has nothing better, whatever the system reports of however many adapters
\* (_ifaddrs/_lookup.py).
THEOREM AdapterIsOne == ValuesSpec => []OneAdapter
<1>1. ValueInv => OneAdapter
  <2>1. CASE value.kind = "selected"
    BY <2>1, OneAdapterSelected DEF ValueInv
  <2>2. CASE value.kind # "selected"
    BY <2>2 DEF OneAdapter
  <2> QED
    BY <2>1, <2>2
<1> QED
  BY <1>1, ValuesInvariance, PTL

\* get_route finds the gateway and the adapter the kernel would use, for routing tables
\* of any length and prefixes of any number of bits; where the kernel has no row it
\* answers that it does not know (_nexthop.py).
THEOREM TableAgreesWithKernel == ValuesSpec => []RouteIsTheKernels
<1>1. ValueInv => RouteIsTheKernels
  <2> SUFFICES ASSUME ValueInv, value.kind = "route"
               PROVE  RouteIsTheKernels
    BY DEF RouteIsTheKernels
  <2>1. PICK d : d = value.of
    OBVIOUS
  <2>2. PICK found : found = value.route
    OBVIOUS
  <2>3. IsDestination(d) /\ found = RouteOf(d)
    BY <2>1, <2>2 DEF ValueInv
  <2>4. PICK row : row = KernelRow(d.table, d.address.n)
    OBVIOUS
  <2>5. PICK byDefinition : byDefinition = (d.address.n \in Loopback /\
                (d.system = "bsd" \/ (d.system = "linux" /\ ~d.address.v6)))
    OBVIOUS
  <2>6. ~d.resolved => found.onLink = "unknown"
    BY <2>3, RouteWithoutTable
  <2>7. d.resolved /\ byDefinition => found.onLink = "yes"
    BY <2>3, <2>5, RouteWithoutTable
  <2>8. d.resolved /\ ~byDefinition =>
          /\ row = Unknowable => found.onLink = "unknown"
          /\ row # Unknowable /\ ~row.reject =>
               /\ found.gateway = row.gateway
               /\ found.index = IndexOf[row.adapter]
               /\ found.onLink = IF row.gateway = 0 THEN "yes" ELSE "no"
    BY <2>3, <2>4, <2>5, RouteFound DEF IsDestination
  <2> QED
    BY <2>1, <2>2, <2>4, <2>5, <2>6, <2>7, <2>8 DEF RouteIsTheKernels
<1> QED
  BY <1>1, ValuesInvariance, PTL
=============================================================================
